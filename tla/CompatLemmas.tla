---------------------------- MODULE CompatLemmas ----------------------------
(***************************************************************************)
(* Two groups of compat functions, each with an invariant per part that    *)
(* its steps keep and that tells the safety property.                      *)
(*                                                                         *)
(* First the registers behind a bus that may fail (Registers), for any     *)
(* settings, partners, tasks, calls, offsets, devices and values: what the *)
(* registers, and what a call has read of them, owe to the calls so far.   *)
(*                                                                         *)
(* Then the bytes of buffers that lie in pieces, for lists, payloads and   *)
(* buffers of any length: segments of an skb (Net), scatterlists (Scatter) *)
(* and what is read from or written to a buffer (Buffers).  What recursive *)
(* functions and FlattenSeq compute is shown by induction over the length, *)
(* in the form of a set of lengths that has 0 and each successor           *)
(* (Inductive).                                                            *)
(***************************************************************************)
EXTENDS Registers, Net, Scatter, Buffers, FiniteSetTheorems, SequenceTheorems, WellFoundedInduction, TLAPS


-----------------------------------------------------------------------------
(* Link settings.  Since a setting was taken the registers hold it.        *)
HoldsNegotiated(cmd) ==
    /\ "BMCR_ANENABLE" \in mii.bmcr /\ mii.force_media = FALSE
    /\ \A m \in SlowModes \cup Pauses : m \in cmd.advertising => AdvBits[m] \in mii.advertise
    /\ \A m \in SlowModes : AdvBits[m] \in mii.advertise => m \in cmd.advertising
    /\ mii.supports_gmii => \A m \in FastModes : Ctrl1000Bits[m] \in mii.ctrl1000 <=> m \in cmd.advertising
ModeForced(bmcr, cmd) == ForcedMode(bmcr) = <<cmd.speed, cmd.duplex>>
HoldsForced(cmd) ==
    /\ "BMCR_ANENABLE" \notin mii.bmcr /\ mii.force_media = TRUE
    /\ ModeForced(mii.bmcr, cmd)
Holds(cmd) ==
    /\ cmd.autoneg \in {"ENABLE", "DISABLE"}
    /\ IF cmd.autoneg = "ENABLE" THEN HoldsNegotiated(cmd) ELSE HoldsForced(cmd)
\* What GetControl reads, and the answer to who reads everything now.
Control == [bmcr |-> mii.bmcr, complete |-> mii.complete,
            ctrl1000 |-> IF mii.supports_gmii THEN mii.ctrl1000 ELSE {},
            stat1000 |-> IF mii.supports_gmii THEN mii.stat1000 ELSE {}]
ModeOf(r) == IF "BMCR_ANENABLE" \in r.bmcr THEN Best(Advertising(r) \cap LpAdvertising(r)) ELSE ForcedMode(r.bmcr)
AnswerOf(r) ==
    [autoneg |-> IF "BMCR_ANENABLE" \in r.bmcr THEN "ENABLE" ELSE "DISABLE", mode |-> ModeOf(r), supported |-> Supported,
     advertising |-> Advertising(r), lp_advertising |-> LpAdvertising(r)]
MiiType ==
    /\ DOMAIN mii = {"supports_gmii", "advertise", "ctrl1000", "bmcr", "lpa", "stat1000", "complete", "full_duplex",
                     "force_media", "advertising", "read", "ret", "asked", "got", "quiet"}
    /\ mii.supports_gmii \in BOOLEAN /\ mii.complete \in BOOLEAN /\ mii.quiet \in BOOLEAN
    /\ Other \subseteq mii.bmcr \cap mii.advertise \cap mii.ctrl1000 /\ mii.advertising = mii.advertise
\* Unless the PHY has changed since, what was read is what the PHY has.
ReadIsCurrent == mii.read # <<>> /\ mii.quiet => mii.read = <<Control>>
AnswerIsCurrent ==
    mii.read = <<>> /\ mii.quiet /\ mii.got # <<>> =>
        \A c \in {Control} : mii.got = <<AnswerOf(c)>> /\ mii.full_duplex = (ModeOf(c)[2] = "FULL")
SettingsHold == mii.asked # <<>> => \A cmd \in {mii.asked[1]} : Holds(cmd)
MiiInv == MiiType /\ ReadIsCurrent /\ AnswerIsCurrent /\ SettingsHold

-----------------------------------------------------------------------------
(* The PCI Express capability.  A value that a task is about to write, in  *)
(* a register that the function has, differs from what the registers were  *)
(* at first only where somebody asked.                                     *)
Implements(pos) == TRUE \in pcie_capability_reg_implemented(pos)
AsAsked(p, bits) ==
    /\ 0 \in bits => <<p, "set", 0>> \in pcie.asked
    /\ 1 \notin bits => <<p, "clear", 1>> \in pcie.asked
PcieType ==
    /\ DOMAIN pcie = {"type", "version", "slot", "flaky", "regs", "task", "ret", "got", "asked", "calls", "targets"}
    /\ pcie.type \in {"none", "endpoint", "root", "downstream", "collector"}
    /\ pcie.version \in {1, 2} /\ pcie.slot \in BOOLEAN /\ pcie.flaky \in BOOLEAN
    /\ DOMAIN pcie.regs = Words /\ DOMAIN pcie.task = PciTasks /\ pcie.targets \subseteq Int
Pending(w) ==
    /\ w.pos \in Int /\ DOMAIN w.val \in {Span2(w.pos), Span4(w.pos)}
    /\ ~pcie.flaky /\ Implements(w.pos) => \A p \in DOMAIN w.val \cap Words : AsAsked(p, w.val[p])
BitsHold ==
    ~pcie.flaky => \A p \in Words : AsAsked(p, pcie.regs[p]) /\ ((\A q \in {p, p - 2} : ~Implements(q)) => pcie.regs[p] = {1})
Clean(val, ret) == \A p \in DOMAIN val : val[p] \in {{}, IF ret = 0 THEN PDS ELSE {}}
AnswerHolds ==
    pcie.got # <<>> => \A pos \in {pcie.got[1]} : pcie.ret # 0 \/ ~Implements(pos) => Clean(pcie.got[2], pcie.ret)
TasksPending == \A t \in PciTasks : pcie.task[t] = <<>> \/ (pcie.task[t] = <<pcie.task[t][1]>> /\ Pending(pcie.task[t][1]))
PcieInv == PcieType /\ TasksPending /\ BitsHold /\ AnswerHolds

-----------------------------------------------------------------------------
(* Interrupt vectors.                                                      *)
IrqType ==
    /\ DOMAIN irq = {"free", "min_vecs", "max_vecs", "flags", "pc", "nvec", "vecs", "mode", "enabled"}
    /\ DOMAIN irq.free = {"msix", "msi"} /\ irq.free["msix"] \in Nat /\ irq.free["msi"] \in Nat
    /\ irq.min_vecs \in Nat \ {0} /\ irq.max_vecs \in Nat \ {0} /\ irq.nvec \in Nat /\ irq.vecs \in Int
    /\ irq.pc \in {"msix", "msi", "legacy", "done"}
IrqInv ==
    /\ IrqType
    /\ irq.nvec <= irq.max_vecs /\ (irq.min_vecs <= irq.max_vecs => irq.min_vecs <= irq.nvec)
    /\ irq.pc # "done" => irq.vecs < 0 /\ irq.enabled = 0 /\ irq.mode = "none"
    /\ VectorsAsAnswered

-----------------------------------------------------------------------------
(* Virtual functions.  The walk has passed the devices before the one it   *)
(* is at, and has counted them.                                            *)
VfDevs == DOMAIN vf.devs
VfType ==
    /\ DOMAIN vf = {"physfn", "devs", "last", "at", "refs", "count", "pc", "ever", "always"}
    /\ vf.devs \in Seq([ours : BOOLEAN, assigned : BOOLEAN])
    /\ DOMAIN vf.refs = VfDevs /\ vf.ever \subseteq VfDevs /\ vf.always \subseteq VfDevs
    /\ vf.pc \in {"start", "walk", "done"} /\ vf.count \in Nat /\ vf.last \in {0, Len(vf.devs)}
    /\ vf.at \in 0 .. vf.last
Passed(d) == IF vf.pc = "done" THEN d <= vf.last ELSE d < vf.at
OursPassed(S) == {d \in S : vf.devs[d].ours /\ Passed(d)}
VfWalk ==
    /\ vf.pc = "start" => vf.count = 0 /\ vf.at = 0 /\ vf.last = 0
    /\ vf.pc = "walk" => vf.at # 0
    /\ \A d \in VfDevs : vf.refs[d] = IF vf.pc = "walk" /\ d = vf.at THEN 1 ELSE 0
VfGuests == \A d \in VfDevs : (vf.devs[d].assigned => d \in vf.ever) /\ (d \in vf.always => vf.devs[d].assigned)
VfCount == vf.count <= Cardinality(OursPassed(vf.ever)) /\ Cardinality(OursPassed(vf.always)) <= vf.count
VfInv == VfType /\ VfWalk /\ VfGuests /\ VfCount

-----------------------------------------------------------------------------
(* Register maps.                                                          *)
I2cInv ==
    /\ DOMAIN i2c = {"nostart", "regs", "pc", "reg", "val", "ret", "read"}
    /\ DOMAIN i2c.regs = I2cRegs
    /\ i2c.pc \in {"idle", "gather", "linear"}
    /\ i2c.pc # "idle" => i2c.reg \in I2cRegs /\ i2c.val \in I2cValues
    /\ I2cDoneIfOk

-----------------------------------------------------------------------------
(* Register maps: the answer is "ok" only after all messages, or all bytes.*)
LEMMA I2cStarts == ASSUME NEW nostart \in BOOLEAN, i2c = I2cStart(nostart) PROVE I2cInv
BY DEF I2cStart, I2cInv, I2cDoneIfOk

LEMMA StoredWhole ==
    ASSUME i2c.reg \in I2cRegs, i2c.val \in I2cValues, DOMAIN i2c.regs = I2cRegs
    PROVE  Stored(2)[i2c.reg] = i2c.val /\ i2c.val # <<>>
<1>1. i2c.val \in [1 .. 2 -> Int]
  BY RegistersAssumption
<1>2. Stored(2)[i2c.reg] = [b \in 1 .. 2 |-> IF b <= 2 THEN i2c.val[b] ELSE i2c.regs[i2c.reg][b]]
  BY DEF Stored
<1>3. \A b \in 1 .. 2 : b <= 2
  OBVIOUS
<1>4. [b \in 1 .. 2 |-> IF b <= 2 THEN i2c.val[b] ELSE i2c.regs[i2c.reg][b]] = i2c.val
  BY <1>1, <1>3
<1> QED BY <1>1, <1>2, <1>4

LEMMA I2cSteps == I2cInv /\ (I2cNext \/ UNCHANGED i2c) => I2cInv'
<1> SUFFICES ASSUME I2cInv, I2cNext \/ UNCHANGED i2c PROVE I2cInv'
  OBVIOUS
<1> USE DEF I2cInv
<1>1. CASE UNCHANGED i2c
  BY <1>1 DEF I2cDoneIfOk
<1>2. ASSUME NEW r \in I2cRegs, regmap_i2c_read(r) PROVE I2cInv'
  BY <1>2 DEF regmap_i2c_read, TransferAnswer, I2cDoneIfOk
<1>3. ASSUME NEW r \in I2cRegs, NEW v \in I2cValues, RegWrite(r, v) PROVE I2cInv'
  BY <1>3 DEF RegWrite, I2cDoneIfOk
<1>4. CASE regmap_i2c_gather_write
  <2>1. CASE i2c' = [i2c EXCEPT !.pc = "linear"]
    BY <1>4, <2>1 DEF regmap_i2c_gather_write, I2cDoneIfOk
  <2>2. ASSUME NEW ret \in -1 .. 2, NEW k \in 0 .. 2, ret = 2 => k = 2,
               i2c' = [i2c EXCEPT !.pc = "idle", !.regs = Stored(k), !.ret = TransferAnswer(ret, 2)]
        PROVE  I2cInv'
    <3>1. DOMAIN Stored(k) = I2cRegs
      BY DEF Stored
    <3>2. ret = 2 => Stored(k)[i2c.reg] = i2c.val /\ i2c.val # <<>>
      BY <1>4, <2>2, StoredWhole DEF regmap_i2c_gather_write
    <3> QED BY <2>2, <3>1, <3>2 DEF I2cDoneIfOk, TransferAnswer
  <2> QED BY <1>4, <2>1, <2>2 DEF regmap_i2c_gather_write
<1>5. CASE regmap_i2c_write
  <2>1. ASSUME NEW ret \in -1 .. 3, NEW k \in 0 .. 2, ret = 3 => k = 2,
               i2c' = [i2c EXCEPT !.pc = "idle", !.regs = Stored(k), !.ret = TransferAnswer(ret, 3)]
        PROVE  I2cInv'
    <3>1. DOMAIN Stored(k) = I2cRegs
      BY DEF Stored
    <3>2. ret = 3 => Stored(k)[i2c.reg] = i2c.val /\ i2c.val # <<>>
      BY <1>5, <2>1, StoredWhole DEF regmap_i2c_write
    <3> QED BY <2>1, <3>1, <3>2 DEF I2cDoneIfOk, TransferAnswer
  <2>2. PICK ret \in -1 .. 3, k \in 0 .. 2 :
            /\ ret >= 0 => k = IF ret = 0 THEN 0 ELSE ret - 1
            /\ i2c' = [i2c EXCEPT !.pc = "idle", !.regs = Stored(k), !.ret = TransferAnswer(ret, 3)]
    BY <1>5 DEF regmap_i2c_write
  <2>3. ret = 3 => k = 2
    BY <2>2
  <2> QED BY <2>1, <2>2, <2>3
<1> QED BY <1>1, <1>2, <1>3, <1>4, <1>5 DEF I2cNext

-----------------------------------------------------------------------------
(* Interrupt vectors.                                                      *)
LEMMA IrqStarts ==
    ASSUME NEW x \in Nat, NEW m \in Nat, NEW min \in Nat \ {0}, NEW max \in Nat \ {0}, NEW flags,
           irq = IrqStart([msix |-> x, msi |-> m], min, max, flags)
    PROVE  IrqInv
BY DEF IrqStart, IrqInv, IrqType, VectorsAsAnswered

\* A try of either kind: the next kind begins as the first did, and what is
\* granted is no more than asked for and no less than the driver needs.
LEMMA RoundKeeps ==
    ASSUME IrqInv, NEW kind \in {"msix", "msi"}, irq.pc = kind, kind \in irq.flags, Round(kind)
    PROVE  IrqInv'
<1> USE DEF IrqInv, IrqType
<1>1. ASSUME NEW vecs \in Int, vecs < 0, irq' = Failed(kind, vecs) PROVE IrqInv'
  BY <1>1 DEF Failed, Following, VectorsAsAnswered
<1>2. ASSUME NEW rc \in Nat, rc >= irq.min_vecs, rc < irq.nvec, irq' = [irq EXCEPT !.nvec = rc] PROVE IrqInv'
  BY <1>2 DEF VectorsAsAnswered
<1>3. ASSUME irq.min_vecs <= irq.max_vecs, irq.free[kind] >= irq.nvec, irq' = Granted(kind) PROVE IrqInv'
  BY <1>3 DEF Granted, VectorsAsAnswered
<1>4. CASE irq.max_vecs < irq.min_vecs /\ irq' = Failed(kind, -34)
  BY <1>1, <1>4
<1>5. ASSUME irq.max_vecs >= irq.min_vecs, NEW rc \in EnableAnswers(kind),
             irq' = CASE rc < 0 -> Failed(kind, rc)
                      [] rc > 0 /\ rc < irq.min_vecs -> Failed(kind, -28)
                      [] rc > 0 /\ rc >= irq.min_vecs -> [irq EXCEPT !.nvec = rc]
                      [] rc = 0 -> Granted(kind)
      PROVE  IrqInv'
  <2>1. \/ rc = -1
        \/ rc = 0 /\ irq.free[kind] >= irq.nvec
        \/ rc \in Nat /\ rc > 0 /\ rc < irq.nvec
    BY DEF EnableAnswers
  <2> QED BY <1>1, <1>2, <1>3, <1>5, <2>1
<1> QED BY <1>4, <1>5 DEF Round

LEMMA IrqSteps == IrqInv /\ (IrqNext \/ UNCHANGED irq) => IrqInv'
<1> SUFFICES ASSUME IrqInv, IrqNext \/ UNCHANGED irq PROVE IrqInv'
  OBVIOUS
<1>1. CASE UNCHANGED irq
  BY <1>1 DEF IrqInv, IrqType, VectorsAsAnswered
<1>2. CASE pci_enable_msix_range
  BY <1>2, RoundKeeps DEF pci_enable_msix_range
<1>3. CASE pci_enable_msi_range
  BY <1>3, RoundKeeps DEF pci_enable_msi_range
<1>4. CASE pci_alloc_irq_vectors
  <2>1. CASE irq.pc \in {"msix", "msi"} /\ irq' = [irq EXCEPT !.pc = Following[irq.pc]]
    <3>1. Following[irq.pc] \in {"msi", "legacy"}
      BY <2>1 DEF Following
    <3> QED BY <2>1, <3>1 DEF IrqInv, IrqType, VectorsAsAnswered
  <2>2. CASE /\ irq.pc = "legacy" /\ "legacy" \in irq.flags /\ irq.min_vecs = 1
             /\ irq' = [irq EXCEPT !.pc = "done", !.vecs = 1, !.mode = "intx", !.enabled = 1]
    BY <2>2 DEF IrqInv, IrqType, VectorsAsAnswered
  <2>3. CASE irq.pc = "legacy" /\ irq' = [irq EXCEPT !.pc = "done"]
    BY <2>3 DEF IrqInv, IrqType, VectorsAsAnswered
  <2> QED BY <1>4, <2>1, <2>2, <2>3 DEF pci_alloc_irq_vectors
<1>5. CASE OtherDevice
  BY <1>5, RegistersAssumption DEF OtherDevice, IrqInv, IrqType, VectorsAsAnswered
<1> QED BY <1>1, <1>2, <1>3, <1>4, <1>5 DEF IrqNext

-----------------------------------------------------------------------------
(* Virtual functions.                                                      *)
LEMMA OursFinite ==
    ASSUME VfType, NEW S \in SUBSET VfDevs
    PROVE  IsFiniteSet(OursPassed(S)) /\ Cardinality(OursPassed(S)) \in Nat
<1>1. Len(vf.devs) \in Nat /\ VfDevs = 1 .. Len(vf.devs)
  BY DEF VfType, VfDevs
<1>2. IsFiniteSet(VfDevs)
  BY <1>1, FS_Interval
<1>3. OursPassed(S) \subseteq VfDevs
  BY DEF OursPassed
<1>4. IsFiniteSet(OursPassed(S))
  BY <1>2, <1>3, FS_Subset
<1> QED BY <1>4, FS_CardinalityType

LEMMA VfStarts ==
    ASSUME NEW devs \in Seq([ours : BOOLEAN, assigned : BOOLEAN]), NEW physfn \in BOOLEAN, vf = VfStart(devs, physfn)
    PROVE  VfInv
<1>1. Len(devs) \in Nat /\ DOMAIN devs = 1 .. Len(devs)
  OBVIOUS
<1>2. /\ DOMAIN vf = {"physfn", "devs", "last", "at", "refs", "count", "pc", "ever", "always"}
      /\ vf.devs = devs /\ vf.last = 0 /\ vf.at = 0 /\ vf.pc = "start" /\ vf.count = 0
      /\ vf.refs = [d \in DOMAIN devs |-> 0] /\ vf.ever = {d \in DOMAIN devs : devs[d].assigned} /\ vf.always = vf.ever
  BY DEF VfStart
<1>3. VfType
  BY <1>1, <1>2 DEF VfType, VfDevs
<1>4. VfWalk /\ VfGuests
  BY <1>2 DEF VfWalk, VfGuests, VfDevs
<1>5. OursPassed(vf.ever) = {} /\ OursPassed(vf.always) = {}
  BY <1>1, <1>2 DEF OursPassed, Passed
<1>6. VfCount
  BY <1>2, <1>5, FS_EmptySet, SMTT(60) DEF VfCount
<1> QED BY <1>3, <1>4, <1>6 DEF VfInv

\* One device is held at a time, and none after the last.
LEMMA NextDevice ==
    ASSUME NEW v, NEW w, w = pci_get_device(v), NEW k \in Nat,
           DOMAIN v = {"physfn", "devs", "last", "at", "refs", "count", "pc", "ever", "always"},
           DOMAIN v.refs = 1 .. k, v.at \in Nat, v.last \in Nat, v.at <= v.last, v.last <= k,
           \A d \in 1 .. k : v.refs[d] = IF d = v.at THEN 1 ELSE 0
    PROVE  /\ DOMAIN w = DOMAIN v /\ w.devs = v.devs /\ w.last = v.last /\ w.count = v.count /\ w.ever = v.ever /\ w.always = v.always
           /\ IF v.at = v.last THEN w.pc = "done" /\ w.at = v.at ELSE w.pc = "walk" /\ w.at = v.at + 1
           /\ DOMAIN w.refs = 1 .. k
           /\ \A d \in 1 .. k : w.refs[d] = IF w.pc = "walk" /\ d = w.at THEN 1 ELSE 0
<1> DEFINE put == [d \in DOMAIN v.refs |-> IF d = v.at THEN v.refs[d] - 1 ELSE v.refs[d]]
<1>1. DOMAIN put = 1 .. k /\ \A d \in 1 .. k : put[d] = 0
  OBVIOUS
<1>2. w = IF v.at + 1 > v.last THEN [v EXCEPT !.refs = put, !.pc = "done"]
          ELSE [v EXCEPT !.refs = [put EXCEPT ![v.at + 1] = @ + 1], !.at = v.at + 1, !.pc = "walk"]
  BY DEF pci_get_device
<1> HIDE DEF put
<1>3. CASE v.at = v.last
  <2>1. w = [v EXCEPT !.refs = put, !.pc = "done"]
    BY <1>2, <1>3
  <2> QED BY <1>1, <1>3, <2>1
<1>4. CASE v.at # v.last
  <2>1. w = [v EXCEPT !.refs = [put EXCEPT ![v.at + 1] = @ + 1], !.at = v.at + 1, !.pc = "walk"]
    BY <1>2, <1>4
  <2>2. /\ DOMAIN w = DOMAIN v /\ w.devs = v.devs /\ w.last = v.last /\ w.count = v.count /\ w.ever = v.ever /\ w.always = v.always
        /\ w.refs = [put EXCEPT ![v.at + 1] = @ + 1] /\ w.at = v.at + 1 /\ w.pc = "walk"
    BY <2>1
  <2>3. DOMAIN w.refs = 1 .. k /\ \A d \in 1 .. k : w.refs[d] = IF d = v.at + 1 THEN 1 ELSE 0
    BY <1>1, <2>2
  <2> QED BY <1>4, <2>2, <2>3
<1> QED BY <1>3, <1>4

LEMMA WalkBegins == ASSUME VfInv, FirstVf PROVE VfInv'
<1> USE DEF VfInv
<1>0. Len(vf.devs) \in Nat /\ VfDevs = 1 .. Len(vf.devs) /\ vf.at = 0 /\ vf.last = 0 /\ vf.count = 0 /\ vf.pc = "start"
  BY DEF VfType, VfDevs, VfWalk, FirstVf
<1>1. CASE vf' = [vf EXCEPT !.pc = "done"]
  <2>1. /\ DOMAIN vf' = DOMAIN vf /\ vf'.devs = vf.devs /\ vf'.last = vf.last /\ vf'.at = vf.at /\ vf'.refs = vf.refs
        /\ vf'.count = vf.count /\ vf'.ever = vf.ever /\ vf'.always = vf.always /\ vf'.pc = "done"
    BY <1>1 DEF VfType
  <2>2. VfType' /\ VfWalk' /\ VfGuests'
    BY <1>0, <2>1 DEF VfType, VfWalk, VfGuests, VfDevs
  <2>3. vf'.ever \in SUBSET (1 .. Len(vf.devs)) /\ vf'.always \in SUBSET (1 .. Len(vf.devs))
    BY <1>0, <2>1 DEF VfType
  <2>4. OursPassed(vf.ever)' = {} /\ OursPassed(vf.always)' = {}
    BY <1>0, <2>1, <2>3 DEF OursPassed, Passed
  <2>5. VfCount'
    BY <1>0, <2>1, <2>4, FS_EmptySet DEF VfCount
  <2> QED BY <2>2, <2>5
<1>2. ASSUME NEW last \in {0, Len(vf.devs)}, vf' = pci_get_device([vf EXCEPT !.last = last]) PROVE VfInv'
  <2> DEFINE v == [vf EXCEPT !.last = last]
  <2>1. /\ DOMAIN v = {"physfn", "devs", "last", "at", "refs", "count", "pc", "ever", "always"}
        /\ v.refs = vf.refs /\ v.at = 0 /\ v.last = last /\ v.devs = vf.devs /\ v.count = 0 /\ v.ever = vf.ever /\ v.always = vf.always
    BY <1>0 DEF VfType
  <2>2. DOMAIN v.refs = 1 .. Len(vf.devs) /\ \A d \in 1 .. Len(vf.devs) : v.refs[d] = IF d = v.at THEN 1 ELSE 0
    BY <1>0, <2>1 DEF VfType, VfWalk
  <2> HIDE DEF v
  <2>3. vf' = pci_get_device(v)
    BY <1>2 DEF v
  <2>4. /\ DOMAIN vf' = DOMAIN v /\ vf'.devs = v.devs /\ vf'.last = v.last /\ vf'.count = v.count
        /\ vf'.ever = v.ever /\ vf'.always = v.always
        /\ IF v.at = v.last THEN vf'.pc = "done" /\ vf'.at = v.at ELSE vf'.pc = "walk" /\ vf'.at = v.at + 1
        /\ DOMAIN vf'.refs = 1 .. Len(vf.devs)
        /\ \A d \in 1 .. Len(vf.devs) : vf'.refs[d] = IF vf'.pc = "walk" /\ d = vf'.at THEN 1 ELSE 0
    BY <1>0, <2>1, <2>2, <2>3, NextDevice
  <2>5. VfType' /\ VfWalk' /\ VfGuests'
    BY <1>0, <2>1, <2>4 DEF VfType, VfWalk, VfGuests, VfDevs
  <2>6. VfCount'
    <3>1. vf'.count = 0 /\ vf'.at \in 0 .. 1 /\ (vf'.pc = "done" => vf'.last = 0)
      BY <2>1, <2>4
    <3>2. vf'.ever \in SUBSET (1 .. Len(vf.devs)) /\ vf'.always \in SUBSET (1 .. Len(vf.devs))
      BY <1>0, <2>1, <2>4 DEF VfType
    <3>3. OursPassed(vf.ever)' = {} /\ OursPassed(vf.always)' = {}
      BY <1>0, <3>1, <3>2 DEF OursPassed, Passed
    <3> QED BY <3>1, <3>3, FS_EmptySet DEF VfCount
  <2> QED BY <2>5, <2>6
<1> QED BY <1>1, <1>2 DEF FirstVf

LEMMA WalkGoesOn == ASSUME VfInv, pci_vfs_assigned PROVE VfInv'
<1> USE DEF VfInv
<1> DEFINE at == vf.at
           add == IF vf.devs[at].ours /\ vf.devs[at].assigned THEN 1 ELSE 0
           v == [vf EXCEPT !.count = IF vf.devs[at].ours /\ vf.devs[at].assigned THEN @ + 1 ELSE @]
<1>0. /\ Len(vf.devs) \in Nat /\ VfDevs = 1 .. Len(vf.devs) /\ vf.pc = "walk" /\ at \in Nat /\ vf.last \in Nat
      /\ at \in VfDevs /\ at <= vf.last /\ vf.last = Len(vf.devs) /\ vf.count \in Nat
  BY DEF VfType, VfDevs, VfWalk, pci_vfs_assigned
<1>1. /\ DOMAIN v = {"physfn", "devs", "last", "at", "refs", "count", "pc", "ever", "always"}
      /\ v.refs = vf.refs /\ v.at = at /\ v.last = vf.last /\ v.devs = vf.devs /\ v.count = vf.count + add
      /\ v.ever = vf.ever /\ v.always = vf.always
  BY <1>0 DEF VfType
<1>2. DOMAIN v.refs = 1 .. Len(vf.devs) /\ \A d \in 1 .. Len(vf.devs) : v.refs[d] = IF d = v.at THEN 1 ELSE 0
  BY <1>0, <1>1 DEF VfType, VfWalk
<1>3. vf' = pci_get_device(v)
  BY DEF pci_vfs_assigned
<1>4. add \in {0, 1}
  OBVIOUS
<1> HIDE DEF v
<1>5. /\ DOMAIN vf' = DOMAIN v /\ vf'.devs = v.devs /\ vf'.last = v.last /\ vf'.count = v.count
      /\ vf'.ever = v.ever /\ vf'.always = v.always
      /\ IF v.at = v.last THEN vf'.pc = "done" /\ vf'.at = v.at ELSE vf'.pc = "walk" /\ vf'.at = v.at + 1
      /\ DOMAIN vf'.refs = 1 .. Len(vf.devs)
      /\ \A d \in 1 .. Len(vf.devs) : vf'.refs[d] = IF vf'.pc = "walk" /\ d = vf'.at THEN 1 ELSE 0
  BY <1>0, <1>1, <1>2, <1>3, NextDevice
<1>6. VfType' /\ VfWalk' /\ VfGuests'
  <2> HIDE DEF add
  <2> QED BY <1>0, <1>1, <1>4, <1>5 DEF VfType, VfWalk, VfGuests, VfDevs
<1>7. \A d \in VfDevs : Passed(d)' <=> Passed(d) \/ d = at
  BY <1>0, <1>1, <1>5 DEF Passed
<1> DEFINE Ours(S) == {d \in S : vf.devs[d].ours /\ (Passed(d) \/ d = at)}
<1>8. OursPassed(vf.ever)' = Ours(vf.ever) /\ OursPassed(vf.always)' = Ours(vf.always) /\ vf'.count = vf.count + add
  <2>1. vf'.ever = vf.ever /\ vf'.always = vf.always /\ vf'.devs = vf.devs /\ vf.ever \subseteq VfDevs /\ vf.always \subseteq VfDevs
    BY <1>1, <1>5 DEF VfType
  <2> QED BY <1>1, <1>5, <1>7, <2>1 DEF OursPassed
<1>9. ASSUME NEW S \in SUBSET VfDevs
      PROVE  /\ Cardinality(OursPassed(S)) \in Nat
             /\ Cardinality(Ours(S)) = Cardinality(OursPassed(S)) + IF at \in S /\ vf.devs[at].ours THEN 1 ELSE 0
  <2>1. at \notin OursPassed(S)
    BY <1>0 DEF OursPassed, Passed
  <2>2. IsFiniteSet(OursPassed(S)) /\ Cardinality(OursPassed(S)) \in Nat
    BY OursFinite
  <2>3. Ours(S) = IF at \in S /\ vf.devs[at].ours THEN OursPassed(S) \cup {at} ELSE OursPassed(S)
    BY DEF OursPassed
  <2>4. Cardinality(OursPassed(S) \cup {at}) = Cardinality(OursPassed(S)) + 1
    BY <2>1, <2>2, FS_AddElement
  <2> HIDE DEF Ours
  <2> QED BY <2>2, <2>3, <2>4
<1>10. vf.ever \in SUBSET VfDevs /\ vf.always \in SUBSET VfDevs
  BY DEF VfType
<1> HIDE DEF Ours
<1>11. VfCount'
  <2>1. vf.devs[at].assigned => at \in vf.ever
    BY <1>0 DEF VfGuests
  <2>2. at \in vf.always => vf.devs[at].assigned
    BY <1>0 DEF VfGuests
  <2> QED BY <1>0, <1>8, <1>9, <1>10, <2>1, <2>2 DEF VfCount
<1> QED BY <1>6, <1>11

LEMMA DevicesTyped == ASSUME VfType, NEW d \in VfDevs PROVE vf.devs[d] \in [ours : BOOLEAN, assigned : BOOLEAN]
<1> DEFINE R == [ours : BOOLEAN, assigned : BOOLEAN]
<1>1. vf.devs \in Seq(R)
  BY DEF VfType
<1> HIDE DEF R
<1>2. vf.devs[d] \in R
  BY <1>1 DEF VfDevs
<1> QED BY <1>2 DEF R

LEMMA GuestChanges == ASSUME VfInv, NEW g \in VfDevs, Guest(g) PROVE VfInv'
<1> USE DEF VfInv
<1> DEFINE now == ~vf.devs[g].assigned
<1>0. Len(vf.devs) \in Nat /\ VfDevs = 1 .. Len(vf.devs) /\ vf.pc = "walk" /\ now \in BOOLEAN
  BY DEF VfType, VfDevs, Guest
<1>1. /\ DOMAIN vf' = DOMAIN vf /\ vf'.devs = [vf.devs EXCEPT ![g].assigned = now]
      /\ vf'.last = vf.last /\ vf'.count = vf.count /\ vf'.pc = vf.pc /\ vf'.at = vf.at /\ vf'.refs = vf.refs
      /\ vf'.ever = (IF now THEN vf.ever \cup {g} ELSE vf.ever) /\ vf'.always = (IF now THEN vf.always ELSE vf.always \ {g})
  BY DEF Guest, VfType
<1> HIDE DEF now
<1>2. /\ vf'.devs \in Seq([ours : BOOLEAN, assigned : BOOLEAN]) /\ Len(vf'.devs) = Len(vf.devs) /\ DOMAIN vf'.devs = VfDevs
      /\ \A d \in VfDevs : vf'.devs[d].ours = vf.devs[d].ours /\ vf'.devs[d].assigned = IF d = g THEN now ELSE vf.devs[d].assigned
  <2>1. vf.devs \in Seq([ours : BOOLEAN, assigned : BOOLEAN]) /\ DOMAIN vf.devs = VfDevs /\ vf.devs[g] \in [ours : BOOLEAN, assigned : BOOLEAN]
    BY <1>0, DevicesTyped DEF VfType, VfDevs
  <2> DEFINE dev == [vf.devs[g] EXCEPT !.assigned = now]
  <2>2. dev \in [ours : BOOLEAN, assigned : BOOLEAN] /\ dev.ours = vf.devs[g].ours /\ dev.assigned = now
    BY <1>0, <2>1
  <2>3. vf'.devs = [vf.devs EXCEPT ![g] = dev]
    BY <1>1
  <2> HIDE DEF dev
  <2> QED BY <1>0, <2>1, <2>2, <2>3
<1>3. VfType' /\ VfWalk' /\ VfGuests'
  <2>1. \A d \in VfDevs : vf.devs[d].assigned \in BOOLEAN
    BY DevicesTyped
  <2>2. VfType' /\ VfWalk'
    BY <1>0, <1>1, <1>2 DEF VfType, VfWalk, VfDevs
  <2>3. VfGuests'
    BY <1>0, <1>1, <1>2, <2>1 DEF VfGuests, VfDevs, now
  <2> QED BY <2>2, <2>3
<1>4. OursPassed(vf.always)' \subseteq OursPassed(vf.always) /\ OursPassed(vf.ever) \subseteq OursPassed(vf.ever)'
  BY <1>1, <1>2 DEF OursPassed, Passed, VfType
<1>5. VfCount'
  <2>1. \A S \in SUBSET VfDevs : IsFiniteSet(OursPassed(S)) /\ Cardinality(OursPassed(S)) \in Nat
    BY OursFinite
  <2>2. vf.ever \in SUBSET VfDevs /\ vf.always \in SUBSET VfDevs
    BY DEF VfType
  <2>3. IsFiniteSet(OursPassed(vf.ever)')
    <3>1. OursPassed(vf.ever)' \subseteq 1 .. Len(vf.devs)
      BY <1>0, <1>1, <2>2 DEF OursPassed
    <3>2. IsFiniteSet(1 .. Len(vf.devs))
      BY <1>0, FS_Interval
    <3> QED BY <3>1, <3>2, FS_Subset
  <2>4. Cardinality(OursPassed(vf.always)') <= Cardinality(OursPassed(vf.always)) /\ Cardinality(OursPassed(vf.always)') \in Nat
    BY <1>4, <2>1, <2>2, FS_Subset, FS_CardinalityType
  <2>5. Cardinality(OursPassed(vf.ever)) <= Cardinality(OursPassed(vf.ever)') /\ Cardinality(OursPassed(vf.ever)') \in Nat
    BY <1>4, <2>1, <2>2, <2>3, FS_Subset, FS_CardinalityType
  <2>6. vf'.count = vf.count /\ vf.count \in Nat /\ Cardinality(OursPassed(vf.always)) \in Nat /\ Cardinality(OursPassed(vf.ever)) \in Nat
    BY <1>1, <2>1, <2>2 DEF VfType
  <2> QED BY <2>4, <2>5, <2>6 DEF VfCount
<1> QED BY <1>3, <1>5

LEMMA VfSteps == VfInv /\ (VfNext \/ UNCHANGED vf) => VfInv'
<1>1. VfInv /\ UNCHANGED vf => VfInv'
  BY DEF VfInv, VfType, VfWalk, VfGuests, VfCount, VfDevs, OursPassed, Passed
<1> QED BY <1>1, WalkBegins, WalkGoesOn, GuestChanges DEF VfNext, VfDevs

LEMMA VfSafe == VfInv => VfsCounted
<1> SUFFICES ASSUME VfInv, vf.pc = "done"
             PROVE  /\ vf.count <= Cardinality({d \in vf.ever : vf.devs[d].ours})
                    /\ vf.last # 0 => vf.count >= Cardinality({d \in vf.always : vf.devs[d].ours})
                    /\ \A d \in DOMAIN vf.refs : vf.refs[d] = 0
  BY DEF VfsCounted
<1> USE DEF VfInv
<1>0. Len(vf.devs) \in Nat /\ VfDevs = 1 .. Len(vf.devs) /\ vf.count \in Nat
  BY DEF VfType, VfDevs
<1>1. \A d \in DOMAIN vf.refs : vf.refs[d] = 0
  BY DEF VfType, VfWalk
<1>2. OursPassed(vf.ever) \subseteq {d \in vf.ever : vf.devs[d].ours}
  BY DEF OursPassed
<1>3. vf.last # 0 => {d \in vf.always : vf.devs[d].ours} = OursPassed(vf.always)
  BY <1>0 DEF OursPassed, Passed, VfType
<1>4. IsFiniteSet({d \in vf.ever : vf.devs[d].ours})
  <2>1. {d \in vf.ever : vf.devs[d].ours} \subseteq 1 .. Len(vf.devs)
    BY <1>0 DEF VfType
  <2>2. IsFiniteSet(1 .. Len(vf.devs))
    BY <1>0, FS_Interval
  <2> QED BY <2>1, <2>2, FS_Subset
<1>5. Cardinality(OursPassed(vf.ever)) <= Cardinality({d \in vf.ever : vf.devs[d].ours})
  BY <1>2, <1>4, FS_Subset
<1>6. Cardinality(OursPassed(vf.ever)) \in Nat /\ Cardinality({d \in vf.ever : vf.devs[d].ours}) \in Nat
  BY <1>2, <1>4, FS_Subset, FS_CardinalityType
<1>7. vf.count <= Cardinality(OursPassed(vf.ever)) /\ Cardinality(OursPassed(vf.always)) <= vf.count
  BY DEF VfCount
<1>8. vf.last # 0 => vf.count >= Cardinality({d \in vf.always : vf.devs[d].ours})
  <2>1. Cardinality(OursPassed(vf.always)) \in Nat
    BY OursFinite DEF VfType
  <2> QED BY <1>0, <1>3, <1>7, <2>1
<1> QED BY <1>0, <1>1, <1>5, <1>6, <1>7, <1>8

-----------------------------------------------------------------------------
(* The PCI Express capability.  What a function implements never changes,  *)
(* and while its flags can be read all accessors agree about it.           *)
SameFunction == pcie'.type = pcie.type /\ pcie'.version = pcie.version /\ pcie'.slot = pcie.slot /\ pcie'.flaky = pcie.flaky

LEMMA SameRegisters == SameFunction => \A pos : Implements(pos)' <=> Implements(pos)
<1> SUFFICES ASSUME SameFunction PROVE \A pos : Implements(pos)' <=> Implements(pos)
  OBVIOUS
<1>1. pcie_flags_reg' = pcie_flags_reg
  BY DEF SameFunction, pcie_flags_reg
<1>2. pci_pcie_type' = pci_pcie_type /\ pcie_cap_version' = pcie_cap_version /\ pci_is_pcie' = pci_is_pcie
  BY <1>1 DEF pci_pcie_type, pcie_cap_version, pci_is_pcie, SameFunction
<1>3. /\ pcie_cap_has_lnkctl' = pcie_cap_has_lnkctl /\ pcie_cap_has_sltctl' = pcie_cap_has_sltctl
      /\ pcie_cap_has_rtctl' = pcie_cap_has_rtctl
  BY <1>1, <1>2 DEF pcie_cap_has_lnkctl, pcie_cap_has_sltctl, pcie_cap_has_rtctl
<1>4. \A pos : pcie_capability_reg_implemented(pos)' = pcie_capability_reg_implemented(pos)
  BY <1>2, <1>3 DEF pcie_capability_reg_implemented
<1> QED BY <1>4 DEF Implements

LEMMA FlagsAgree ==
    ASSUME PcieType, ~pcie.flaky, NEW pos, Implements(pos)
    PROVE  pcie_capability_reg_implemented(pos) = {TRUE}
<1>1. PICK f : pcie_flags_reg = {f}
  <2>1. CASE pcie.type = "none"
    BY <2>1 DEF pcie_flags_reg
  <2>2. CASE pcie.type # "none"
    <3>1. pcie_flags_reg = {[type |-> pcie.type, version |-> pcie.version, slot |-> pcie.slot]}
      BY <2>2 DEF pcie_flags_reg
    <3> QED BY <3>1
  <2> QED BY <2>1, <2>2
<1>2. pci_pcie_type = {f.type} /\ pcie_cap_version = {f.version}
  BY <1>1 DEF pci_pcie_type, pcie_cap_version
<1>3. pcie_cap_has_lnkctl = {f.version > 1 \/ f.type \in {"root", "endpoint", "legacy"}}
  BY <1>2 DEF pcie_cap_has_lnkctl
<1>4. pcie_cap_has_sltctl = {f.version > 1 \/ f.type = "root" \/ (f.type = "downstream" /\ f.slot)}
  BY <1>1, <1>2 DEF pcie_cap_has_sltctl
<1>5. pcie_cap_has_rtctl = {f.version > 1 \/ f.type \in {"root", "collector"}}
  BY <1>2 DEF pcie_cap_has_rtctl
<1>6. \A S : S \in {{FALSE}, {TRUE}, pcie_cap_has_lnkctl, pcie_cap_has_sltctl, pcie_cap_has_rtctl, {v > 1 : v \in pcie_cap_version}}
          => \E b : S = {b}
  <2>1. {v > 1 : v \in pcie_cap_version} = {f.version > 1}
    BY <1>2
  <2> QED BY <1>3, <1>4, <1>5, <2>1
<1>7. pcie_capability_reg_implemented(pos) \in
          {{FALSE}, {TRUE}, pcie_cap_has_lnkctl, pcie_cap_has_sltctl, pcie_cap_has_rtctl, {v > 1 : v \in pcie_cap_version}}
  BY DEF pcie_capability_reg_implemented
<1> QED BY <1>6, <1>7 DEF Implements

\* A read that fails, or of a register that is not there, leaves no bits of the
\* bus; one that succeeds has the word.
LEMMA ReadsRegister ==
    ASSUME NEW span, NEW r \in ReadImplemented(span)
    PROVE  DOMAIN r.val = span /\ (r.ret # 0 => Clean(r.val, r.ret)) /\ (r.ret = 0 => \A p \in span : r.val[p] = Word(p))
<1>1. PICK a \in pci_read_config(span) : r = IF a.ret = 0 THEN a ELSE [a EXCEPT !.val = Zeros(span)]
  BY DEF ReadImplemented
<1>2. CASE a = [ret |-> 0, val |-> [p \in span |-> Word(p)]]
  BY <1>1, <1>2
<1>3. CASE a = [ret |-> 1, val |-> [p \in span |-> Ones]]
  <2>1. r.ret = 1 /\ r.val = [p \in span |-> {}]
    BY <1>1, <1>3 DEF Zeros
  <2> QED BY <2>1 DEF Clean
<1> QED BY <1>1, <1>2, <1>3 DEF pci_read_config

LEMMA ReadsNone ==
    ASSUME NEW span, NEW pos, NEW slot_pos, NEW r \in ReadHardwired(span, pos, slot_pos)
    PROVE  DOMAIN r.val = span /\ r.ret = 0 /\ Clean(r.val, 0)
<1>1. PICK v : r = [ret |-> 0, val |-> v] /\ (v = Zeros(span) \/ v = [Zeros(span) EXCEPT ![pos] = PDS])
  BY DEF ReadHardwired
<1>2. r.ret = 0 /\ DOMAIN r.val = span /\ \A p \in span : r.val[p] \in {{}, PDS}
  BY <1>1 DEF Zeros
<1> QED BY <1>2 DEF Clean

LEMMA WordAnswers ==
    ASSUME PcieType, NEW pos, NEW r \in pcie_capability_read_word(pos)
    PROVE  /\ DOMAIN r.val = Span2(pos)
           /\ r.ret # 0 \/ ~Implements(pos) => Clean(r.val, r.ret)
           /\ r.ret = 0 /\ ~pcie.flaky /\ Implements(pos) => \A p \in Span2(pos) : r.val[p] = Word(p)
<1>1. CASE pos % 2 # 0
  BY <1>1 DEF pcie_capability_read_word, EINVAL, Zeros, Clean
<1>2. CASE ~(pos % 2 # 0)
  <2>1. PICK impl \in pcie_capability_reg_implemented(pos) :
            r \in IF impl THEN ReadImplemented(Span2(pos)) ELSE ReadHardwired(Span2(pos), pos, SLTSTA)
    BY <1>2 DEF pcie_capability_read_word
  <2>2. CASE impl = TRUE
    <3>1. r \in ReadImplemented(Span2(pos)) /\ Implements(pos)
      BY <2>1, <2>2 DEF Implements
    <3> QED BY <3>1, ReadsRegister
  <2>3. CASE impl # TRUE
    <3>1. \E slot_pos : r \in ReadHardwired(Span2(pos), pos, slot_pos)
      BY <2>1, <2>3
    <3>2. ~pcie.flaky => ~Implements(pos)
      BY <2>3, FlagsAgree
    <3>3. DOMAIN r.val = Span2(pos) /\ r.ret = 0 /\ Clean(r.val, 0)
      BY <3>1, ReadsNone
    <3> QED BY <3>2, <3>3
  <2> QED BY <2>2, <2>3
<1> QED BY <1>1, <1>2

LEMMA DwordAnswers ==
    ASSUME PcieType, NEW pos, NEW r \in pcie_capability_read_dword(pos)
    PROVE  /\ DOMAIN r.val = Span4(pos)
           /\ r.ret # 0 \/ ~Implements(pos) => Clean(r.val, r.ret)
           /\ r.ret = 0 /\ ~pcie.flaky /\ Implements(pos) => \A p \in Span4(pos) : r.val[p] = Word(p)
<1>1. CASE pos % 4 # 0
  BY <1>1 DEF pcie_capability_read_dword, EINVAL, Zeros, Clean
<1>2. CASE ~(pos % 4 # 0)
  <2>1. PICK impl \in pcie_capability_reg_implemented(pos) :
            r \in IF impl THEN ReadImplemented(Span4(pos)) ELSE ReadHardwired(Span4(pos), pos, SLTCTL)
    BY <1>2 DEF pcie_capability_read_dword
  <2>2. CASE impl = TRUE
    <3>1. r \in ReadImplemented(Span4(pos)) /\ Implements(pos)
      BY <2>1, <2>2 DEF Implements
    <3> QED BY <3>1, ReadsRegister
  <2>3. CASE impl # TRUE
    <3>1. \E slot_pos : r \in ReadHardwired(Span4(pos), pos, slot_pos)
      BY <2>1, <2>3
    <3>2. ~pcie.flaky => ~Implements(pos)
      BY <2>3, FlagsAgree
    <3>3. DOMAIN r.val = Span4(pos) /\ r.ret = 0 /\ Clean(r.val, 0)
      BY <3>1, ReadsNone
    <3> QED BY <3>2, <3>3
  <2> QED BY <2>2, <2>3
<1> QED BY <1>1, <1>2

LEMMA PcieStarts ==
    ASSUME NEW type \in {"none", "endpoint", "root", "downstream", "collector"}, NEW version \in {1, 2},
           NEW slot \in BOOLEAN, NEW flaky \in BOOLEAN, NEW targets \in SUBSET Int,
           pcie = PciStart(type, version, slot, flaky, targets)
    PROVE  PcieInv
<1>1. /\ DOMAIN pcie = {"type", "version", "slot", "flaky", "regs", "task", "ret", "got", "asked", "calls", "targets"}
      /\ pcie.type = type /\ pcie.version = version /\ pcie.slot = slot /\ pcie.flaky = flaky /\ pcie.targets = targets
      /\ pcie.regs = [p \in Words |-> {1}] /\ pcie.task = [t \in PciTasks |-> <<>>] /\ pcie.got = <<>>
  BY DEF PciStart
<1>2. PcieType /\ TasksPending /\ AnswerHolds
  BY <1>1 DEF PcieType, TasksPending, AnswerHolds
<1>3. BitsHold
  BY <1>1 DEF BitsHold, AsAsked
<1> QED BY <1>2, <1>3 DEF PcieInv

\* Who has asked stays on record, and so does what was asked for.
LEMMA AskedGrows ==
    ASSUME pcie.asked \subseteq pcie'.asked
    PROVE  \A p, bits : AsAsked(p, bits) => AsAsked(p, bits)'
BY DEF AsAsked

LEMMA PendingStays ==
    ASSUME SameFunction, pcie.asked \subseteq pcie'.asked
    PROVE  \A w : Pending(w) => Pending(w)'
<1>1. \A pos : Implements(pos)' <=> Implements(pos)
  BY SameRegisters
<1>2. \A p, bits : AsAsked(p, bits) => AsAsked(p, bits)'
  BY AskedGrows
<1> QED BY <1>1, <1>2 DEF Pending, SameFunction

\* A read changes nothing but the answer.
LEMMA AnswersOnly ==
    ASSUME PcieInv, NEW pos, NEW r, r.ret # 0 \/ ~Implements(pos) => Clean(r.val, r.ret),
           \/ pcie' = [pcie EXCEPT !.ret = r.ret, !.got = <<pos, r.val>>]
           \/ pcie' = [pcie EXCEPT !.calls = @ + 1, !.ret = r.ret, !.got = <<pos, r.val>>]
    PROVE  PcieInv'
<1>1. /\ DOMAIN pcie' = DOMAIN pcie /\ SameFunction /\ pcie'.regs = pcie.regs /\ pcie'.task = pcie.task
      /\ pcie'.asked = pcie.asked /\ pcie'.targets = pcie.targets /\ pcie'.ret = r.ret /\ pcie'.got = <<pos, r.val>>
  BY DEF PcieInv, PcieType, SameFunction
<1>2. \A q : Implements(q)' <=> Implements(q)
  BY <1>1, SameRegisters
<1>3. PcieType'
  BY <1>1 DEF PcieInv, PcieType, SameFunction
<1>4. TasksPending'
  BY <1>1, PendingStays DEF PcieInv, TasksPending
<1>5. BitsHold'
  BY <1>1, <1>2 DEF PcieInv, BitsHold, AsAsked, SameFunction
<1>6. AnswerHolds'
  <2>1. pcie'.got[1] = pos /\ pcie'.got[2] = r.val
    BY <1>1
  <2>2. pcie'.ret # 0 \/ ~Implements(pos)' => Clean(pcie'.got[2], pcie'.ret)
    BY <1>1, <1>2, <2>1
  <2> QED BY <2>1, <2>2 DEF AnswerHolds, Clean
<1> QED BY <1>3, <1>4, <1>5, <1>6 DEF PcieInv

LEMMA ReadKeeps ==
    ASSUME PcieInv, NEW pos, Reads(pos, pcie_capability_read_word(pos)) \/ Reads(pos, pcie_capability_read_dword(pos))
    PROVE  PcieInv'
<1>1. PICK r : /\ r.ret # 0 \/ ~Implements(pos) => Clean(r.val, r.ret)
               /\ pcie' = [pcie EXCEPT !.ret = r.ret, !.got = <<pos, r.val>>]
  <2>1. CASE Reads(pos, pcie_capability_read_word(pos))
    BY <2>1, WordAnswers DEF Reads, PcieInv
  <2>2. CASE Reads(pos, pcie_capability_read_dword(pos))
    BY <2>2, DwordAnswers DEF Reads, PcieInv
  <2> QED BY <2>1, <2>2
<1> QED BY <1>1, AnswersOnly

\* A task that has read a register will write bits that are the register's, or
\* that it asked for itself.
LEMMA ModifiedAsAsked ==
    ASSUME NEW p, NEW bits, NEW clear, NEW set, NEW span, p \in span, DOMAIN clear = span, DOMAIN set = span,
           AsAsked(p, bits), pcie'.asked = pcie.asked \cup Asks(clear, set)
    PROVE  AsAsked(p, (bits \ clear[p]) \cup set[p])'
<1>1. 1 \in clear[p] => <<p, "clear", 1>> \in Asks(clear, set)
  BY DEF Asks
<1>2. 0 \in set[p] => <<p, "set", 0>> \in Asks(clear, set)
  BY DEF Asks
<1> QED BY <1>1, <1>2 DEF AsAsked

LEMMA ClearAndSetKeeps ==
    ASSUME PcieInv, NEW t \in PciTasks, NEW pos \in Int, NEW answers, NEW span, NEW clear, NEW set,
           span \in {Span2(pos), Span4(pos)}, DOMAIN clear = span, DOMAIN set = span,
           \A r \in answers :
               /\ DOMAIN r.val = span
               /\ r.ret # 0 \/ ~Implements(pos) => Clean(r.val, r.ret)
               /\ r.ret = 0 /\ ~pcie.flaky /\ Implements(pos) => \A p \in span : r.val[p] = Word(p),
           ClearAndSet(t, pos, answers, clear, set)
    PROVE  PcieInv'
<1>1. PICK r \in answers :
          pcie' = IF r.ret = 0
                  THEN [pcie EXCEPT !.calls = @ + 1, !.task[t] = <<[pos |-> pos, val |-> Modified(r.val, clear, set)]>>,
                                    !.got = <<>>, !.asked = @ \cup Asks(clear, set)]
                  ELSE [pcie EXCEPT !.calls = @ + 1, !.ret = r.ret, !.got = <<pos, r.val>>]
  BY DEF ClearAndSet
<1>2. CASE r.ret # 0
  BY <1>1, <1>2, AnswersOnly
<1>3. CASE r.ret = 0
  <2> DEFINE w == [pos |-> pos, val |-> Modified(r.val, clear, set)]
  <2>1. /\ DOMAIN pcie' = DOMAIN pcie /\ SameFunction /\ pcie'.regs = pcie.regs /\ pcie'.task = [pcie.task EXCEPT ![t] = <<w>>]
        /\ pcie'.asked = pcie.asked \cup Asks(clear, set) /\ pcie'.targets = pcie.targets /\ pcie'.got = <<>>
    BY <1>1, <1>3 DEF PcieInv, PcieType, SameFunction
  <2>2. \A q : Implements(q)' <=> Implements(q)
    BY <2>1, SameRegisters
  <2>3. w.pos = pos /\ DOMAIN w.val = span /\ \A p \in span : w.val[p] = (r.val[p] \ clear[p]) \cup set[p]
    BY <1>1 DEF Modified
  <2> HIDE DEF w
  <2>4. Pending(w)'
    <3>1. ASSUME ~pcie.flaky, Implements(pos), NEW p \in span \cap Words PROVE AsAsked(p, w.val[p])'
      <4>1. r.val[p] = pcie.regs[p]
        BY <1>1, <1>3, <3>1 DEF Word
      <4>2. AsAsked(p, r.val[p])
        BY <3>1, <4>1 DEF PcieInv, BitsHold
      <4>3. AsAsked(p, (r.val[p] \ clear[p]) \cup set[p])'
        BY <2>1, <4>2, ModifiedAsAsked
      <4> QED BY <2>3, <4>3 DEF AsAsked
    <3>2. pcie'.flaky = pcie.flaky
      BY <2>1 DEF SameFunction
    <3> QED BY <2>2, <2>3, <3>1, <3>2 DEF Pending
  <2>5. TasksPending'
    BY <2>1, <2>4, PendingStays DEF PcieInv, PcieType, TasksPending
  <2>6. BitsHold'
    <3>1. \A p, bits : AsAsked(p, bits) => AsAsked(p, bits)'
      BY <2>1, AskedGrows
    <3> QED BY <2>1, <2>2, <3>1 DEF PcieInv, BitsHold, SameFunction
  <2>7. PcieType' /\ AnswerHolds'
    BY <2>1 DEF PcieInv, PcieType, AnswerHolds, SameFunction
  <2> QED BY <2>5, <2>6, <2>7 DEF PcieInv
<1> QED BY <1>2, <1>3

\* What a write leaves: only words of its own that the function has change.
LEMMA WriteAnswers ==
    ASSUME PcieType, NEW pos, NEW val, NEW after \in pcie_capability_write_word(pos, val) \cup pcie_capability_write_dword(pos, val)
    PROVE  /\ DOMAIN after = DOMAIN pcie /\ after.type = pcie.type /\ after.version = pcie.version /\ after.slot = pcie.slot
           /\ after.flaky = pcie.flaky /\ after.task = pcie.task /\ after.asked = pcie.asked /\ after.targets = pcie.targets
           /\ DOMAIN after.regs = Words
           /\ \A p \in Words : after.regs[p] = pcie.regs[p] \/ (Implements(pos) /\ p \in DOMAIN val /\ after.regs[p] = val[p])
<1>1. ASSUME NEW ret, after = [pcie EXCEPT !.ret = ret] PROVE TRUE
  OBVIOUS
<1> DEFINE new == [w \in Words |-> IF w \in DOMAIN val THEN val[w] ELSE pcie.regs[w]]
<1>2. \/ \E ret : after = [pcie EXCEPT !.ret = ret]
      \/ Implements(pos) /\ after = [pcie EXCEPT !.ret = 0, !.regs = new]
  BY DEF pcie_capability_write_word, pcie_capability_write_dword, pci_write_config, Implements
<1>3. DOMAIN new = Words /\ \A p \in Words : new[p] = IF p \in DOMAIN val THEN val[p] ELSE pcie.regs[p]
  OBVIOUS
<1> HIDE DEF new
<1> QED BY <1>2, <1>3 DEF PcieType

LEMMA WriteKeeps ==
    ASSUME PcieInv, NEW t \in PciTasks, WriteWord(t) \/ WriteDword(t)
    PROVE  PcieInv'
<1> DEFINE w == pcie.task[t][1]
<1>1. PICK after \in pcie_capability_write_word(w.pos, w.val) \cup pcie_capability_write_dword(w.pos, w.val) :
          pcie' = [after EXCEPT !.task[t] = <<>>, !.got = <<>>]
  BY DEF WriteWord, WriteDword, WriteBack
<1>2. Pending(w)
  BY DEF PcieInv, TasksPending, WriteWord, WriteDword
<1> HIDE DEF w
<1>3. /\ DOMAIN after = DOMAIN pcie /\ after.type = pcie.type /\ after.version = pcie.version /\ after.slot = pcie.slot
      /\ after.flaky = pcie.flaky /\ after.task = pcie.task /\ after.asked = pcie.asked /\ after.targets = pcie.targets
      /\ DOMAIN after.regs = Words
      /\ \A p \in Words : after.regs[p] = pcie.regs[p] \/ (Implements(w.pos) /\ p \in DOMAIN w.val /\ after.regs[p] = w.val[p])
  BY WriteAnswers DEF PcieInv
<1>4. /\ DOMAIN pcie' = DOMAIN pcie /\ SameFunction /\ pcie'.regs = after.regs /\ pcie'.task = [pcie.task EXCEPT ![t] = <<>>]
      /\ pcie'.asked = pcie.asked /\ pcie'.targets = pcie.targets /\ pcie'.got = <<>>
  BY <1>1, <1>3 DEF PcieInv, PcieType, SameFunction
<1>5. \A q : Implements(q)' <=> Implements(q)
  BY <1>4, SameRegisters
<1>6. PcieType' /\ AnswerHolds'
  BY <1>3, <1>4 DEF PcieInv, PcieType, AnswerHolds, SameFunction
<1>7. TasksPending'
  BY <1>4, PendingStays DEF PcieInv, PcieType, TasksPending
<1>8. BitsHold'
  <2> SUFFICES ASSUME ~pcie.flaky, NEW p \in Words
               PROVE  AsAsked(p, after.regs[p]) /\ ((\A q \in {p, p - 2} : ~Implements(q)) => after.regs[p] = {1})
    BY <1>4, <1>5 DEF BitsHold, SameFunction, AsAsked
  <2>1. AsAsked(p, pcie.regs[p]) /\ ((\A q \in {p, p - 2} : ~Implements(q)) => pcie.regs[p] = {1})
    BY DEF PcieInv, BitsHold
  <2>2. CASE after.regs[p] = pcie.regs[p]
    BY <2>1, <2>2
  <2>3. CASE Implements(w.pos) /\ p \in DOMAIN w.val /\ after.regs[p] = w.val[p]
    <3>1. AsAsked(p, w.val[p])
      BY <1>2, <2>3 DEF Pending
    <3>2. w.pos \in {p, p - 2}
      BY <1>2, <2>3 DEF Pending, Span2, Span4
    <3> QED BY <2>3, <3>1, <3>2
  <2> QED BY <1>3, <2>2, <2>3
<1> QED BY <1>6, <1>7, <1>8 DEF PcieInv

LEMMA PcieSteps == PcieInv /\ (PciNext \/ UNCHANGED pcie) => PcieInv'
<1> SUFFICES ASSUME PcieInv, PciNext \/ UNCHANGED pcie PROVE PcieInv'
  OBVIOUS
<1>1. CASE UNCHANGED pcie
  <2>1. SameFunction
    BY <1>1 DEF SameFunction
  <2>2. (\A q : Implements(q)' <=> Implements(q)) /\ (\A w : Pending(w) => Pending(w)')
    BY <1>1, <2>1, SameRegisters, PendingStays
  <2> QED BY <1>1, <2>2 DEF PcieInv, PcieType, TasksPending, BitsHold, AnswerHolds, AsAsked
<1>2. ASSUME NEW pos, Reads(pos, pcie_capability_read_word(pos)) \/ Reads(pos, pcie_capability_read_dword(pos)) PROVE PcieInv'
  BY <1>2, ReadKeeps
<1>3. ASSUME NEW span, NEW c \in OneBit(span) PROVE DOMAIN c[1] = span /\ DOMAIN c[2] = span
  BY <1>3 DEF OneBit, Zeros
<1>4. ASSUME NEW t \in PciTasks, NEW pos \in Int, NEW c \in OneBit(Span2(pos)),
             pcie_capability_clear_and_set_word(t, pos, c[1], c[2])
      PROVE  PcieInv'
  <2>1. PcieType
    BY DEF PcieInv
  <2> QED BY <1>3, <1>4, <2>1, WordAnswers, ClearAndSetKeeps DEF pcie_capability_clear_and_set_word
<1>5. ASSUME NEW t \in PciTasks, NEW pos \in Int, NEW c \in OneBit(Span4(pos)),
             pcie_capability_clear_and_set_dword(t, pos, c[1], c[2])
      PROVE  PcieInv'
  <2>1. PcieType
    BY DEF PcieInv
  <2> QED BY <1>3, <1>5, <2>1, DwordAnswers, ClearAndSetKeeps DEF pcie_capability_clear_and_set_dword
<1>6. pcie.targets \subseteq Int
  BY DEF PcieInv, PcieType
<1> QED BY <1>1, <1>2, <1>4, <1>5, <1>6, WriteKeeps DEF PciNext

LEMMA PcieSafe == PcieInv => PcieBitsAsAsked
BY DEF PcieInv, BitsHold, AnswerHolds, Clean, AsAsked, Implements, PcieBitsAsAsked

-----------------------------------------------------------------------------
(* Link settings.  Each mode has a bit of its own.                         *)
LEMMA OwnBits ==
    /\ \A m, k \in DOMAIN AdvBits : AdvBits[m] = AdvBits[k] => m = k
    /\ \A m, k \in DOMAIN Ctrl1000Bits : Ctrl1000Bits[m] = Ctrl1000Bits[k] => m = k
    /\ SlowModes \cup Pauses = DOMAIN AdvBits /\ SlowModes \cap Pauses = {} /\ FastModes = DOMAIN Ctrl1000Bits
    /\ DOMAIN Modes = SlowModes \cup FastModes /\ SlowModes \cap FastModes = {}
    /\ \A m \in DOMAIN AdvBits : AdvBits[m] \notin {"other", "ADVERTISE_100BASE4"} /\ m \notin PastBit31
    /\ \A m \in DOMAIN Ctrl1000Bits : Ctrl1000Bits[m] # "other" /\ m \notin PastBit31
BY DEF AdvBits, Ctrl1000Bits, SlowModes, FastModes, Modes, Pauses, PastBit31

LEMMA MiiStarts == ASSUME NEW gmii \in BOOLEAN, mii = MiiStart(gmii) PROVE MiiInv
<1>1. /\ DOMAIN mii = {"supports_gmii", "advertise", "ctrl1000", "bmcr", "lpa", "stat1000", "complete", "full_duplex",
                       "force_media", "advertising", "read", "ret", "asked", "got", "quiet"}
      /\ mii.supports_gmii = gmii /\ mii.advertise = ToBits(AdvBits, SlowModes) \cup Other \cup {"ADVERTISE_100BASE4"}
      /\ mii.advertising = mii.advertise /\ mii.ctrl1000 = ToBits(Ctrl1000Bits, FastModes) \cup Other
      /\ mii.bmcr = {"BMCR_ANENABLE"} \cup Other /\ mii.complete = FALSE
      /\ mii.read = <<>> /\ mii.asked = <<>> /\ mii.got = <<>> /\ mii.quiet = FALSE
  BY DEF MiiStart
<1>2. MiiType
  BY <1>1 DEF MiiType
<1> QED BY <1>1, <1>2 DEF MiiInv, ReadIsCurrent, AnswerIsCurrent, SettingsHold

\* What the answers depend on, and what the settings are held by.
SameControl ==
    /\ mii'.supports_gmii = mii.supports_gmii /\ mii'.bmcr = mii.bmcr
    /\ mii'.advertise = mii.advertise /\ mii'.ctrl1000 = mii.ctrl1000
SamePhy == SameControl /\ mii'.lpa = mii.lpa /\ mii'.stat1000 = mii.stat1000 /\ mii'.complete = mii.complete

LEMMA SameAnswers == SamePhy => Control' = Control /\ \A c : AnswerOf(c)' = AnswerOf(c) /\ ModeOf(c)' = ModeOf(c)
<1> SUFFICES ASSUME SamePhy PROVE Control' = Control /\ \A c : AnswerOf(c)' = AnswerOf(c) /\ ModeOf(c)' = ModeOf(c)
  OBVIOUS
<1>1. Control' = Control
  BY DEF Control, SamePhy, SameControl
<1>2. Supported' = Supported /\ \A c : Advertising(c)' = Advertising(c) /\ LpAdvertising(c)' = LpAdvertising(c)
  BY DEF Supported, Advertising, LpAdvertising, SamePhy, SameControl
<1>3. \A c : ModeOf(c)' = ModeOf(c)
  BY <1>2 DEF ModeOf
<1> QED BY <1>1, <1>2, <1>3 DEF AnswerOf

LEMMA SameSettings == SameControl /\ mii'.force_media = mii.force_media => \A cmd : Holds(cmd) => Holds(cmd)'
BY DEF SameControl, Holds, HoldsNegotiated, HoldsForced

\* Negotiated settings: the bits of the modes are those asked for, whatever they
\* were before.
LEMMA Negotiates ==
    ASSUME MiiType, NEW cmd, cmd.autoneg = "ENABLE", NEW m2, m2 = SetAutoneg(cmd)
    PROVE  /\ DOMAIN m2 = DOMAIN mii /\ m2.supports_gmii = mii.supports_gmii /\ m2.read = mii.read
           /\ "BMCR_ANENABLE" \in m2.bmcr /\ m2.force_media = FALSE /\ m2.complete = FALSE
           /\ Other \subseteq m2.bmcr \cap m2.advertise \cap m2.ctrl1000 /\ m2.advertising = m2.advertise
           /\ \A m \in SlowModes \cup Pauses : m \in cmd.advertising => AdvBits[m] \in m2.advertise
           /\ \A m \in SlowModes : AdvBits[m] \in m2.advertise => m \in cmd.advertising
           /\ m2.supports_gmii => \A m \in FastModes : Ctrl1000Bits[m] \in m2.ctrl1000 <=> m \in cmd.advertising
<1> DEFINE advertising == ethtool_convert_link_mode_to_legacy_u32(cmd.advertising)
           tmp == (mii.advertise \ (ToBits(AdvBits, SlowModes) \cup {"ADVERTISE_100BASE4"})) \cup ethtool_adv_to_mii_adv_t(advertising)
           tmp2 == (mii.ctrl1000 \ ToBits(Ctrl1000Bits, FastModes)) \cup ethtool_adv_to_mii_ctrl1000_t(advertising)
<1>1. \A m \in DOMAIN AdvBits : AdvBits[m] \in ethtool_adv_to_mii_adv_t(advertising) <=> m \in cmd.advertising
  BY OwnBits DEF ethtool_adv_to_mii_adv_t, ToBits, ethtool_convert_link_mode_to_legacy_u32
<1>2. \A m \in SlowModes : AdvBits[m] \in ToBits(AdvBits, SlowModes)
  BY OwnBits DEF ToBits
<1>3. "other" \notin ToBits(AdvBits, SlowModes)
  BY OwnBits DEF ToBits
<1>4. \A m \in FastModes : Ctrl1000Bits[m] \in ethtool_adv_to_mii_ctrl1000_t(advertising) <=> m \in cmd.advertising
  BY OwnBits DEF ethtool_adv_to_mii_ctrl1000_t, ToBits, ethtool_convert_link_mode_to_legacy_u32
<1>5. \A m \in FastModes : Ctrl1000Bits[m] \in ToBits(Ctrl1000Bits, FastModes)
  BY OwnBits DEF ToBits
<1>6. "other" \notin ToBits(Ctrl1000Bits, FastModes)
  BY OwnBits DEF ToBits
<1>7. m2 = [mii EXCEPT !.advertise = tmp, !.advertising = IF mii.advertise # tmp THEN tmp ELSE @,
                       !.ctrl1000 = IF mii.supports_gmii THEN tmp2 ELSE @,
                       !.bmcr = @ \cup {"BMCR_ANENABLE"}, !.complete = FALSE, !.force_media = FALSE]
  BY DEF SetAutoneg
<1>8. /\ \A m \in SlowModes \cup Pauses : m \in cmd.advertising => AdvBits[m] \in tmp
      /\ \A m \in SlowModes : AdvBits[m] \in tmp => m \in cmd.advertising
      /\ "other" \in tmp
  BY <1>1, <1>2, <1>3, OwnBits DEF MiiType, Other
<1>9. (\A m \in FastModes : Ctrl1000Bits[m] \in tmp2 <=> m \in cmd.advertising) /\ "other" \in tmp2
  BY <1>4, <1>5, <1>6 DEF MiiType, Other
<1> HIDE DEF tmp, tmp2
<1>10. /\ DOMAIN m2 = DOMAIN mii /\ m2.supports_gmii = mii.supports_gmii /\ m2.read = mii.read
       /\ m2.bmcr = mii.bmcr \cup {"BMCR_ANENABLE"} /\ m2.force_media = FALSE /\ m2.complete = FALSE
       /\ m2.advertise = tmp /\ m2.advertising = tmp /\ m2.ctrl1000 = IF mii.supports_gmii THEN tmp2 ELSE mii.ctrl1000
  BY <1>7 DEF MiiType
<1> QED BY <1>8, <1>9, <1>10 DEF MiiType, Other

KnownMode(cmd) == cmd.speed \in {10, 100, 1000} /\ cmd.duplex \in {"HALF", "FULL"}
LEMMA Forces ==
    ASSUME MiiType, NEW cmd, KnownMode(cmd), NEW m2, m2 = SetForced(cmd)
    PROVE  /\ DOMAIN m2 = DOMAIN mii /\ m2.supports_gmii = mii.supports_gmii /\ m2.read = mii.read
           /\ "BMCR_ANENABLE" \notin m2.bmcr /\ m2.force_media = TRUE /\ m2.complete = FALSE
           /\ Other \subseteq m2.bmcr \cap m2.advertise \cap m2.ctrl1000 /\ m2.advertising = m2.advertise
           /\ ModeForced(m2.bmcr, cmd)
<1> DEFINE bmcr == (mii.bmcr \ {"BMCR_ANENABLE", "BMCR_SPEED100", "BMCR_SPEED1000", "BMCR_FULLDPLX"})
                     \cup SpeedBits(cmd) \cup DuplexBits(cmd)
<1>1. /\ "BMCR_ANENABLE" \notin bmcr /\ ("other" \in mii.bmcr => "other" \in bmcr)
      /\ "BMCR_SPEED1000" \in bmcr <=> cmd.speed = 1000
      /\ "BMCR_SPEED100" \in bmcr <=> cmd.speed = 100
      /\ "BMCR_FULLDPLX" \in bmcr <=> cmd.duplex = "FULL"
  BY DEF SpeedBits, DuplexBits, KnownMode
<1>2. m2 = [mii EXCEPT !.bmcr = bmcr, !.full_duplex = (cmd.duplex = "FULL"), !.force_media = TRUE, !.complete = FALSE]
  BY DEF SetForced
<1> HIDE DEF bmcr
<1>3. ModeForced(bmcr, cmd)
  BY <1>1 DEF ForcedMode, ModeForced, KnownMode
<1> QED BY <1>1, <1>2, <1>3 DEF MiiType, Other

LEMMA SettingTaken == ASSUME MiiInv, NEW cmd, mii_ethtool_set_link_ksettings(cmd) PROVE MiiInv'
<1> USE DEF MiiInv
<1>1. mii.read = <<>>
  BY DEF mii_ethtool_set_link_ksettings
<1>2. CASE ~Valid(cmd)
  <2>1. mii' = [mii EXCEPT !.ret = "EINVAL"]
    BY <1>2 DEF mii_ethtool_set_link_ksettings
  <2>2. /\ DOMAIN mii' = DOMAIN mii /\ SamePhy /\ mii'.advertising = mii.advertising /\ mii'.force_media = mii.force_media
        /\ mii'.full_duplex = mii.full_duplex /\ mii'.read = mii.read /\ mii'.asked = mii.asked /\ mii'.got = mii.got
        /\ mii'.quiet = mii.quiet
    BY <2>1 DEF MiiType, SamePhy, SameControl
  <2>3. MiiType'
    BY <2>2 DEF MiiType, SamePhy, SameControl
  <2>4. SettingsHold'
    BY <2>2, SameSettings DEF SettingsHold, SamePhy
  <2>5. ReadIsCurrent' /\ AnswerIsCurrent'
    BY <1>1, <2>2, SameAnswers DEF ReadIsCurrent, AnswerIsCurrent
  <2> QED BY <2>3, <2>4, <2>5
<1>3. CASE Valid(cmd)
  <2>1. cmd.autoneg \in {"ENABLE", "DISABLE"} /\ KnownMode(cmd)
    BY <1>3 DEF Valid, KnownMode
  <2>2. PICK m2 : /\ m2 = IF cmd.autoneg = "ENABLE" THEN SetAutoneg(cmd) ELSE SetForced(cmd)
                  /\ mii' = [m2 EXCEPT !.ret = "ok", !.asked = <<cmd>>, !.got = <<>>, !.quiet = FALSE]
    BY <1>3 DEF mii_ethtool_set_link_ksettings
  <2>3. /\ DOMAIN m2 = DOMAIN mii /\ m2.supports_gmii = mii.supports_gmii /\ m2.read = mii.read /\ m2.complete = FALSE
        /\ Other \subseteq m2.bmcr \cap m2.advertise \cap m2.ctrl1000 /\ m2.advertising = m2.advertise
    <3>1. CASE cmd.autoneg = "ENABLE"
      BY <2>2, <3>1, Negotiates
    <3>2. CASE cmd.autoneg # "ENABLE"
      <4>1. m2 = SetForced(cmd)
        BY <2>2, <3>2
      <4> QED BY <2>1, <4>1, Forces
    <3> QED BY <3>1, <3>2
  <2>4. /\ DOMAIN mii' = DOMAIN mii /\ mii'.supports_gmii = m2.supports_gmii /\ mii'.bmcr = m2.bmcr /\ mii'.advertise = m2.advertise
        /\ mii'.ctrl1000 = m2.ctrl1000 /\ mii'.advertising = m2.advertising /\ mii'.force_media = m2.force_media
        /\ mii'.complete = FALSE /\ mii'.read = <<>> /\ mii'.asked = <<cmd>> /\ mii'.quiet = FALSE
    BY <1>1, <2>2, <2>3 DEF MiiType
  <2>5. MiiType'
    BY <2>3, <2>4 DEF MiiType
  <2>6. ReadIsCurrent' /\ AnswerIsCurrent'
    BY <2>4 DEF ReadIsCurrent, AnswerIsCurrent
  <2>7. Holds(cmd)'
    <3>1. CASE cmd.autoneg = "ENABLE"
      <4>1. m2 = SetAutoneg(cmd)
        BY <2>2, <3>1
      <4>2. /\ "BMCR_ANENABLE" \in m2.bmcr /\ m2.force_media = FALSE
            /\ \A m \in SlowModes \cup Pauses : m \in cmd.advertising => AdvBits[m] \in m2.advertise
            /\ \A m \in SlowModes : AdvBits[m] \in m2.advertise => m \in cmd.advertising
            /\ m2.supports_gmii => \A m \in FastModes : Ctrl1000Bits[m] \in m2.ctrl1000 <=> m \in cmd.advertising
        BY <3>1, <4>1, Negotiates
      <4>3. HoldsNegotiated(cmd)'
        BY <2>4, <4>2 DEF HoldsNegotiated
      <4> QED BY <3>1, <4>3 DEF Holds
    <3>2. CASE cmd.autoneg = "DISABLE"
      <4>1. m2 = SetForced(cmd)
        BY <2>2, <3>2
      <4>2. "BMCR_ANENABLE" \notin m2.bmcr /\ m2.force_media = TRUE /\ ModeForced(m2.bmcr, cmd)
        BY <2>1, <4>1, Forces
      <4>3. HoldsForced(cmd)'
        BY <2>4, <4>2 DEF HoldsForced
      <4> QED BY <3>2, <4>3 DEF Holds
    <3> QED BY <2>1, <3>1, <3>2
  <2>8. SettingsHold'
    BY <2>4, <2>7 DEF SettingsHold
  <2> QED BY <2>5, <2>6, <2>8
<1> QED BY <1>2, <1>3

LEMMA ControlRead == ASSUME MiiInv, GetControl PROVE MiiInv'
<1> USE DEF MiiInv
<1>1. mii' = [mii EXCEPT !.read = <<Control>>, !.quiet = TRUE] /\ mii.read = <<>>
  BY DEF GetControl, Control
<1>2. /\ DOMAIN mii' = DOMAIN mii /\ SamePhy /\ mii'.advertising = mii.advertising /\ mii'.force_media = mii.force_media
      /\ mii'.read = <<Control>> /\ mii'.asked = mii.asked /\ mii'.quiet = TRUE
  BY <1>1 DEF MiiType, SamePhy, SameControl
<1>3. MiiType'
  BY <1>2 DEF MiiType, SamePhy, SameControl
<1>4. SettingsHold'
  BY <1>2, SameSettings DEF SettingsHold, SamePhy
<1>5. ReadIsCurrent' /\ AnswerIsCurrent'
  BY <1>2, SameAnswers DEF ReadIsCurrent, AnswerIsCurrent
<1> QED BY <1>3, <1>4, <1>5

LEMMA SettingsTold == ASSUME MiiInv, mii_ethtool_get_link_ksettings PROVE MiiInv'
<1> USE DEF MiiInv
<1> DEFINE r == mii.read[1]
<1>1. mii' = [mii EXCEPT !.read = <<>>, !.full_duplex = (ModeOf(r)[2] = "FULL"), !.got = <<AnswerOf(r)>>] /\ mii.read # <<>>
  BY DEF mii_ethtool_get_link_ksettings, ModeOf, AnswerOf
<1>2. mii.quiet => r = Control
  BY <1>1 DEF ReadIsCurrent
<1> HIDE DEF r
<1>3. /\ DOMAIN mii' = DOMAIN mii /\ SamePhy /\ mii'.advertising = mii.advertising /\ mii'.force_media = mii.force_media
      /\ mii'.read = <<>> /\ mii'.asked = mii.asked /\ mii'.quiet = mii.quiet
      /\ mii'.full_duplex = (ModeOf(r)[2] = "FULL") /\ mii'.got = <<AnswerOf(r)>>
  BY <1>1 DEF MiiType, SamePhy, SameControl
<1>4. MiiType'
  BY <1>3 DEF MiiType, SamePhy, SameControl
<1>5. SettingsHold'
  BY <1>3, SameSettings DEF SettingsHold, SamePhy
<1>6. ReadIsCurrent'
  BY <1>3 DEF ReadIsCurrent
<1>7. AnswerIsCurrent'
  BY <1>2, <1>3, SameAnswers DEF AnswerIsCurrent
<1> QED BY <1>4, <1>5, <1>6, <1>7

LEMMA PhyChanges == ASSUME MiiInv, Change PROVE MiiInv'
<1> USE DEF MiiInv
<1>1. /\ DOMAIN mii' = DOMAIN mii /\ SameControl /\ mii'.advertising = mii.advertising /\ mii'.force_media = mii.force_media
      /\ mii'.asked = mii.asked /\ mii'.quiet = FALSE /\ mii'.complete \in BOOLEAN
  BY DEF Change, MiiType, SameControl
<1>2. MiiType'
  BY <1>1 DEF MiiType, SameControl
<1>3. SettingsHold'
  BY <1>1, SameSettings DEF SettingsHold
<1>4. ReadIsCurrent' /\ AnswerIsCurrent'
  BY <1>1 DEF ReadIsCurrent, AnswerIsCurrent
<1> QED BY <1>2, <1>3, <1>4

LEMMA MiiSteps == MiiInv /\ (MiiNext \/ UNCHANGED mii) => MiiInv'
<1> SUFFICES ASSUME MiiInv, MiiNext \/ UNCHANGED mii PROVE MiiInv'
  OBVIOUS
<1>1. CASE UNCHANGED mii
  <2>1. SamePhy /\ mii'.force_media = mii.force_media
    BY <1>1 DEF SamePhy, SameControl
  <2>2. SettingsHold'
    BY <1>1, <2>1, SameSettings DEF MiiInv, SettingsHold, SamePhy
  <2>3. ReadIsCurrent' /\ AnswerIsCurrent'
    BY <1>1, <2>1, SameAnswers DEF MiiInv, ReadIsCurrent, AnswerIsCurrent
  <2>4. MiiType'
    BY <1>1 DEF MiiInv, MiiType
  <2> QED BY <2>2, <2>3, <2>4 DEF MiiInv
<1> QED BY <1>1, SettingTaken, ControlRead, SettingsTold, PhyChanges DEF MiiNext

\* The fastest of the modes in common is the one that Best chooses.
LEMMA BestIsCommon ==
    ASSUME NEW nego, nego \cap DOMAIN Modes # {}
    PROVE  /\ \E m \in nego \cap DOMAIN Modes : Best(nego) = Modes[m]
           /\ \A m \in nego \cap DOMAIN Modes : ~Faster(Modes[m], Best(nego))
<1>1. DOMAIN Modes = {"ADVERTISED_10baseT_Half", "ADVERTISED_10baseT_Full", "ADVERTISED_100baseT_Half",
                      "ADVERTISED_100baseT_Full", "ADVERTISED_1000baseT_Half", "ADVERTISED_1000baseT_Full"}
      /\ FastModes = {"ADVERTISED_1000baseT_Half", "ADVERTISED_1000baseT_Full"}
  BY DEF Modes, FastModes, Ctrl1000Bits
<1>2. /\ Modes["ADVERTISED_10baseT_Half"] = <<10, "HALF">> /\ Modes["ADVERTISED_10baseT_Full"] = <<10, "FULL">>
      /\ Modes["ADVERTISED_100baseT_Half"] = <<100, "HALF">> /\ Modes["ADVERTISED_100baseT_Full"] = <<100, "FULL">>
      /\ Modes["ADVERTISED_1000baseT_Half"] = <<1000, "HALF">> /\ Modes["ADVERTISED_1000baseT_Full"] = <<1000, "FULL">>
  BY DEF Modes
<1>3. CASE nego \cap FastModes # {}
  <2>1. Best(nego) = <<1000, IF "ADVERTISED_1000baseT_Full" \in nego THEN "FULL" ELSE "HALF">>
    BY <1>3 DEF Best
  <2> QED BY <1>1, <1>2, <1>3, <2>1 DEF Faster
<1>4. CASE nego \cap FastModes = {} /\ nego \cap {"ADVERTISED_100baseT_Full", "ADVERTISED_100baseT_Half"} # {}
  <2>1. Best(nego) = <<100, IF "ADVERTISED_100baseT_Full" \in nego THEN "FULL" ELSE "HALF">>
    BY <1>4 DEF Best
  <2> QED BY <1>1, <1>2, <1>4, <2>1 DEF Faster
<1>5. CASE nego \cap FastModes = {} /\ nego \cap {"ADVERTISED_100baseT_Full", "ADVERTISED_100baseT_Half"} = {}
  <2>1. Best(nego) = <<10, IF "ADVERTISED_10baseT_Full" \in nego THEN "FULL" ELSE "HALF">>
    BY <1>5 DEF Best
  <2> QED BY <1>1, <1>2, <1>5, <2>1 DEF Faster
<1> QED BY <1>3, <1>4, <1>5

\* What is answered of the modes that the registers hold.
LEMMA AdvertisesAsAsked ==
    ASSUME MiiType, NEW cmd, HoldsNegotiated(cmd)
    PROVE  /\ Advertising(Control) \cap DOMAIN Modes = cmd.advertising \cap Supported \cap DOMAIN Modes
           /\ cmd.advertising \cap Pauses \subseteq Advertising(Control)
<1> DEFINE slow == {m \in DOMAIN AdvBits : AdvBits[m] \in mii.advertise}
           fast == {m \in FastModes : Ctrl1000Bits[m] \in mii.ctrl1000}
           others == {"ADVERTISED_TP", "ADVERTISED_MII", "ADVERTISED_Autoneg"}
<1>1. "BMCR_ANENABLE" \in Control.bmcr /\ (mii.supports_gmii => Control.ctrl1000 = mii.ctrl1000)
  BY DEF Control, HoldsNegotiated
<1>2. mii_adv_to_ethtool_adv_t(mii.advertise) = slow
  BY DEF mii_adv_to_ethtool_adv_t, ToNames
<1>3. mii_ctrl1000_to_ethtool_adv_t(mii.ctrl1000) = fast
  BY OwnBits DEF mii_ctrl1000_to_ethtool_adv_t, ToNames
<1>4. slow \subseteq mii_get_an(mii.advertise) /\ mii_get_an(mii.advertise) \subseteq slow \cup others
  BY <1>2 DEF mii_get_an, mii_lpa_to_ethtool_lpa_t
<1> HIDE DEF slow, fast
<1>5. /\ slow \cup (IF mii.supports_gmii THEN fast ELSE {}) \subseteq Advertising(Control)
      /\ Advertising(Control) \subseteq slow \cup (IF mii.supports_gmii THEN fast ELSE {}) \cup others
  BY <1>1, <1>3, <1>4 DEF Advertising
<1>6. Supported = SlowModes \cup others \cup (IF mii.supports_gmii THEN FastModes ELSE {})
  BY DEF Supported
<1>7. others \cap DOMAIN Modes = {}
  BY DEF Modes
<1>8. \A m \in SlowModes : m \in slow <=> m \in cmd.advertising
  BY OwnBits DEF HoldsNegotiated, slow
<1>9. slow \cap FastModes = {} /\ fast \subseteq FastModes
  <2>1. \A m \in DOMAIN AdvBits : m \notin FastModes
    BY DEF AdvBits, FastModes, Ctrl1000Bits
  <2> QED BY <2>1 DEF slow, fast
<1>10. mii.supports_gmii => \A m \in FastModes : m \in fast <=> m \in cmd.advertising
  BY DEF HoldsNegotiated, fast
<1>11. cmd.advertising \cap Pauses \subseteq slow
  BY OwnBits DEF HoldsNegotiated, slow
<1> HIDE DEF others
<1>12. DOMAIN Modes = SlowModes \cup FastModes /\ SlowModes \cap FastModes = {}
  BY OwnBits
<1>13. Advertising(Control) \cap DOMAIN Modes = (slow \cup (IF mii.supports_gmii THEN fast ELSE {})) \cap DOMAIN Modes
  BY <1>5, <1>7
<1>14. cmd.advertising \cap Supported \cap DOMAIN Modes
          = cmd.advertising \cap (SlowModes \cup (IF mii.supports_gmii THEN FastModes ELSE {}))
  BY <1>6, <1>7, <1>12
<1>15. (slow \cup (IF mii.supports_gmii THEN fast ELSE {})) \cap DOMAIN Modes
          = cmd.advertising \cap (SlowModes \cup (IF mii.supports_gmii THEN FastModes ELSE {}))
  BY <1>8, <1>9, <1>10, <1>12
<1> QED BY <1>5, <1>11, <1>13, <1>14, <1>15

LEMMA MiiSafe == MiiInv => MiiSettingsComeBack
<1> SUFFICES ASSUME MiiInv PROVE MiiSettingsComeBack
  OBVIOUS
<1> USE DEF MiiInv
<1>1. Other \subseteq mii.bmcr \cap mii.advertise \cap mii.ctrl1000 /\ mii.advertising = mii.advertise
  BY DEF MiiType
<1>2. ASSUME mii.read = <<>>, mii.quiet, mii.got # <<>>, mii.asked # <<>>, NEW got, got = mii.got[1], NEW asked, asked = mii.asked[1]
      PROVE  /\ got.autoneg = asked.autoneg /\ mii.force_media = (asked.autoneg = "DISABLE")
             /\ mii.full_duplex = (got.mode[2] = "FULL")
             /\ asked.autoneg = "DISABLE" => got.mode = <<asked.speed, asked.duplex>> /\ got.lp_advertising = {}
             /\ asked.autoneg = "ENABLE" =>
                 /\ got.advertising \cap DOMAIN Modes = asked.advertising \cap got.supported \cap DOMAIN Modes
                 /\ asked.advertising \cap Pauses \subseteq got.advertising
                 /\ LET common == {Modes[m] : m \in got.advertising \cap got.lp_advertising \cap DOMAIN Modes}
                    IN  common # {} => got.mode \in common /\ \A m \in common : ~Faster(m, got.mode)
                 /\ mii.complete => ToNames(AdvBits, mii.lpa) \subseteq got.lp_advertising
  <2>1. Holds(asked)
    BY <1>2 DEF SettingsHold
  <2>2. got = AnswerOf(Control) /\ mii.full_duplex = (ModeOf(Control)[2] = "FULL")
    BY <1>2 DEF AnswerIsCurrent
  <2>3. Control.bmcr = mii.bmcr /\ Control.complete = mii.complete
    BY DEF Control
  <2>4. /\ got.autoneg = IF "BMCR_ANENABLE" \in mii.bmcr THEN "ENABLE" ELSE "DISABLE"
        /\ got.mode = ModeOf(Control) /\ got.supported = Supported
        /\ got.advertising = Advertising(Control) /\ got.lp_advertising = LpAdvertising(Control)
    BY <2>2, <2>3 DEF AnswerOf
  <2>5. CASE asked.autoneg = "DISABLE"
    <3>1. HoldsForced(asked)
      BY <2>1, <2>5 DEF Holds
    <3>2. LpAdvertising(Control) = {} /\ ModeOf(Control) = ForcedMode(mii.bmcr)
      BY <2>3, <3>1 DEF HoldsForced, LpAdvertising, ModeOf
    <3>3. ForcedMode(mii.bmcr) = <<asked.speed, asked.duplex>>
      BY <3>1 DEF HoldsForced, ModeForced
    <3>4. got.autoneg = "DISABLE" /\ mii.force_media = TRUE
      BY <2>4, <3>1 DEF HoldsForced
    <3> QED BY <2>2, <2>4, <2>5, <3>2, <3>3, <3>4
  <2>6. CASE asked.autoneg = "ENABLE"
    <3>1. HoldsNegotiated(asked)
      BY <2>1, <2>6 DEF Holds
    <3>2. got.autoneg = "ENABLE" /\ mii.force_media = FALSE /\ "BMCR_ANENABLE" \in mii.bmcr
      BY <2>4, <3>1 DEF HoldsNegotiated
    <3>3. /\ got.advertising \cap DOMAIN Modes = asked.advertising \cap got.supported \cap DOMAIN Modes
          /\ asked.advertising \cap Pauses \subseteq got.advertising
      BY <2>4, <3>1, AdvertisesAsAsked
    <3>4. got.mode = Best(got.advertising \cap got.lp_advertising)
      BY <2>3, <2>4, <3>2 DEF ModeOf
    <3>5. ASSUME NEW common, common = {Modes[m] : m \in got.advertising \cap got.lp_advertising \cap DOMAIN Modes}, common # {}
          PROVE  got.mode \in common /\ \A m \in common : ~Faster(m, got.mode)
      <4>1. (got.advertising \cap got.lp_advertising) \cap DOMAIN Modes # {}
        BY <3>5
      <4>2. /\ \E m \in (got.advertising \cap got.lp_advertising) \cap DOMAIN Modes : got.mode = Modes[m]
            /\ \A m \in (got.advertising \cap got.lp_advertising) \cap DOMAIN Modes : ~Faster(Modes[m], got.mode)
        BY <3>4, <4>1, BestIsCommon
      <4> QED BY <3>5, <4>2
    <3>6. mii.complete => ToNames(AdvBits, mii.lpa) \subseteq got.lp_advertising
      BY <2>3, <2>4, <3>2 DEF LpAdvertising, mii_get_an, mii_lpa_to_ethtool_lpa_t, mii_adv_to_ethtool_adv_t
    <3>7. mii.full_duplex = (got.mode[2] = "FULL")
      BY <2>2, <2>4
    <3>8. mii.force_media = (asked.autoneg = "DISABLE")
      BY <2>6, <3>2
    <3> QED BY <2>6, <3>2, <3>3, <3>5, <3>6, <3>7, <3>8
  <2> QED BY <2>1, <2>5, <2>6 DEF Holds
<1> QED BY <1>1, <1>2 DEF MiiSettingsComeBack

-----------------------------------------------------------------------------
\* Induction over a set of numbers.
LEMMA Inductive ==
    ASSUME NEW T, 0 \in T, \A k \in Nat : k \in T => k + 1 \in T
    PROVE  Nat \subseteq T
<1> SUFFICES ASSUME ~(Nat \subseteq T) PROVE FALSE
  OBVIOUS
<1> DEFINE S == Nat \ T
<1>1. S \subseteq Nat /\ S # {}
  OBVIOUS
<1>2. PICK m \in S : \A j \in S : <<j, m>> \notin OpToRel(<, Nat)
  <2> HIDE DEF S
  <2> QED BY <1>1, NatLessThanWellFounded, WFMin
<1>3. \A j \in S : ~(j < m)
  BY <1>1, <1>2 DEF OpToRel
<1>4. m \in Nat /\ m # 0 /\ m - 1 \in Nat /\ m - 1 < m
  BY <1>1
<1>5. m - 1 \in T
  BY <1>3, <1>4
<1>6. m - 1 + 1 \in T
  BY <1>4, <1>5
<1> QED BY <1>4, <1>6

\* A recursive function over 0 .. n is given by a first value and a step.
Follows(f, n, first, step) == f[0] = first /\ \A k \in 0 .. n - 1 : f[k + 1] = step[k][f[k]]
LEMMA Recursion ==
    ASSUME NEW V, NEW first \in V, NEW n \in Nat, NEW step \in [0 .. n - 1 -> [V -> V]]
    PROVE  \E f \in [0 .. n -> V] : Follows(f, n, first, step)
<1> DEFINE Good(m, g) == g[0] = first /\ \A k \in 0 .. m - 1 : g[k + 1] = step[k][g[k]]
           T == {m \in Nat : m <= n => \E g \in [0 .. m -> V] : Good(m, g)}
<1>1. 0 \in T
  <2> DEFINE g == [k \in 0 .. 0 |-> first]
  <2>1. g \in [0 .. 0 -> V] /\ Good(0, g)
    OBVIOUS
  <2> QED BY <2>1
<1>2. ASSUME NEW m \in Nat, m \in T PROVE m + 1 \in T
  <2> SUFFICES ASSUME m + 1 <= n PROVE \E g \in [0 .. m + 1 -> V] : Good(m + 1, g)
    OBVIOUS
  <2>1. PICK g \in [0 .. m -> V] : Good(m, g)
    BY <1>2
  <2> DEFINE h == [k \in 0 .. m + 1 |-> IF k = m + 1 THEN step[m][g[m]] ELSE g[k]]
  <2>2. step[m][g[m]] \in V
    BY <2>1
  <2>3. h \in [0 .. m + 1 -> V]
    BY <2>1, <2>2
  <2>4. h[0] = first
    BY <2>1
  <2>5. ASSUME NEW k \in 0 .. m PROVE h[k + 1] = step[k][h[k]]
    <3>1. h[k] = g[k]
      OBVIOUS
    <3>2. CASE k = m
      <4>1. h[m + 1] = step[m][g[m]]
        OBVIOUS
      <4> HIDE DEF h
      <4> QED BY <3>1, <3>2, <4>1
    <3>3. CASE k \in 0 .. m - 1
      <4>1. h[k + 1] = g[k + 1]
        BY <3>3
      <4> QED BY <2>1, <3>1, <3>3, <4>1
    <3> QED BY <3>2, <3>3
  <2> HIDE DEF h
  <2>6. Good(m + 1, h)
    BY <2>4, <2>5
  <2> QED BY <2>3, <2>6
<1>3. Nat \subseteq T
  <2> HIDE DEF T
  <2> QED BY <1>1, <1>2, Inductive
<1>4. n \in T
  BY <1>3
<1> QED BY <1>4 DEF Follows

\* The recursive function that sums up.
Adds(s, f) == f = [i \in 0 .. Len(s) |-> IF i = 0 THEN 0 ELSE f[i - 1] + s[i]]
LEMMA Sums ==
    ASSUME NEW s \in Seq(Nat)
    PROVE  \E f \in [0 .. Len(s) -> Nat] :
               f[0] = 0 /\ (\A i \in 1 .. Len(s) : f[i] = f[i - 1] + s[i]) /\ Total(s) = f[Len(s)]
<1> DEFINE n == Len(s)
           step == [k \in 0 .. n - 1 |-> [v \in Nat |-> v + s[k + 1]]]
<1>1. /\ n \in Nat /\ 0 \in Nat
      /\ \A k \in 0 .. n - 1, v \in Nat : step[k][v] = v + s[k + 1]
      /\ step \in [0 .. n - 1 -> [Nat -> Nat]]
  OBVIOUS
<1> HIDE DEF step, n
<1>2. PICK f \in [0 .. n -> Nat] : Follows(f, n, 0, step)
  BY <1>1, Recursion, Zenon
<1>0. n = Len(s)
  BY DEF n
<1>3. ASSUME NEW i \in 1 .. n PROVE f[i] = f[i - 1] + s[i]
  <2>1. i - 1 \in 0 .. n - 1 /\ i - 1 + 1 = i /\ f[i - 1] \in Nat
    BY <1>1, <1>2
  <2>2. f[i - 1 + 1] = step[i - 1][f[i - 1]]
    BY <1>2, <2>1 DEF Follows
  <2>3. step[i - 1][f[i - 1]] = f[i - 1] + s[i - 1 + 1]
    BY <1>1, <2>1
  <2> QED BY <2>1, <2>2, <2>3
<1>4. Adds(s, f)
  BY <1>0, <1>2, <1>3 DEF Adds, Follows
<1> DEFINE sum == CHOOSE g : Adds(s, g)
<1>5. Adds(s, sum)
  BY <1>4
<1>6. Total(s) = sum[Len(s)]
  BY DEF Total, Adds
<1> HIDE DEF sum
<1> DEFINE T == {i \in Nat : i <= Len(s) => sum[i] \in Nat}
<1>7. DOMAIN sum = 0 .. Len(s) /\ sum = [i \in DOMAIN sum |-> sum[i]]
  BY <1>5 DEF Adds
<1>8. sum[0] = 0 /\ \A i \in 1 .. Len(s) : sum[i] = sum[i - 1] + s[i]
  <2>1. \A i \in 0 .. Len(s) : sum[i] = IF i = 0 THEN 0 ELSE sum[i - 1] + s[i]
    BY <1>5, Zenon DEF Adds
  <2> QED BY <2>1
<1>9. Nat \subseteq T
  <2>1. 0 \in T
    BY <1>8
  <2>2. ASSUME NEW i \in Nat, i \in T PROVE i + 1 \in T
    <3> SUFFICES ASSUME i + 1 <= Len(s) PROVE sum[i + 1] \in Nat
      OBVIOUS
    <3>1. sum[i] \in Nat /\ s[i + 1] \in Nat
      BY <2>2
    <3>2. sum[i + 1] = sum[i] + s[i + 1]
      BY <1>8
    <3> QED BY <3>1, <3>2
  <2> HIDE DEF T
  <2> QED BY <2>1, <2>2, Inductive
<1>10. sum \in [0 .. Len(s) -> Nat]
  BY <1>7, <1>9
<1> QED BY <1>6, <1>8, <1>10
LEMMA TotalEmpty == Total(<<>>) = 0
BY <<>> \in Seq(Nat), Sums
LEMMA TotalNat == ASSUME NEW s \in Seq(Nat) PROVE Total(s) \in Nat
BY Sums
LEMMA TotalAppend == ASSUME NEW s \in Seq(Nat), NEW x \in Nat PROVE Total(Append(s, x)) = Total(s) + x
<1> DEFINE t == Append(s, x)
           n == Len(s)
<1>1. t \in Seq(Nat) /\ Len(t) = n + 1 /\ t[n + 1] = x /\ n \in Nat /\ \A i \in 1 .. n : t[i] = s[i]
  OBVIOUS
<1> HIDE DEF t, n
<1>0. n = Len(s) /\ t = Append(s, x)
  BY DEF n, t
<1>2. PICK f \in [0 .. n -> Nat] : f[0] = 0 /\ (\A i \in 1 .. n : f[i] = f[i - 1] + s[i]) /\ Total(s) = f[n]
  BY <1>0, Sums
<1>3. PICK g \in [0 .. n + 1 -> Nat] : g[0] = 0 /\ (\A i \in 1 .. n + 1 : g[i] = g[i - 1] + t[i]) /\ Total(t) = g[n + 1]
  BY <1>1, Sums
<1> DEFINE T == {i \in Nat : i <= n => f[i] = g[i]}
<1>4. Nat \subseteq T
  <2>1. 0 \in T
    BY <1>2, <1>3
  <2>2. ASSUME NEW i \in Nat, i \in T PROVE i + 1 \in T
    <3> SUFFICES ASSUME i + 1 <= n PROVE f[i + 1] = g[i + 1]
      OBVIOUS
    <3>1. i + 1 \in 1 .. n /\ i + 1 \in 1 .. n + 1 /\ i + 1 - 1 = i /\ f[i] = g[i]
      BY <1>1, <2>2
    <3> QED BY <1>1, <1>2, <1>3, <3>1
  <2> HIDE DEF T
  <2> QED BY <2>1, <2>2, Inductive
<1>5. f[n] = g[n]
  BY <1>1, <1>4
<1>6. g[n + 1] = g[n] + x
  <2>1. n + 1 \in 1 .. n + 1 /\ n + 1 - 1 = n
    BY <1>1
  <2> QED BY <1>1, <1>3, <2>1
<1> QED BY <1>0, <1>2, <1>3, <1>5, <1>6

\* The recursive function that joins sequences.
Joins(ss, f) == f = [i \in 1 .. Len(ss) |-> IF i = 1 THEN ss[i] ELSE f[i - 1] \o ss[i]]
\* The joined sequences, one by one.
Joining(ss, n, f) == f[0] = <<>> /\ \A i, k \in 0 .. n : i = k + 1 => f[i] = f[k] \o ss[i]
LEMMA Joined ==
    ASSUME NEW V, NEW ss \in Seq(Seq(V)), NEW n, n = Len(ss)
    PROVE  \E f \in [0 .. n -> Seq(V)] : Joining(ss, n, f) /\ FlattenSeq(ss) = f[n]
<1> DEFINE step == [k \in 0 .. n - 1 |-> [v \in Seq(V) |-> v \o ss[k + 1]]]
<1>1. /\ n \in Nat /\ <<>> \in Seq(V)
      /\ \A i \in 1 .. n : ss[i] \in Seq(V)
      /\ \A k \in 0 .. n - 1, v \in Seq(V) : step[k][v] = v \o ss[k + 1]
      /\ step \in [0 .. n - 1 -> [Seq(V) -> Seq(V)]]
  OBVIOUS
<1> HIDE DEF step
<1>2. PICK f \in [0 .. n -> Seq(V)] : Follows(f, n, <<>>, step)
  BY <1>1, Recursion, Zenon
<1>3. ASSUME NEW i \in 0 .. n, NEW k \in 0 .. n, i = k + 1 PROVE f[i] = f[k] \o ss[i]
  <2>0. k \in 0 .. n - 1
    BY <1>1, <1>3
  <2>1. k \in 0 .. n - 1 /\ f[k] \in Seq(V)
    BY <1>2, <2>0
  <2>2. f[k + 1] = step[k][f[k]]
    BY <1>2, <2>1 DEF Follows
  <2>3. step[k][f[k]] = f[k] \o ss[k + 1]
    BY <1>1, <2>1
  <2> QED BY <1>3, <2>1, <2>2, <2>3
<1>4. f[0] = <<>>
  BY <1>2 DEF Follows
<1>7. Joining(ss, n, f)
  BY <1>3, <1>4 DEF Joining
<1>5. CASE n = 0
  <2>0. Len(ss) = 0 /\ ss = <<>>
    <3>1. ss # <<>> => Len(ss) \in Nat \ {0}
      BY EmptySeq, Zenon
    <3> QED BY <1>5, <3>1
  <2>1. FlattenSeq(ss) = <<>>
    BY ONLY <2>0 DEF FlattenSeq
  <2> QED BY <1>7, <1>4, <1>5, <2>1
<1>6. CASE n # 0
  <2> DEFINE join == CHOOSE g : Joins(ss, g)
  <2>0. n = Len(ss)
    OBVIOUS
  <2>1. FlattenSeq(ss) = join[n]
    BY <1>6, <2>0 DEF FlattenSeq, Joins
  <2>2. \E g : Joins(ss, g)
    <3> DEFINE g == [i \in 1 .. n |-> f[i]]
    <3>1. ASSUME NEW i \in 1 .. n PROVE f[i] = IF i = 1 THEN ss[i] ELSE g[i - 1] \o ss[i]
      <4>1. i \in 0 .. n /\ i - 1 \in 0 .. n /\ i = i - 1 + 1 /\ ss[i] \in Seq(V)
        BY <1>1
      <4>2. f[i] = f[i - 1] \o ss[i]
        BY <1>3, <4>1
      <4>3. CASE i = 1
        <5>0. i - 1 = 0
          BY <4>3
        <5>1. f[i] = <<>> \o ss[i]
          BY <1>4, <4>2, <5>0
        <5>2. <<>> \o ss[i] = ss[i]
          BY <4>1
        <5> QED BY <4>3, <5>1, <5>2
      <4>4. CASE i # 1
        <5>1. i - 1 \in 1 .. n
          BY <1>1, <4>4
        <5>2. g[i - 1] = f[i - 1]
          BY <5>1
        <5> QED BY <4>2, <4>4, <5>2
      <4> QED BY <4>3, <4>4
    <3>2. Joins(ss, g)
      BY <2>0, <3>1 DEF Joins
    <3> QED BY <3>2
  <2>3. Joins(ss, join)
    BY <2>2
  <2> HIDE DEF join
  <2>4. \A i \in 1 .. n : join[i] = IF i = 1 THEN ss[i] ELSE join[i - 1] \o ss[i]
    BY <2>0, <2>3, Zenon DEF Joins
  <2> DEFINE T == {k \in Nat : k + 1 <= n => join[k + 1] = f[k + 1]}
  <2>5. Nat \subseteq T
    <3>1. 0 \in T
      <4>1. n \in Nat /\ 1 \in 1 .. n /\ 1 \in 0 .. n /\ 0 \in 0 .. n /\ 1 = 0 + 1 /\ ss[1] \in Seq(V)
        BY <1>1, <1>6
      <4>2. join[1] = ss[1]
        BY <2>4, <4>1
      <4>3. f[1] = <<>> \o ss[1]
        BY <1>3, <1>4, <4>1
      <4>4. f[1] = ss[1]
        BY <4>1, <4>3
      <4> QED BY <4>2, <4>4
    <3>2. ASSUME NEW k \in Nat, k \in T PROVE k + 1 \in T
      <4> SUFFICES ASSUME k + 1 + 1 <= n PROVE join[k + 1 + 1] = f[k + 1 + 1]
        OBVIOUS
      <4>1. k + 1 + 1 \in 1 .. n /\ k + 1 + 1 \in 0 .. n /\ k + 1 \in 0 .. n /\ k + 1 + 1 # 1 /\ k + 1 + 1 - 1 = k + 1 /\ join[k + 1] = f[k + 1]
        BY <1>1, <3>2
      <4> DEFINE i == k + 1 + 1
                 j == k + 1
      <4>0. i \in 1 .. n /\ i \in 0 .. n /\ j \in 0 .. n /\ i = j + 1 /\ i # 1 /\ i - 1 = j /\ join[j] = f[j]
        BY <4>1
      <4> HIDE DEF i, j
      <4>2. join[i] = join[j] \o ss[i]
        BY <2>4, <4>0
      <4>3. f[i] = f[j] \o ss[i]
        BY <1>3, <4>0
      <4>4. join[i] = f[i]
        BY <4>0, <4>2, <4>3
      <4> QED BY <4>4 DEF i, j
    <3> HIDE DEF T
    <3> QED BY <3>1, <3>2, Inductive
  <2>6. n - 1 \in Nat /\ n - 1 + 1 = n
    BY <1>1, <1>6
  <2>7. join[n] = f[n]
    <3>1. n - 1 \in T
      BY <2>5, <2>6
    <3> QED BY <2>6, <3>1
  <2> QED BY <1>7, <2>1, <2>7
<1> QED BY <1>5, <1>6

LEMMA FlattenEmpty == FlattenSeq(<<>>) = <<>>
BY DEF FlattenSeq
LEMMA FlattenSeqOf == ASSUME NEW V, NEW ss \in Seq(Seq(V)) PROVE FlattenSeq(ss) \in Seq(V)
<1> DEFINE n == Len(ss)
<1>1. n \in Nat /\ n \in 0 .. n
  OBVIOUS
<1>2. PICK f \in [0 .. n -> Seq(V)] : Joining(ss, n, f) /\ FlattenSeq(ss) = f[n]
  BY Joined, Zenon
<1> QED BY <1>1, <1>2
LEMMA FlattenAppend ==
    ASSUME NEW V, NEW ss \in Seq(Seq(V)), NEW x \in Seq(V)
    PROVE  FlattenSeq(Append(ss, x)) = FlattenSeq(ss) \o x
<1> DEFINE t == Append(ss, x)
           n == Len(ss)
           m == n + 1
<1>1. t \in Seq(Seq(V)) /\ Len(t) = m /\ t[m] = x /\ n \in Nat /\ m = n + 1 /\ \A i \in 1 .. n : t[i] = ss[i]
  OBVIOUS
<1> HIDE DEF t, n, m
<1>0. n = Len(ss) /\ t = Append(ss, x)
  BY DEF n, t
<1>2. PICK f \in [0 .. n -> Seq(V)] : Joining(ss, n, f) /\ FlattenSeq(ss) = f[n]
  BY <1>0, Joined, Zenon
<1>3. PICK g \in [0 .. m -> Seq(V)] : Joining(t, m, g) /\ FlattenSeq(t) = g[m]
  BY <1>1, Joined, Zenon
<1> DEFINE T == {i \in Nat : i <= n => f[i] = g[i]}
<1>4. Nat \subseteq T
  <2>1. 0 \in T
    BY <1>2, <1>3 DEF Joining
  <2>2. ASSUME NEW k \in Nat, k \in T PROVE k + 1 \in T
    <3> DEFINE i == k + 1
    <3> SUFFICES ASSUME i <= n PROVE f[i] = g[i]
      OBVIOUS
    <3>1. i \in 1 .. n /\ i \in 0 .. n /\ k \in 0 .. n /\ i \in 0 .. m /\ k \in 0 .. m /\ i = k + 1 /\ f[k] = g[k]
      BY <1>1, <2>2
    <3> HIDE DEF i
    <3>2. f[i] = f[k] \o ss[i]
      BY <1>2, <3>1 DEF Joining
    <3>3. g[i] = g[k] \o t[i]
      BY <1>3, <3>1 DEF Joining
    <3> QED BY <1>1, <3>1, <3>2, <3>3
  <2> HIDE DEF T
  <2> QED BY <2>1, <2>2, Inductive
<1>5. f[n] = g[n]
  BY <1>1, <1>4
<1>6. g[m] = g[n] \o x
  <2>1. m \in 0 .. m /\ n \in 0 .. m
    BY <1>1
  <2> QED BY <1>1, <1>3, <2>1 DEF Joining
<1> QED BY <1>0, <1>2, <1>3, <1>5, <1>6

\* The beginning of a sequence, and what is behind it.
LEMMA Beginning ==
    ASSUME NEW S, NEW s \in Seq(S), NEW k \in 0 .. Len(s)
    PROVE  /\ SubSeq(s, 1, k) \in Seq(S) /\ Len(SubSeq(s, 1, k)) = k
           /\ \A i \in 1 .. k : SubSeq(s, 1, k)[i] = s[i]
OBVIOUS
LEMMA Associative ==
    ASSUME NEW S, NEW s \in Seq(S), NEW t \in Seq(S), NEW u \in Seq(S)
    PROVE  (s \o t) \o u = s \o (t \o u)
BY ConcatAssociative

\* A piece more behind the last of the joined sequences.
Grown(ss, x) == [ss EXCEPT ![Len(ss)] = @ \o x]
LEMMA FlattenGrows ==
    ASSUME NEW V, NEW ss \in Seq(Seq(V)), ss # <<>>, NEW x \in Seq(V)
    PROVE  FlattenSeq(Grown(ss, x)) = FlattenSeq(ss) \o x
<1> DEFINE n == Len(ss)
           front == SubSeq(ss, 1, n - 1)
           last == ss[n]
           t == [ss EXCEPT ![n] = @ \o x]
<1>1. n \in Nat \ {0}
  BY EmptySeq, Zenon
<1>2. last \in Seq(V) /\ front \in Seq(Seq(V)) /\ Len(front) = n - 1 /\ \A i \in 1 .. n - 1 : front[i] = ss[i]
  <2>1. \A i \in 1 .. n : ss[i] \in Seq(V)
    BY ElementOfSeq
  <2>2. last \in Seq(V)
    BY <1>1, <2>1
  <2>3. n - 1 \in 0 .. Len(ss)
    BY <1>1
  <2> QED BY <2>2, <2>3, Beginning
<1>3. last \o x \in Seq(V)
  BY <1>2
<1>4. t \in Seq(Seq(V)) /\ Len(t) = n /\ \A i \in 1 .. n : t[i] = IF i = n THEN last \o x ELSE ss[i]
  BY <1>1, <1>3
<1>5. ss = Append(front, last)
  <2>1. Append(front, last) \in Seq(Seq(V)) /\ Len(Append(front, last)) = n
    BY <1>1, <1>2
  <2>2. \A i \in 1 .. n : Append(front, last)[i] = ss[i]
    BY <1>1, <1>2
  <2> QED BY <2>1, <2>2, SeqEqual
<1>6. t = Append(front, last \o x)
  <2>1. Append(front, last \o x) \in Seq(Seq(V)) /\ Len(Append(front, last \o x)) = n
    BY <1>1, <1>2, <1>3
  <2>2. \A i \in 1 .. n : Append(front, last \o x)[i] = t[i]
    <3> HIDE DEF t, front, last
    <3> QED BY <1>1, <1>2, <1>3, <1>4, SMTT(60)
  <2> QED BY <1>4, <2>1, <2>2, SeqEqual
<1> HIDE DEF t, front, last
<1>7. FlattenSeq(t) = FlattenSeq(front) \o (last \o x)
  BY <1>2, <1>3, <1>6, FlattenAppend
<1>8. FlattenSeq(ss) = FlattenSeq(front) \o last
  BY <1>2, <1>5, FlattenAppend
<1>9. FlattenSeq(front) \in Seq(V)
  BY <1>2, FlattenSeqOf
<1>10. (FlattenSeq(front) \o last) \o x = FlattenSeq(front) \o (last \o x)
  <2> DEFINE h == FlattenSeq(front)
  <2>1. h \in Seq(V) /\ last \in Seq(V)
    BY <1>2, <1>9
  <2> HIDE DEF h
  <2>2. (h \o last) \o x = h \o (last \o x)
    BY <2>1, Associative, SMTT(30)
  <2> QED BY <2>2 DEF h
<1> QED BY <1>4, <1>7, <1>8, <1>10 DEF t, Grown

-----------------------------------------------------------------------------
(* Remainders.                                                             *)
LEMMA RemainderIs ==
    ASSUME NEW m \in Nat \ {0}, NEW q \in Int, NEW r \in 0 .. m - 1
    PROVE  (m * q + r) % m = r
BY SMT
LEMMA Divided ==
    ASSUME NEW a \in Int, NEW m \in Nat \ {0}
    PROVE  a \div m \in Int /\ a % m \in 0 .. m - 1 /\ a = m * (a \div m) + (a % m)
BY SMT
LEMMA WrapAdds == ASSUME NEW a \in Int, NEW b \in Int PROVE Wrap(a) \in Int /\ Wrap(Wrap(a) + b) = Wrap(a + b)
<1> DEFINE m == 2 ^ NumBits
<1>1. m \in Nat \ {0}
  BY NetAssumption
<1> HIDE DEF m
<1> DEFINE q == a \div m
           r == a % m
           p == (r + b) \div m
           s == (r + b) % m
<1>2. q \in Int /\ r \in 0 .. m - 1 /\ a = m * q + r
  BY <1>1, Divided
<1>3. r + b \in Int
  BY <1>1, <1>2
<1>4. p \in Int /\ s \in 0 .. m - 1 /\ r + b = m * p + s
  BY <1>1, <1>3, Divided
<1> HIDE DEF q, r, p, s
<1>5. a + b = m * (q + p) + s
  BY <1>1, <1>2, <1>4
<1>6. (m * (q + p) + s) % m = s
  <2>1. q + p \in Int
    BY <1>2, <1>4
  <2> HIDE DEF m
  <2> QED BY <1>1, <1>4, <2>1, RemainderIs
<1> QED BY <1>1, <1>2, <1>5, <1>6 DEF Wrap, m, r, s
LEMMA WrapSame == ASSUME NEW a \in 0 .. 2 ^ NumBits - 1 PROVE Wrap(a) = a
<1> DEFINE m == 2 ^ NumBits
<1>1. m \in Nat \ {0} /\ a \in 0 .. m - 1
  BY NetAssumption
<1> HIDE DEF m
<1>2. (m * 0 + a) % m = a
  BY <1>1, RemainderIs
<1>3. m * 0 + a = a
  BY <1>1
<1> QED BY <1>2, <1>3 DEF Wrap, m

-----------------------------------------------------------------------------
(* Segmentation.  The next byte is in the head or in the last fragment     *)
(* that was begun, all bytes before it are in the packets.                 *)
Seqs == 0 .. 2 ^ NumBits - 1
Skbs == [head : Nat, frags : Seq(Nat \ {0}), mss : Nat \ {0}, seq : Seqs, id : Seqs, ipv6 : BOOLEAN]
Packets == [seq : Int, id : Int, len : Nat, last : BOOLEAN, bytes : Seq(Int)]
Tsos ==
    [skb : Skbs, size : Nat, data : Nat, next_frag_idx : Nat, tcp_seq : Int, ip_id : Int, total : Nat, left : Nat,
     descs : Nat, packets : Seq(Packets)]
\* The bytes of the head and the first fragments.
UptoFrag(s, i) == s.head + Total(SubSeq(s.frags, 1, i))
AtByte(t) ==
    /\ t.next_frag_idx \in 1 .. Len(t.skb.frags) + 1
    /\ t.data >= 1 /\ t.data - 1 + t.size = UptoFrag(t.skb, t.next_frag_idx - 1)
InTheSkb(t) == AtByte(t) /\ (t.size = 0 => t.next_frag_idx = Len(t.skb.frags) + 1)

LEMMA FragAdds ==
    ASSUME NEW s \in Skbs, NEW i \in 1 .. Len(s.frags)
    PROVE  /\ UptoFrag(s, i) = UptoFrag(s, i - 1) + s.frags[i]
           /\ UptoFrag(s, i - 1) \in Nat /\ s.frags[i] \in Nat \ {0}
<1> DEFINE f == s.frags
           b == SubSeq(f, 1, i - 1)
<1>1. f \in Seq(Nat \ {0}) /\ s.head \in Nat
  BY DEF Skbs
<1>2. f \in Seq(Nat)
  BY <1>1
<1>3. f[i] \in Nat \ {0}
  BY <1>1
<1>4. Len(f) \in Nat /\ i \in 1 .. Len(f)
  BY <1>1
<1> HIDE DEF f
<1>5. /\ b \in Seq(Nat) /\ Len(b) = i - 1 /\ (\A j \in 1 .. i - 1 : b[j] = f[j])
      /\ SubSeq(f, 1, i) \in Seq(Nat) /\ Len(SubSeq(f, 1, i)) = i /\ (\A j \in 1 .. i : SubSeq(f, 1, i)[j] = f[j])
  BY <1>2, <1>4, Beginning
<1> HIDE DEF b
<1>6. SubSeq(f, 1, i) = Append(b, f[i])
  <2>1. Append(b, f[i]) \in Seq(Nat) /\ Len(Append(b, f[i])) = i
    BY <1>3, <1>4, <1>5
  <2>2. \A j \in 1 .. i : Append(b, f[i])[j] = SubSeq(f, 1, i)[j]
    BY <1>3, <1>4, <1>5
  <2> QED BY <1>5, <2>1, <2>2, SeqEqual
<1>7. Total(SubSeq(f, 1, i)) = Total(b) + f[i] /\ Total(b) \in Nat
  BY <1>3, <1>5, <1>6, TotalAppend, TotalNat
<1>8. UptoFrag(s, i) = s.head + Total(SubSeq(f, 1, i)) /\ UptoFrag(s, i - 1) = s.head + Total(b) /\ s.frags[i] = f[i]
  BY Zenon DEF UptoFrag, f, b
<1> DEFINE x == Total(b)
           y == Total(SubSeq(f, 1, i))
           u == UptoFrag(s, i)
           v == UptoFrag(s, i - 1)
<1>9. y = x + f[i] /\ x \in Nat /\ u = s.head + y /\ v = s.head + x
  BY <1>7, <1>8
<1> HIDE DEF x, y, u, v
<1>10. u = v + f[i] /\ v \in Nat
  BY <1>1, <1>3, <1>9, SMTT(30)
<1> QED BY <1>3, <1>8, <1>10 DEF u, v
LEMMA WholePayload == ASSUME NEW s \in Skbs PROVE Payload(s) = UptoFrag(s, Len(s.frags)) /\ Payload(s) \in Nat
<1>1. s.frags \in Seq(Nat \ {0}) /\ s.head \in Nat
  BY DEF Skbs
<1>2. s.frags \in Seq(Nat)
  BY <1>1
<1>3. SubSeq(s.frags, 1, Len(s.frags)) = s.frags
  BY <1>1, SubSeqFull
<1>4. UptoFrag(s, Len(s.frags)) = s.head + Total(s.frags) /\ Payload(s) = s.head + Total(s.frags)
  BY <1>3, Zenon DEF UptoFrag, Payload
<1>5. Total(s.frags) \in Nat
  BY <1>2, TotalNat
<1> QED BY <1>1, <1>4, <1>5
Begun(t, a, b, c) == [t EXCEPT !.size = a, !.data = b, !.next_frag_idx = c]
AsBegun(n, t, a, b, c) ==
    /\ n \in Tsos /\ n.size = a /\ n.data = b /\ n.next_frag_idx = c
    /\ n.skb = t.skb /\ n.tcp_seq = t.tcp_seq /\ n.ip_id = t.ip_id
    /\ n.total = t.total /\ n.left = t.left /\ n.descs = t.descs /\ n.packets = t.packets
LEMMA FragBegun ==
    ASSUME NEW t \in Tsos, NEW a \in Nat, NEW b \in Nat, NEW c \in Nat
    PROVE  AsBegun(Begun(t, a, b, c), t, a, b, c)
BY DEF Tsos, Begun, AsBegun
LEMMA NextFragKeeps ==
    ASSUME NEW t \in Tsos, AtByte(t), NEW n, n = NextFrag(t)
    PROVE  /\ n \in Tsos /\ InTheSkb(n) /\ n.data = t.data /\ n.skb = t.skb /\ n.tcp_seq = t.tcp_seq /\ n.ip_id = t.ip_id
           /\ n.total = t.total /\ n.left = t.left /\ n.descs = t.descs /\ n.packets = t.packets
           /\ n.next_frag_idx >= t.next_frag_idx
           /\ t.size = 0 /\ t.next_frag_idx <= Len(t.skb.frags) => n.next_frag_idx = t.next_frag_idx + 1
<1>1. CASE t.size = 0 /\ t.next_frag_idx <= Len(t.skb.frags)
  <2> DEFINE i == t.next_frag_idx
  <2>1. n = Begun(t, t.skb.frags[i], FragStart(t.skb, i), i + 1)
    BY <1>1, Zenon DEF NextFrag, Begun
  <2>2. t.skb \in Skbs /\ i \in 1 .. Len(t.skb.frags) /\ Len(t.skb.frags) \in Nat
    BY <1>1 DEF AtByte, Tsos, Skbs
  <2>3. /\ UptoFrag(t.skb, i) = UptoFrag(t.skb, i - 1) + t.skb.frags[i]
        /\ UptoFrag(t.skb, i - 1) \in Nat /\ t.skb.frags[i] \in Nat \ {0}
    BY <2>2, FragAdds
  <2>4. FragStart(t.skb, i) = UptoFrag(t.skb, i - 1) + 1
    BY DEF FragStart, UptoFrag
  <2>5. t.data = FragStart(t.skb, i)
    BY <1>1, <2>3, <2>4 DEF AtByte, Tsos
  <2>6. PICK a, b, c \in Nat : n = Begun(t, a, b, c) /\ a = t.skb.frags[i] /\ b = FragStart(t.skb, i) /\ c = i + 1
    BY <2>1, <2>2, <2>3, <2>4, SMTT(60)
  <2>7. /\ n \in Tsos /\ n.size = a /\ n.data = b /\ n.next_frag_idx = c
        /\ n.skb = t.skb /\ n.tcp_seq = t.tcp_seq /\ n.ip_id = t.ip_id
        /\ n.total = t.total /\ n.left = t.left /\ n.descs = t.descs /\ n.packets = t.packets
    <3>1. AsBegun(n, t, a, b, c)
      BY <2>6, FragBegun
    <3> QED BY ONLY <3>1, Zenon DEF AsBegun
  <2>8. InTheSkb(n)
    <3>1. c - 1 = i /\ c \in 1 .. Len(t.skb.frags) + 1 /\ a # 0 /\ b >= 1
      BY <2>2, <2>3, <2>4, <2>6, SMTT(60)
    <3>2. b - 1 + a = UptoFrag(t.skb, i)
      BY <2>3, <2>4, <2>6
    <3> QED BY <2>7, <3>1, <3>2 DEF InTheSkb, AtByte
  <2>9. n.data = t.data
    BY <2>5, <2>6, <2>7
  <2>10. n.next_frag_idx = t.next_frag_idx + 1 /\ n.next_frag_idx >= t.next_frag_idx
    BY <2>2, <2>6, <2>7
  <2> QED BY <2>7, <2>8, <2>9, <2>10
<1>2. CASE ~(t.size = 0 /\ t.next_frag_idx <= Len(t.skb.frags))
  <2>1. n = t
    BY <1>2 DEF NextFrag
  <2>2. t.next_frag_idx \in Nat /\ Len(t.skb.frags) \in Nat
    BY DEF Tsos, Skbs
  <2> QED BY <1>2, <2>1, <2>2 DEF InTheSkb, AtByte
<1> QED BY <1>1, <1>2
\* The payload bytes that packets hold, and how many are in front of one.
FirstBytes(n) == [i \in 1 .. n |-> i]
BytesIn(ps) == FlattenSeq([i \in DOMAIN ps |-> ps[i].bytes])
Before(ps, i) == Total([j \in 1 .. i - 1 |-> ps[j].len])
PacketHolds(t, i) ==
    LET p == t.packets[i]
    IN  /\ p.len \in 1 .. t.skb.mss /\ (p.last <=> Before(t.packets, i) + p.len = Payload(t.skb))
        /\ p.seq = Wrap(t.skb.seq + Before(t.packets, i)) /\ (~t.skb.ipv6 => p.id = Wrap(t.skb.id + i - 1))
\* Segments are full until the payload ends.
SegmentsFull(t) ==
    /\ t.total > 0 => Payload(t.skb) - t.total = Len(t.packets) * t.skb.mss
    /\ t.packets # <<>> => (Len(t.packets) - 1) * t.skb.mss < Payload(t.skb)
\* A descriptor that is not one of the two of a packet ends a fragment.
DescsCounted(t) == t.descs + (IF t.left > 0 THEN 1 ELSE 0) <= 2 * Len(t.packets) + t.next_frag_idx - 1
TsoCounted(t) ==
    /\ t.total + t.left + t.data - 1 = Payload(t.skb)
    /\ Before(t.packets, Len(t.packets) + 1) = Payload(t.skb) - t.total
    /\ t.left > 0 => t.packets # <<>>
    /\ t.tcp_seq = Wrap(t.skb.seq + t.data - 1) /\ (~t.skb.ipv6 => t.ip_id = Wrap(t.skb.id + Len(t.packets)))
TsoHolds(t) ==
    /\ t \in Tsos /\ InTheSkb(t) /\ TsoCounted(t) /\ SegmentsFull(t) /\ DescsCounted(t)
    /\ BytesIn(t.packets) = FirstBytes(t.data - 1)
    /\ \A i \in DOMAIN t.packets : PacketHolds(t, i)

LensOf(ps, D) == [j \in D |-> ps[j].len]
LEMMA BeforeIs == ASSUME NEW ps, NEW i \in Int PROVE Before(ps, i) = Total(LensOf(ps, 1 .. i - 1))
BY Zenon DEF Before, LensOf
AsAppended(n, ps, p) ==
    /\ n \in Seq(Packets) /\ Len(n) = Len(ps) + 1 /\ n # <<>> /\ n[Len(ps) + 1] = p
    /\ \A i \in 1 .. Len(ps) : n[i] = ps[i]
    /\ \A i \in 1 .. Len(ps) + 1 : Before(n, i) = Before(ps, i)
    /\ Before(n, Len(n) + 1) = Before(ps, Len(ps) + 1) + p.len
    /\ BytesIn(n) = BytesIn(ps) \o p.bytes
LEMMA PacketAppended ==
    ASSUME NEW ps \in Seq(Packets), NEW p \in Packets, NEW n, n = Append(ps, p)
    PROVE  AsAppended(n, ps, p)
<1> DEFINE k == Len(ps)
<1>1. n \in Seq(Packets) /\ Len(n) = k + 1 /\ n[k + 1] = p /\ (\A i \in 1 .. k : n[i] = ps[i]) /\ k \in Nat /\ n # <<>>
  OBVIOUS
<1>0. \A i \in 1 .. k : ps[i] \in Packets
  BY ElementOfSeq
<1>2. p.len \in Nat /\ p.bytes \in Seq(Int) /\ \A i \in 1 .. k : ps[i].len \in Nat /\ ps[i].bytes \in Seq(Int)
  BY <1>0 DEF Packets
<1> HIDE DEF k
<1>3. ASSUME NEW i \in 1 .. k + 1 PROVE Before(n, i) = Before(ps, i)
  <2>1. \A j \in 1 .. i - 1 : n[j].len = ps[j].len
    BY <1>1
  <2>2. [j \in 1 .. i - 1 |-> n[j].len] = [j \in 1 .. i - 1 |-> ps[j].len]
    BY <2>1
  <2> QED BY <2>2, Zenon DEF Before
<1>4. Before(n, k + 2) = Before(ps, k + 1) + p.len
  <2> DEFINE s == [j \in 1 .. k |-> ps[j].len]
  <2>1. s \in Seq(Nat) /\ Len(s) = k
    BY <1>1, <1>2
  <2>2. [j \in 1 .. k + 1 |-> n[j].len] = Append(s, p.len)
    BY <1>1, <1>2
  <2>3. k + 2 - 1 = k + 1 /\ k + 1 - 1 = k
    BY <1>1
  <2>7. 1 .. k + 2 - 1 = 1 .. k + 1 /\ 1 .. k + 1 - 1 = 1 .. k
    BY <2>3
  <2>9. Before(n, k + 2) = Total(LensOf(n, 1 .. k + 1)) /\ Before(ps, k + 1) = Total(LensOf(ps, 1 .. k))
    BY ONLY <1>1, <2>7, BeforeIs
  <2>4. Before(n, k + 2) = Total([j \in 1 .. k + 1 |-> n[j].len]) /\ Before(ps, k + 1) = Total(s)
    BY <2>9, Zenon DEF LensOf
  <2> HIDE DEF s
  <2> QED BY <1>2, <2>1, <2>2, <2>4, TotalAppend
<1>5. BytesIn(n) = BytesIn(ps) \o p.bytes
  <2> DEFINE ss == [i \in DOMAIN ps |-> ps[i].bytes]
  <2>1. ss \in Seq(Seq(Int)) /\ Len(ss) = k /\ DOMAIN ps = 1 .. k
    BY <1>1, <1>2 DEF k
  <2>2. [i \in DOMAIN n |-> n[i].bytes] = Append(ss, p.bytes)
    BY <1>1, <1>2, <2>1
  <2>3. BytesIn(n) = FlattenSeq([i \in DOMAIN n |-> n[i].bytes]) /\ BytesIn(ps) = FlattenSeq(ss)
    BY Zenon DEF BytesIn
  <2> HIDE DEF ss
  <2> QED BY <1>2, <2>1, <2>2, <2>3, FlattenAppend
<1>6. k + 2 = Len(n) + 1
  BY <1>1
<1> QED BY <1>1, <1>3, <1>4, <1>5, <1>6 DEF k, AsAppended
\* More bytes in a packet.
Longer(p, c) == [p EXCEPT !.bytes = p.bytes \o c]
AsLonger(q, p, c) ==
    /\ q \in Packets /\ q.seq = p.seq /\ q.id = p.id /\ q.len = p.len /\ q.last = p.last
    /\ q.bytes = p.bytes \o c
LEMMA LongerPacket == ASSUME NEW p \in Packets, NEW c \in Seq(Int) PROVE AsLonger(Longer(p, c), p, c)
<1>1. p.bytes \in Seq(Int)
  BY DEF Packets
<1>2. p.bytes \o c \in Seq(Int)
  BY <1>1
<1> QED BY <1>2 DEF Packets, Longer, AsLonger
AsGrown(n, ps, c) ==
    /\ n \in Seq(Packets) /\ Len(n) = Len(ps) /\ n # <<>>
    /\ \A i \in 1 .. Len(ps) : n[i].seq = ps[i].seq /\ n[i].id = ps[i].id /\ n[i].len = ps[i].len /\ n[i].last = ps[i].last
    /\ \A i \in 1 .. Len(ps) + 1 : Before(n, i) = Before(ps, i)
    /\ BytesIn(n) = BytesIn(ps) \o c
LEMMA PacketGrows ==
    ASSUME NEW ps \in Seq(Packets), ps # <<>>, NEW c \in Seq(Int),
           NEW n, n = [ps EXCEPT ![Len(ps)] = Longer(ps[Len(ps)], c)]
    PROVE  AsGrown(n, ps, c)
<1> DEFINE k == Len(ps)
           q == Longer(ps[k], c)
<1>1. k \in Nat \ {0}
  BY EmptySeq, Zenon
<1>0. \A i \in 1 .. k : ps[i] \in Packets
  BY ElementOfSeq
<1>2. ps[k] \in Packets /\ k \in 1 .. k
  BY <1>0, <1>1
<1>4. /\ q \in Packets /\ q.seq = ps[k].seq /\ q.id = ps[k].id /\ q.len = ps[k].len /\ q.last = ps[k].last
      /\ q.bytes = ps[k].bytes \o c
  BY <1>2, LongerPacket DEF AsLonger
<1>5. n = [ps EXCEPT ![k] = q]
  OBVIOUS
<1> HIDE DEF q
<1>6. n \in Seq(Packets) /\ Len(n) = k /\ n # <<>> /\ \A i \in 1 .. k : n[i] = IF i = k THEN q ELSE ps[i]
  BY <1>1, <1>4, <1>5
<1>7. \A i \in 1 .. k : n[i].seq = ps[i].seq /\ n[i].id = ps[i].id /\ n[i].len = ps[i].len /\ n[i].last = ps[i].last
  BY <1>4, <1>6
<1>8. ASSUME NEW i \in 1 .. k + 1 PROVE Before(n, i) = Before(ps, i)
  <2>1. \A j \in 1 .. i - 1 : n[j].len = ps[j].len
    BY <1>1, <1>7
  <2>2. [j \in 1 .. i - 1 |-> n[j].len] = [j \in 1 .. i - 1 |-> ps[j].len]
    BY <2>1
  <2> QED BY <2>2, Zenon DEF Before
<1>9. BytesIn(n) = BytesIn(ps) \o c
  <2> DEFINE ss == [i \in DOMAIN ps |-> ps[i].bytes]
  <2>0. \A i \in 1 .. k : ps[i].bytes \in Seq(Int)
    BY <1>0 DEF Packets
  <2>10. DOMAIN ps = 1 .. k /\ Len(ps) = k
    OBVIOUS
  <2>1. ss \in Seq(Seq(Int)) /\ Len(ss) = k /\ DOMAIN ps = 1 .. k /\ ss[k] = ps[k].bytes
    BY ONLY <1>1, <1>2, <2>0, <2>10
  <2>2. [i \in DOMAIN n |-> n[i].bytes] = Grown(ss, c)
    <3>1. DOMAIN n = 1 .. k
      BY ONLY <1>6
    <3>2. \A i \in 1 .. k : n[i].bytes = IF i = k THEN ss[k] \o c ELSE ss[i]
      BY <1>4, <1>6, <2>1
    <3>3. DOMAIN Grown(ss, c) = 1 .. k
      BY <2>1 DEF Grown
    <3>4. \A i \in 1 .. k : Grown(ss, c)[i] = IF i = k THEN ss[k] \o c ELSE ss[i]
      BY <2>1 DEF Grown
    <3>5. Grown(ss, c) = [i \in DOMAIN Grown(ss, c) |-> Grown(ss, c)[i]]
      BY Zenon DEF Grown
    <3> QED BY <3>1, <3>2, <3>3, <3>4, <3>5
  <2>3. BytesIn(n) = FlattenSeq([i \in DOMAIN n |-> n[i].bytes]) /\ BytesIn(ps) = FlattenSeq(ss)
    BY Zenon DEF BytesIn
  <2>4. ss # <<>>
    BY <1>1, <2>1
  <2> HIDE DEF ss
  <2> QED BY <2>1, <2>2, <2>3, <2>4, FlattenGrows, ZenonT(60)
<1> QED BY <1>6, <1>7, <1>8, <1>9 DEF k, AsGrown

\* The next header, and the next bytes of a packet.
HdrBuilt(t, left, total, id, descs, ps) ==
    [t EXCEPT !.left = left, !.total = total, !.ip_id = id, !.descs = descs, !.packets = ps]
AsHdrBuilt(n, t, left, total, id, descs, ps) ==
    /\ n \in Tsos /\ n.left = left /\ n.total = total /\ n.ip_id = id /\ n.descs = descs /\ n.packets = ps
    /\ n.skb = t.skb /\ n.size = t.size /\ n.data = t.data /\ n.next_frag_idx = t.next_frag_idx /\ n.tcp_seq = t.tcp_seq
LEMMA HdrFields ==
    ASSUME NEW t \in Tsos, NEW left \in Nat, NEW total \in Nat, NEW id \in Int, NEW descs \in Nat, NEW ps \in Seq(Packets)
    PROVE  AsHdrBuilt(HdrBuilt(t, left, total, id, descs, ps), t, left, total, id, descs, ps)
BY DEF Tsos, HdrBuilt, AsHdrBuilt
DataBuilt(t, seq, size, data, left, descs, ps) ==
    [t EXCEPT !.tcp_seq = seq, !.size = size, !.data = data, !.left = left, !.descs = descs, !.packets = ps]
AsDataBuilt(n, t, seq, size, data, left, descs, ps) ==
    /\ n \in Tsos /\ n.tcp_seq = seq /\ n.size = size /\ n.data = data /\ n.left = left /\ n.descs = descs /\ n.packets = ps
    /\ n.skb = t.skb /\ n.total = t.total /\ n.next_frag_idx = t.next_frag_idx /\ n.ip_id = t.ip_id
LEMMA DataFields ==
    ASSUME NEW t \in Tsos, NEW seq \in Int, NEW size \in Nat, NEW data \in Nat, NEW left \in Nat, NEW descs \in Nat,
           NEW ps \in Seq(Packets)
    PROVE  AsDataBuilt(DataBuilt(t, seq, size, data, left, descs, ps), t, seq, size, data, left, descs, ps)
BY DEF Tsos, DataBuilt, AsDataBuilt
LEMMA MovedIs ==
    ASSUME NEW size, tso \in Tsos, tso.packets # <<>>
    PROVE  Moved(size) = DataBuilt(tso, Wrap(tso.tcp_seq + size), tso.size - size, tso.data + size, tso.left - size,
                                   tso.descs + 1, [tso.packets EXCEPT ![Len(tso.packets)] = Longer(tso.packets[Len(tso.packets)], Chunk(size))])
BY DEF Moved, DataBuilt, Longer

LEMMA NextSegment ==
    ASSUME NEW P \in Nat, NEW total \in Nat, total > 0, NEW k \in Nat, NEW mss \in Nat \ {0}, P - total = k * mss,
           NEW size, size = Smaller(mss, total)
    PROVE  /\ size \in 1 .. mss /\ total - size \in Nat /\ (k + 1 - 1) * mss < P
           /\ total - size > 0 => P - (total - size) = (k + 1) * mss
<1>1. (k + 1) * mss = k * mss + mss /\ k + 1 - 1 = k /\ k * mss \in Int
  BY SMT
<1>2. size = IF mss < total THEN mss ELSE total
  BY DEF Smaller
<1> DEFINE x == k * mss
           y == (k + 1) * mss
<1>3. y = x + mss /\ x \in Int /\ P - total = x
  BY <1>1
<1> HIDE DEF x, y
<1>4. size \in 1 .. mss /\ total - size \in Nat /\ x < P /\ (total - size > 0 => P - (total - size) = y)
  BY <1>2, <1>3
<1> QED BY <1>1, <1>4 DEF x, y
LEMMA SegmentsEnough ==
    ASSUME NEW P \in Nat, NEW k \in Nat \ {0}, NEW mss \in Nat \ {0}, (k - 1) * mss < P
    PROVE  k <= (P + mss - 1) \div mss
<1> DEFINE a == P + mss - 1
           q == a \div mss
           r == a % mss
<1>0. a \in Nat /\ a = P + mss - 1
  OBVIOUS
<1> HIDE DEF a
<1>1. a \in Nat /\ q \in Int /\ r \in 0 .. mss - 1 /\ a = mss * q + r
  BY <1>0, Divided
<1> HIDE DEF q, r
<1>2. ~(q <= k - 1)
  <2> SUFFICES ASSUME q <= k - 1 PROVE FALSE
    OBVIOUS
  <2>1. mss * q <= mss * (k - 1)
    BY <1>1, SMT
  <2>2. mss * (k - 1) = (k - 1) * mss
    BY SMT
  <2> DEFINE x == mss * q
             y == (k - 1) * mss
  <2>3. x <= y /\ y < P /\ P + mss - 1 = x + r /\ x \in Int /\ y \in Int
    BY <1>0, <1>1, <2>1, <2>2
  <2> HIDE DEF x, y
  <2> QED BY <1>1, <2>3
<1> QED BY <1>0, <1>1, <1>2 DEF q, a
LEMMA NoneLeft == ASSUME NEW P \in Nat, NEW mss \in Nat \ {0} PROVE 0 <= (P + mss - 1) \div mss
<1> DEFINE a == P + mss - 1
           q == a \div mss
           r == a % mss
<1>0. a \in Nat /\ a = P + mss - 1
  OBVIOUS
<1> HIDE DEF a
<1>1. a \in Nat /\ q \in Int /\ r \in 0 .. mss - 1 /\ a = mss * q + r
  BY <1>0, Divided
<1> HIDE DEF q, r
<1>2. ~(q <= -1)
  <2> SUFFICES ASSUME q <= -1 PROVE FALSE
    OBVIOUS
  <2>1. mss * q <= mss * (-1)
    BY <1>1, SMT
  <2>2. mss * (-1) = -mss
    BY SMT
  <2> DEFINE x == mss * q
  <2>3. x <= -mss /\ P + mss - 1 = x + r /\ x \in Int
    BY <1>0, <1>1, <2>1, <2>2
  <2> HIDE DEF x
  <2> QED BY <1>1, <2>3
<1> QED BY <1>0, <1>1, <1>2 DEF q, a

\* What holds tells that no byte is missing.
LEMMA TsoSent == ASSUME TsoHolds(tso) PROVE TsoSendsAll
<1> DEFINE sent == BytesIn(tso.packets)
           ps == tso.packets
           k == Len(ps)
           s == tso.skb
<1>1. /\ tso \in Tsos /\ s \in Skbs /\ ps \in Seq(Packets) /\ k \in Nat /\ tso.data \in Nat /\ tso.descs \in Nat
      /\ tso.total \in Nat /\ tso.left \in Nat /\ tso.next_frag_idx \in Nat /\ DOMAIN ps = 1 .. k
  BY DEF TsoHolds, Tsos
<1>2. InTheSkb(tso) /\ TsoCounted(tso) /\ SegmentsFull(tso) /\ DescsCounted(tso) /\ sent = FirstBytes(tso.data - 1)
      /\ \A i \in DOMAIN ps : PacketHolds(tso, i)
  BY DEF TsoHolds
<1>3. Payload(s) \in Nat /\ s.mss \in Nat \ {0} /\ Len(s.frags) \in Nat
  BY <1>1, WholePayload DEF Skbs
<1>4. tso.data >= 1 /\ tso.next_frag_idx <= Len(s.frags) + 1
  BY <1>1, <1>2, <1>3 DEF InTheSkb, AtByte
<1>5. sent = [i \in DOMAIN sent |-> i] /\ Len(sent) = tso.data - 1
  <2>0. sent = [i \in 1 .. tso.data - 1 |-> i]
    BY <1>2, Zenon DEF FirstBytes
  <2>1. sent \in Seq(Nat) /\ Len(sent) = tso.data - 1
    BY <1>1, <2>0, <1>4
  <2>2. DOMAIN sent = 1 .. tso.data - 1
    BY <2>0
  <2> QED BY <2>0, <2>1, <2>2
<1>6. tso.descs <= tso_count_descs(s)
  <2>1. k <= Segs(s)
    <3>1. CASE k = 0
      BY <1>3, <3>1, NoneLeft DEF Segs
    <3>2. CASE k # 0
      <4>1. (k - 1) * s.mss < Payload(s)
        BY <1>1, <1>2, <3>2 DEF SegmentsFull
      <4> HIDE DEF k, s
      <4> QED BY <1>1, <1>3, <3>2, <4>1, SegmentsEnough DEF Segs
    <3> QED BY <3>1, <3>2
  <2>2. Segs(s) \in Int
    <3> DEFINE a == Payload(s) + s.mss - 1
               m == s.mss
    <3>1. a \in Int /\ m \in Nat \ {0} /\ Segs(s) = a \div m
      BY <1>3 DEF Segs
    <3> HIDE DEF a, m
    <3> QED BY <3>1, Divided
  <2>3. tso.descs <= 2 * k + tso.next_frag_idx - 1
    BY <1>1, <1>2 DEF DescsCounted
  <2> DEFINE g == Segs(s)
             l == Len(s.frags)
             d == tso_count_descs(s)
             e == tso.descs
             n == tso.next_frag_idx
  <2>4. d = g * 2 + l /\ k \in Nat /\ g \in Int /\ l \in Nat /\ e \in Nat /\ n \in Nat
    BY <1>1, <1>3, <2>2 DEF tso_count_descs
  <2>5. k <= g /\ e <= 2 * k + n - 1 /\ n <= l + 1
    BY <1>4, <2>1, <2>3
  <2> HIDE DEF g, l, d, k, e, n
  <2>6. e <= d
    BY <2>4, <2>5
  <2> QED BY <2>6 DEF d, e
<1>7. tso.total = 0 /\ tso.left = 0 => Len(sent) = Payload(s)
  BY <1>1, <1>2, <1>3, <1>5 DEF TsoCounted
<1>8. ASSUME NEW i \in DOMAIN ps PROVE PacketHolds(tso, i)
  BY <1>2
<1> QED BY <1>5, <1>6, <1>7, <1>8, Zenon DEF TsoSendsAll, PacketHolds, Before, BytesIn

\* What holds before the next fragment is begun.
AtPiece(t) ==
    /\ t \in Tsos /\ AtByte(t) /\ TsoCounted(t) /\ SegmentsFull(t)
    /\ t.descs + (IF t.left > 0 THEN 1 ELSE 0)
          <= 2 * Len(t.packets) + t.next_frag_idx - 1 + (IF t.size = 0 /\ t.next_frag_idx <= Len(t.skb.frags) THEN 1 ELSE 0)
    /\ BytesIn(t.packets) = FirstBytes(t.data - 1)
    /\ \A i \in DOMAIN t.packets : PacketHolds(t, i)
LEMMA NextFragHolds == ASSUME NEW t, AtPiece(t) PROVE TsoHolds(NextFrag(t))
<1> DEFINE n == NextFrag(t)
<1>1. t \in Tsos /\ AtByte(t)
  BY DEF AtPiece
<1>2. /\ n \in Tsos /\ InTheSkb(n) /\ n.data = t.data /\ n.skb = t.skb /\ n.tcp_seq = t.tcp_seq /\ n.ip_id = t.ip_id
      /\ n.total = t.total /\ n.left = t.left /\ n.descs = t.descs /\ n.packets = t.packets
      /\ n.next_frag_idx >= t.next_frag_idx
      /\ (t.size = 0 /\ t.next_frag_idx <= Len(t.skb.frags) => n.next_frag_idx = t.next_frag_idx + 1)
  BY <1>1, NextFragKeeps, Zenon
<1> HIDE DEF n
<1>3. TsoCounted(n) /\ SegmentsFull(n)
  BY <1>2, Zenon DEF AtPiece, TsoCounted, SegmentsFull
<1>4. DescsCounted(n)
  <2> DEFINE d == t.descs
             x == IF t.left > 0 THEN 1 ELSE 0
             k == Len(t.packets)
             i == t.next_frag_idx
             j == n.next_frag_idx
             y == IF t.size = 0 /\ i <= Len(t.skb.frags) THEN 1 ELSE 0
  <2>1. d \in Nat /\ x \in {0, 1} /\ k \in Nat /\ i \in Nat /\ j \in Nat /\ y \in {0, 1}
    BY <1>1, <1>2 DEF Tsos
  <2>2. d + x <= 2 * k + i - 1 + y
    BY Zenon DEF AtPiece
  <2>3. j >= i /\ (y = 1 => j = i + 1)
    BY <1>2
  <2>4. DescsCounted(n) <=> d + x <= 2 * k + j - 1
    BY <1>2, Zenon DEF DescsCounted
  <2> HIDE DEF d, x, k, i, j, y
  <2> QED BY <2>1, <2>2, <2>3, <2>4
<1>5. BytesIn(n.packets) = FirstBytes(n.data - 1)
  BY <1>2, Zenon DEF AtPiece
<1>6. ASSUME NEW i \in DOMAIN n.packets PROVE PacketHolds(n, i)
  <2>1. PacketHolds(t, i)
    BY <1>2, <1>6, Zenon DEF AtPiece
  <2> QED BY <1>2, <2>1, Zenon DEF PacketHolds
<1> QED BY <1>2, <1>3, <1>4, <1>5, <1>6, Zenon DEF TsoHolds, n

Started(s) ==
    [skb |-> s, size |-> s.head, data |-> 1, next_frag_idx |-> 1, tcp_seq |-> s.seq, ip_id |-> s.id,
     total |-> Payload(s), left |-> 0, descs |-> 0, packets |-> <<>>]
LEMMA TsoStarts == ASSUME NEW s \in Skbs PROVE TsoHolds(tso_start(s))
<1> DEFINE t == Started(s)
<1>1. /\ t.skb = s /\ t.size = s.head /\ t.data = 1 /\ t.next_frag_idx = 1 /\ t.tcp_seq = s.seq /\ t.ip_id = s.id
      /\ t.total = Payload(s) /\ t.left = 0 /\ t.descs = 0 /\ t.packets = <<>>
  BY DEF Started
<1>2. Payload(s) \in Nat /\ s.head \in Nat /\ s.seq \in Seqs /\ s.id \in Seqs /\ s.mss \in Nat /\ Len(s.frags) \in Nat /\ s.ipv6 \in BOOLEAN
  BY WholePayload DEF Skbs
<1>3. t \in Tsos
  <2>1. Seqs \subseteq Int
    BY NetAssumption DEF Seqs
  <2>2. <<>> \in Seq(Packets)
    OBVIOUS
  <2>3. s.seq \in Int /\ s.id \in Int
    BY <1>2, <2>1
  <2> QED BY <1>2, <2>2, <2>3 DEF Tsos, Started
<1> HIDE DEF t
<1>4. AtByte(t)
  <2>1. UptoFrag(s, 0) = s.head
    <3>1. s.frags \in Seq(Nat \ {0})
      BY DEF Skbs
    <3>2. SubSeq(s.frags, 1, 0) = <<>>
      BY <3>1, SubSeqEmpty
    <3>3. UptoFrag(s, 0) = s.head + 0
      BY <3>2, TotalEmpty, Zenon DEF UptoFrag
    <3> QED BY <1>2, <3>3
  <2>2. 1 \in 1 .. Len(s.frags) + 1 /\ 1 - 1 + s.head = s.head /\ 1 - 1 = 0
    BY <1>2
  <2> QED BY <1>1, <2>1, <2>2 DEF AtByte
<1>5. TsoCounted(t) /\ SegmentsFull(t)
  <2>1. Before(<<>>, 1) = 0
    <3>1. [j \in 1 .. 0 |-> <<>>[j].len] = <<>>
      OBVIOUS
    <3> QED BY <3>1, TotalEmpty DEF Before
  <2>2. s.seq = Wrap(s.seq + 1 - 1) /\ s.id = Wrap(s.id + 0)
    <3>1. s.seq = Wrap(s.seq) /\ s.id = Wrap(s.id)
      BY <1>2, WrapSame DEF Seqs
    <3>2. s.seq + 1 - 1 = s.seq /\ s.id + 0 = s.id
      BY <1>2, NetAssumption DEF Seqs
    <3> QED BY <3>1, <3>2
  <2>3. Len(<<>>) = 0 /\ Payload(s) - Payload(s) = 0 /\ 0 * s.mss = 0 /\ Payload(s) + 0 + 1 - 1 = Payload(s)
    BY <1>2
  <2>4. TsoCounted(t)
    BY <1>1, <2>1, <2>2, <2>3 DEF TsoCounted
  <2>5. SegmentsFull(t)
    BY <1>1, <2>3 DEF SegmentsFull
  <2> QED BY <2>4, <2>5
<1>6. BytesIn(t.packets) = FirstBytes(t.data - 1)
  <2>1. [i \in DOMAIN <<>> |-> <<>>[i].bytes] = <<>>
    OBVIOUS
  <2>2. BytesIn(<<>>) = <<>>
    BY <2>1, FlattenEmpty DEF BytesIn
  <2>3. FirstBytes(1 - 1) = <<>>
    BY DEF FirstBytes
  <2> QED BY <1>1, <2>2, <2>3
<1>7. DOMAIN t.packets = {} /\ Len(t.packets) = 0
  BY <1>1
<1>8. t.descs + (IF t.left > 0 THEN 1 ELSE 0)
          <= 2 * Len(t.packets) + t.next_frag_idx - 1 + (IF t.size = 0 /\ t.next_frag_idx <= Len(t.skb.frags) THEN 1 ELSE 0)
  BY <1>1, <1>7
<1>9. AtPiece(t)
  BY <1>3, <1>4, <1>5, <1>6, <1>7, <1>8, Zenon DEF AtPiece
<1>10. tso_start(s) = NextFrag(t)
  BY Zenon DEF tso_start, t, Started
<1> QED BY <1>9, <1>10, NextFragHolds

LEMMA HdrHolds ==
    ASSUME TsoHolds(tso), NEW size, size = Smaller(tso.skb.mss, tso.total), NEW is_last, is_last = (size = tso.total),
           tso_build_hdr(size, is_last)
    PROVE  TsoHolds(tso')
<1> DEFINE s == tso.skb
           ps == tso.packets
           k == Len(ps)
           P == Payload(s)
           p == [seq |-> tso.tcp_seq, id |-> tso.ip_id, len |-> size, last |-> is_last, bytes |-> <<>>]
           n == Append(ps, p)
           id == IF s.ipv6 THEN tso.ip_id ELSE Wrap(tso.ip_id + 1)
           t == HdrBuilt(tso, size, tso.total - size, id, tso.descs + 1, n)
<1>1. /\ tso \in Tsos /\ s \in Skbs /\ ps \in Seq(Packets) /\ k \in Nat /\ tso.data \in Nat /\ tso.descs \in Nat
      /\ tso.total \in Nat /\ tso.next_frag_idx \in Nat /\ tso.tcp_seq \in Int /\ tso.ip_id \in Int /\ DOMAIN ps = 1 .. k
  BY DEF TsoHolds, Tsos
<1>2. /\ InTheSkb(tso) /\ TsoCounted(tso) /\ SegmentsFull(tso) /\ DescsCounted(tso) /\ BytesIn(ps) = FirstBytes(tso.data - 1)
      /\ \A i \in DOMAIN ps : PacketHolds(tso, i)
  BY DEF TsoHolds
<1>3. P \in Nat /\ s.mss \in Nat \ {0} /\ s.seq \in Int /\ s.id \in Int /\ s.ipv6 \in BOOLEAN
  BY <1>1, WholePayload, NetAssumption DEF Skbs, Seqs
<1>4. tso.left = 0 /\ tso.total > 0
  BY DEF tso_build_hdr
<1>5. /\ P - tso.total = k * s.mss /\ tso.total + tso.data - 1 = P /\ Before(ps, k + 1) = P - tso.total
      /\ tso.tcp_seq = Wrap(s.seq + tso.data - 1) /\ (~s.ipv6 => tso.ip_id = Wrap(s.id + k))
  BY <1>1, <1>2, <1>3, <1>4 DEF TsoCounted, SegmentsFull
<1>6. /\ size \in 1 .. s.mss /\ tso.total - size \in Nat /\ (k + 1 - 1) * s.mss < P
      /\ (tso.total - size > 0 => P - (tso.total - size) = (k + 1) * s.mss)
  <2> DEFINE m == s.mss
             total == tso.total
  <2>1. P \in Nat /\ total \in Nat /\ total > 0 /\ k \in Nat /\ m \in Nat \ {0} /\ P - total = k * m /\ size = Smaller(m, total)
    BY <1>1, <1>3, <1>4, <1>5
  <2> HIDE DEF P, k, m, total
  <2>2. /\ size \in 1 .. m /\ total - size \in Nat /\ (k + 1 - 1) * m < P
        /\ total - size > 0 => P - (total - size) = (k + 1) * m
    BY ONLY <2>1, NextSegment
  <2> QED BY <2>2 DEF m, total
<1>7. p \in Packets /\ p.seq = tso.tcp_seq /\ p.id = tso.ip_id /\ p.len = size /\ (p.last <=> size = tso.total) /\ p.bytes = <<>>
  <2>1. size \in Nat /\ is_last \in BOOLEAN /\ <<>> \in Seq(Int)
    BY <1>3, <1>6
  <2> QED BY <1>1, <2>1 DEF Packets
<1> HIDE DEF p
<1>8. /\ n \in Seq(Packets) /\ Len(n) = k + 1 /\ n # <<>> /\ n[k + 1] = p
      /\ \A i \in 1 .. k : n[i] = ps[i]
      /\ \A i \in 1 .. k + 1 : Before(n, i) = Before(ps, i)
      /\ Before(n, Len(n) + 1) = Before(ps, k + 1) + p.len
      /\ BytesIn(n) = BytesIn(ps) \o p.bytes
  <2>1. AsAppended(n, ps, p)
    BY <1>1, <1>7, PacketAppended
  <2> HIDE DEF n
  <2> QED BY <2>1, Zenon DEF AsAppended
<1>9. id \in Int /\ (~s.ipv6 => id = Wrap(s.id + (k + 1)))
  <2>1. CASE s.ipv6
    BY <1>1, <2>1
  <2>2. CASE ~s.ipv6
    <3>1. id = Wrap(Wrap(s.id + k) + 1)
      BY <1>5, <2>2
    <3> DEFINE a == s.id + k
    <3>2. a \in Int /\ a + 1 = s.id + (k + 1) /\ a + 1 \in Int
      <4> DEFINE x == s.id
      <4>1. x \in Int /\ k \in Nat
        BY <1>1, <1>3
      <4> HIDE DEF x, k
      <4> QED BY <4>1 DEF x
    <3>3. id = Wrap(Wrap(a) + 1)
      BY <3>1
    <3> HIDE DEF id, a
    <3>4. id \in Int /\ id = Wrap(a + 1)
      BY <3>2, <3>3, WrapAdds
    <3> QED BY <3>2, <3>4
  <2> QED BY <2>1, <2>2
<1>10. tso' = t
  BY Zenon DEF tso_build_hdr, HdrBuilt, p
<1> HIDE DEF n, id
<1>11. AsHdrBuilt(t, tso, size, tso.total - size, id, tso.descs + 1, n)
  <2>1. size \in Nat /\ tso.descs + 1 \in Nat
    BY <1>1, <1>3, <1>6
  <2> QED BY <1>1, <1>6, <1>8, <1>9, <2>1, HdrFields
<1> HIDE DEF t
<1>12. /\ t \in Tsos /\ t.left = size /\ t.total = tso.total - size /\ t.ip_id = id /\ t.descs = tso.descs + 1 /\ t.packets = n
       /\ t.skb = s /\ t.size = tso.size /\ t.data = tso.data /\ t.next_frag_idx = tso.next_frag_idx /\ t.tcp_seq = tso.tcp_seq
  BY <1>11, Zenon DEF AsHdrBuilt
<1>13. InTheSkb(t)
  BY <1>2, <1>12, Zenon DEF InTheSkb, AtByte
<1>14. TsoCounted(t)
  <2>1. tso.total - size + size + tso.data - 1 = P
    BY <1>1, <1>3, <1>5, <1>6
  <2>2. Before(n, Len(n) + 1) = P - (tso.total - size)
    BY <1>1, <1>3, <1>5, <1>6, <1>7, <1>8
  <2>3. t.total + t.left + t.data - 1 = Payload(t.skb)
    BY <1>12, <2>1, Zenon
  <2>4. Before(t.packets, Len(t.packets) + 1) = Payload(t.skb) - t.total
    BY <1>12, <2>2, Zenon
  <2>5. t.tcp_seq = Wrap(t.skb.seq + t.data - 1) /\ t.packets # <<>>
    BY <1>5, <1>8, <1>12, Zenon
  <2>6. ~t.skb.ipv6 => t.ip_id = Wrap(t.skb.id + Len(t.packets))
    BY <1>8, <1>9, <1>12, Zenon
  <2> QED BY <2>3, <2>4, <2>5, <2>6, Zenon DEF TsoCounted
<1>15. SegmentsFull(t)
  <2>1. t.total > 0 => Payload(t.skb) - t.total = Len(t.packets) * t.skb.mss
    BY <1>6, <1>8, <1>12, Zenon
  <2>2. (Len(t.packets) - 1) * t.skb.mss < Payload(t.skb)
    <3>1. Len(t.packets) = k + 1 /\ t.skb.mss = s.mss /\ Payload(t.skb) = P
      BY <1>8, <1>12, Zenon
    <3> QED BY ONLY <1>6, <3>1
  <2> QED BY <2>1, <2>2, Zenon DEF SegmentsFull
<1>16. DescsCounted(t)
  <2> DEFINE d == tso.descs
             i == tso.next_frag_idx
  <2>1. d \in Nat /\ i \in Nat /\ d <= 2 * k + i - 1
    BY <1>1, <1>2, <1>4 DEF DescsCounted
  <2>2. size > 0
    BY <1>3, <1>6
  <2> HIDE DEF d, i, k
  <2>3. d + 1 + 1 <= 2 * (k + 1) + i - 1
    BY <1>1, <2>1
  <2> QED BY <1>8, <1>12, <2>2, <2>3 DEF DescsCounted, d, i
<1>17. BytesIn(t.packets) = FirstBytes(t.data - 1)
  <2> DEFINE b == BytesIn(ps)
  <2>0. tso.data - 1 \in Nat
    <3>1. tso.data >= 1
      BY <1>2, Zenon DEF InTheSkb, AtByte
    <3> QED BY <1>1, <3>1
  <2>1. b \in Seq(Nat)
    BY <1>1, <1>2, <2>0 DEF FirstBytes
  <2>2. BytesIn(n) = b \o <<>>
    BY <1>7, <1>8
  <2> HIDE DEF b
  <2>3. b \o <<>> = b
    BY <2>1
  <2> QED BY <1>2, <1>12, <2>2, <2>3, Zenon DEF b
<1>18. ASSUME NEW i \in DOMAIN t.packets PROVE PacketHolds(t, i)
  <2>1. i \in 1 .. k + 1 /\ Before(n, i) = Before(ps, i)
    BY <1>8, <1>12
  <2>2. CASE i = k + 1
    <3>1. n[i] = p /\ Before(n, i) = P - tso.total
      BY <1>5, <1>8, <2>1, <2>2
    <3>2. p.last <=> Before(n, i) + p.len = P
      BY <1>1, <1>3, <1>6, <1>7, <3>1
    <3>3. p.seq = Wrap(s.seq + Before(n, i))
      <4>1. s.seq + tso.data - 1 = s.seq + (P - tso.total)
        BY <1>1, <1>3, <1>5
      <4> QED BY <1>5, <1>7, <3>1, <4>1
    <3>4. ~s.ipv6 => p.id = Wrap(s.id + i - 1)
      <4>1. s.id + k = s.id + i - 1
        BY <1>1, <1>3, <2>2
      <4> QED BY <1>5, <1>7, <4>1
    <3>5. p.len \in 1 .. s.mss
      BY <1>6, <1>7
    <3> QED BY <1>12, <3>1, <3>2, <3>3, <3>4, <3>5, Zenon DEF PacketHolds
  <2>3. CASE i # k + 1
    <3>1. i \in 1 .. k
      BY <1>1, <2>1, <2>3
    <3>2. n[i] = ps[i] /\ PacketHolds(tso, i)
      BY <1>1, <1>2, <1>8, <3>1
    <3> QED BY <1>12, <2>1, <3>2, Zenon DEF PacketHolds
  <2> QED BY <2>2, <2>3
<1> QED BY <1>10, <1>12, <1>13, <1>14, <1>15, <1>16, <1>17, <1>18, Zenon DEF TsoHolds

LEMMA CountsOn ==
    ASSUME NEW D \in Nat, D >= 1, NEW size \in Nat
    PROVE  FirstBytes(D - 1) \o [i \in 1 .. size |-> D + i - 1] = FirstBytes(D + size - 1)
<1> DEFINE b == [i \in 1 .. D - 1 |-> i]
           c == [i \in 1 .. size |-> D + i - 1]
<1>1. b \in Seq(Int) /\ Len(b) = D - 1 /\ \A i \in 1 .. D - 1 : b[i] = i
  OBVIOUS
<1>2. c \in Seq(Int) /\ Len(c) = size /\ \A i \in 1 .. size : c[i] = D + i - 1
  OBVIOUS
<1> HIDE DEF b, c
<1>3. b \o c \in Seq(Int) /\ Len(b \o c) = Len(b) + Len(c)
  BY <1>1, <1>2, ConcatProperties
<1>4. ASSUME NEW i \in 1 .. D + size - 1 PROVE (b \o c)[i] = i
  <2>0. (b \o c)[i] = IF i <= Len(b) THEN b[i] ELSE c[i - Len(b)]
    BY <1>1, <1>2, ConcatProperties
  <2>1. CASE i <= D - 1
    BY <1>1, <2>0, <2>1
  <2>2. CASE i > D - 1
    <3>1. (b \o c)[i] = c[i - (D - 1)] /\ i - (D - 1) \in 1 .. size
      BY <1>1, <2>0, <2>2
    <3>2. c[i - (D - 1)] = D + (i - (D - 1)) - 1
      BY <1>2, <3>1
    <3> QED BY <3>1, <3>2
  <2>3. i <= D - 1 \/ i > D - 1
    OBVIOUS
  <2> QED BY <2>1, <2>2, <2>3, Zenon
<1>5. Len(b \o c) = D + size - 1
  BY <1>1, <1>2, <1>3
<1> QED BY <1>3, <1>4, <1>5 DEF b, c, FirstBytes
LEMMA DataHolds ==
    ASSUME TsoHolds(tso), NEW size, size = Smaller(tso.size, tso.left), tso_build_data(size)
    PROVE  TsoHolds(tso')
<1> DEFINE s == tso.skb
           ps == tso.packets
           k == Len(ps)
           P == Payload(s)
           c == Chunk(size)
           n == [ps EXCEPT ![Len(ps)] = Longer(ps[Len(ps)], c)]
           seq == Wrap(tso.tcp_seq + size)
           t == DataBuilt(tso, seq, tso.size - size, tso.data + size, tso.left - size, tso.descs + 1, n)
<1>1. /\ tso \in Tsos /\ s \in Skbs /\ ps \in Seq(Packets) /\ k \in Nat /\ tso.data \in Nat /\ tso.descs \in Nat /\ tso.size \in Nat
      /\ tso.total \in Nat /\ tso.left \in Nat /\ tso.next_frag_idx \in Nat /\ tso.tcp_seq \in Int /\ DOMAIN ps = 1 .. k
  BY DEF TsoHolds, Tsos
<1>2. /\ InTheSkb(tso) /\ TsoCounted(tso) /\ SegmentsFull(tso) /\ DescsCounted(tso) /\ BytesIn(ps) = FirstBytes(tso.data - 1)
      /\ \A i \in DOMAIN ps : PacketHolds(tso, i)
  BY DEF TsoHolds
<1>3. P \in Nat /\ s.seq \in Int /\ Len(s.frags) \in Nat
  BY <1>1, WholePayload, NetAssumption, SMTT(60) DEF Skbs, Seqs
<1>4. tso.left > 0 /\ ps # <<>>
  BY <1>2 DEF tso_build_data, TsoCounted
<1>5. /\ tso.total + tso.left + tso.data - 1 = P /\ Before(ps, k + 1) = P - tso.total
      /\ tso.tcp_seq = Wrap(s.seq + tso.data - 1) /\ (~s.ipv6 => tso.ip_id = Wrap(s.id + k))
  BY <1>2, Zenon DEF TsoCounted
<1>6. /\ tso.next_frag_idx \in 1 .. Len(s.frags) + 1 /\ tso.data >= 1
      /\ tso.data - 1 + tso.size = UptoFrag(s, tso.next_frag_idx - 1)
  BY <1>2, Zenon DEF InTheSkb, AtByte
<1>7. size \in Nat /\ size <= tso.size /\ size <= tso.left /\ (size = tso.size \/ size = tso.left)
  BY <1>1 DEF Smaller
<1>8. c \in Seq(Int) /\ Len(c) = size /\ \A i \in 1 .. size : c[i] = tso.data + i - 1
  BY <1>1, <1>7 DEF Chunk
<1> HIDE DEF c
<1>9. AsGrown(n, ps, c)
  BY <1>1, <1>4, <1>8, PacketGrows
<1>10. seq \in Int /\ seq = Wrap(s.seq + (tso.data + size) - 1)
  <2> DEFINE q == s.seq
             d == tso.data
             a == q + d - 1
  <2>1. q \in Int /\ d \in Nat /\ size \in Nat /\ seq = Wrap(Wrap(a) + size)
    BY <1>1, <1>3, <1>5, <1>7
  <2>2. a \in Int /\ a = q + d - 1
    BY <2>1
  <2> HIDE DEF a, q, d, seq
  <2>3. a + size = q + (d + size) - 1 /\ a + size \in Int
    BY <2>1, <2>2
  <2>4. seq \in Int /\ seq = Wrap(a + size)
    BY <2>1, <2>2, <2>3, WrapAdds
  <2> QED BY <2>3, <2>4 DEF q, d
<1>11. Moved(size) = t
  BY <1>1, <1>4, MovedIs, Zenon DEF c
<1> HIDE DEF n, seq
<1>12. /\ n \in Seq(Packets) /\ Len(n) = k /\ n # <<>>
       /\ \A i \in 1 .. k : n[i].seq = ps[i].seq /\ n[i].id = ps[i].id /\ n[i].len = ps[i].len /\ n[i].last = ps[i].last
       /\ \A i \in 1 .. k + 1 : Before(n, i) = Before(ps, i)
       /\ BytesIn(n) = BytesIn(ps) \o c
  BY <1>9, Zenon DEF AsGrown
<1>13. AsDataBuilt(t, tso, seq, tso.size - size, tso.data + size, tso.left - size, tso.descs + 1, n)
  <2>1. tso.size - size \in Nat /\ tso.data + size \in Nat /\ tso.left - size \in Nat /\ tso.descs + 1 \in Nat
    BY <1>1, <1>7, SMTT(60)
  <2> QED BY <1>1, <1>10, <1>12, <2>1, DataFields
<1> HIDE DEF t
<1>14. /\ t \in Tsos /\ t.tcp_seq = seq /\ t.size = tso.size - size /\ t.data = tso.data + size /\ t.left = tso.left - size
       /\ t.descs = tso.descs + 1 /\ t.packets = n
       /\ t.skb = s /\ t.total = tso.total /\ t.next_frag_idx = tso.next_frag_idx /\ t.ip_id = tso.ip_id
  BY <1>13, Zenon DEF AsDataBuilt
<1>15. AtByte(t)
  <2>1. tso.data + size >= 1 /\ tso.data + size - 1 + (tso.size - size) = tso.data - 1 + tso.size
    <3> DEFINE d == tso.data
               z == tso.size
    <3>1. d \in Nat /\ d >= 1 /\ z \in Nat /\ size \in Nat
      BY <1>1, <1>6, <1>7
    <3> HIDE DEF d, z
    <3>2. d + size >= 1 /\ d + size - 1 + (z - size) = d - 1 + z
      BY <3>1
    <3> QED BY <3>2 DEF d, z
  <2>2. t.data >= 1 /\ t.data - 1 + t.size = UptoFrag(s, tso.next_frag_idx - 1)
    <3> DEFINE a == t.data
               b == t.size
               d == tso.data
               z == tso.size
               u == UptoFrag(s, tso.next_frag_idx - 1)
    <3>1. a = d + size /\ b = z - size
      BY <1>14, Zenon
    <3>2. d + size >= 1 /\ d + size - 1 + (z - size) = d - 1 + z /\ d - 1 + z = u
      BY <1>6, <2>1, Zenon
    <3>4. d \in Nat /\ z \in Nat /\ size \in Nat
      BY <1>1, <1>7
    <3> HIDE DEF a, b, d, z, u
    <3>3. a >= 1 /\ a - 1 + b = u
      BY ONLY <3>1, <3>2, <3>4
    <3> QED BY <3>3 DEF a, b, u
  <2> QED BY <1>6, <1>14, <2>2, Zenon DEF AtByte
<1>16. TsoCounted(t)
  <2>1. tso.total + (tso.left - size) + (tso.data + size) - 1 = P
    <3> DEFINE d == tso.data
               l == tso.left
               x == tso.total
    <3>1. d \in Nat /\ l \in Nat /\ x \in Nat /\ size \in Nat /\ x + l + d - 1 = P
      BY <1>1, <1>5, <1>7
    <3> HIDE DEF d, l, x, P
    <3>2. x + (l - size) + (d + size) - 1 = P
      BY <3>1
    <3> QED BY <3>2 DEF d, l, x
  <2>2. Before(n, k + 1) = P - tso.total
    BY <1>1, <1>5, <1>12
  <2>3. t.total + t.left + t.data - 1 = Payload(t.skb)
    BY <1>14, <2>1, Zenon
  <2>4. Before(t.packets, Len(t.packets) + 1) = Payload(t.skb) - t.total
    BY <1>12, <1>14, <2>2, Zenon
  <2>5. t.tcp_seq = Wrap(t.skb.seq + t.data - 1) /\ t.packets # <<>>
    BY <1>10, <1>12, <1>14, Zenon
  <2>6. ~t.skb.ipv6 => t.ip_id = Wrap(t.skb.id + Len(t.packets))
    BY <1>5, <1>12, <1>14, Zenon
  <2> QED BY <2>3, <2>4, <2>5, <2>6, Zenon DEF TsoCounted
<1>17. SegmentsFull(t)
  BY <1>2, <1>4, <1>12, <1>14, Zenon DEF SegmentsFull
<1>18. t.descs + (IF t.left > 0 THEN 1 ELSE 0)
          <= 2 * Len(t.packets) + t.next_frag_idx - 1 + (IF t.size = 0 /\ t.next_frag_idx <= Len(t.skb.frags) THEN 1 ELSE 0)
  <2> DEFINE d == tso.descs
             i == tso.next_frag_idx
             l == tso.left
             z == tso.size
             g == Len(s.frags)
             D == tso.data
             T == tso.total
  <2>1. /\ d \in Nat /\ i \in Nat /\ l \in Nat /\ z \in Nat /\ g \in Nat /\ D \in Nat /\ T \in Nat /\ size \in Nat /\ k \in Nat
        /\ d + 1 <= 2 * k + i - 1 /\ l > 0 /\ (size = z \/ size = l) /\ i <= g + 1 /\ size <= z /\ size <= l
    BY <1>1, <1>2, <1>3, <1>4, <1>6, <1>7 DEF DescsCounted
  <2>2. i = g + 1 => z = T + l
    <3>1. P = UptoFrag(s, g)
      BY <1>1, WholePayload
    <3>2. i = g + 1 => D - 1 + z = P
      <4>1. i = g + 1 => i - 1 = g
        BY <2>1
      <4> QED BY <1>6, <3>1, <4>1, Zenon
    <3>3. T + l + D - 1 = P
      BY <1>5
    <3> HIDE DEF P, i, g, D, T, l, z
    <3> QED BY <1>3, <2>1, <3>2, <3>3
  <2> HIDE DEF d, i, l, z, g, D, T, k
  <2>3. d + 1 + (IF l - size > 0 THEN 1 ELSE 0) <= 2 * k + i - 1 + (IF z - size = 0 /\ i <= g THEN 1 ELSE 0)
    <3>1. CASE i = g + 1
      <4>1. l - size = 0
        BY <2>1, <2>2, <3>1
      <4>2. ~(l - size > 0) /\ ~(i <= g)
        BY <2>1, <3>1, <4>1
      <4> QED BY <2>1, <4>2
    <3>2. CASE i # g + 1 /\ l - size > 0
      BY <2>1, <3>2
    <3>3. CASE i # g + 1 /\ ~(l - size > 0)
      BY <2>1, <3>3
    <3> QED BY <3>1, <3>2, <3>3
  <2>4. Len(t.packets) = k /\ Len(t.skb.frags) = g
    BY <1>12, <1>14, Zenon DEF g, k
  <2> QED BY <1>14, <2>3, <2>4 DEF d, i, l, z
<1>19. BytesIn(t.packets) = FirstBytes(t.data - 1)
  <2>1. FirstBytes(tso.data - 1) \o Chunk(size) = FirstBytes(tso.data + size - 1)
    <3> DEFINE D == tso.data
    <3>1. D \in Nat /\ D >= 1
      BY <1>1, <1>6
    <3>2. Chunk(size) = [i \in 1 .. size |-> D + i - 1]
      BY Zenon DEF Chunk
    <3> HIDE DEF D
    <3>3. FirstBytes(D - 1) \o [i \in 1 .. size |-> D + i - 1] = FirstBytes(D + size - 1)
      BY <1>7, <3>1, CountsOn, Zenon
    <3> QED BY <3>2, <3>3, Zenon DEF D
  <2>2. BytesIn(n) = FirstBytes(tso.data + size - 1)
    BY <1>2, <1>12, <2>1, Zenon DEF c
  <2>3. t.packets = n /\ t.data = tso.data + size
    BY <1>14, Zenon
  <2>4. t.data - 1 = tso.data + size - 1
    <3> DEFINE a == t.data
               d == tso.data
    <3>1. d \in Nat /\ size \in Nat /\ a = d + size
      BY <1>1, <1>7, <2>3
    <3> HIDE DEF a, d
    <3>2. a - 1 = d + size - 1
      BY ONLY <3>1
    <3> QED BY <3>2 DEF a, d
  <2> QED BY ONLY <2>2, <2>3, <2>4, Zenon
<1>20. ASSUME NEW i \in DOMAIN t.packets PROVE PacketHolds(t, i)
  <2>1. i \in 1 .. k /\ i \in 1 .. k + 1
    BY <1>1, <1>12, <1>14
  <2>2. PacketHolds(tso, i) /\ Before(n, i) = Before(ps, i)
    BY <1>1, <1>2, <1>12, <2>1
  <2>3. n[i].seq = ps[i].seq /\ n[i].id = ps[i].id /\ n[i].len = ps[i].len /\ n[i].last = ps[i].last
    BY <1>12, <2>1
  <2> QED BY <1>14, <2>2, <2>3, Zenon DEF PacketHolds
<1>21. AtPiece(t)
  BY <1>14, <1>15, <1>16, <1>17, <1>18, <1>19, <1>20, Zenon DEF AtPiece
<1>22. tso' = NextFrag(t)
  BY <1>11, Zenon DEF tso_build_data
<1> QED BY <1>21, <1>22, NextFragHolds, Zenon

\* Segmentation sends every byte.
LEMMA TsoSteps == ASSUME TsoHolds(tso), TsoNext PROVE TsoHolds(tso')
<1>1. CASE LET size == Smaller(tso.skb.mss, tso.total) IN tso_build_hdr(size, size = tso.total)
  BY <1>1, HdrHolds, Zenon
<1>2. CASE tso_build_data(Smaller(tso.size, tso.left))
  BY <1>2, DataHolds, Zenon
<1> QED BY <1>1, <1>2 DEF TsoNext
LEMMA TsoInits == ASSUME TsoInit PROVE TsoHolds(tso)
<1>1. PICK head \in 0 .. MaxHead, frags \in SeqOf(1 .. MaxFrag, MaxFrags), mss \in 1 .. MaxMss, seq \in {0, 2 ^ NumBits - 2}, ipv6 \in BOOLEAN :
        tso = tso_start([head |-> head, frags |-> frags, mss |-> mss, seq |-> seq, id |-> seq, ipv6 |-> ipv6])
  BY DEF TsoInit
<1> DEFINE s == [head |-> head, frags |-> frags, mss |-> mss, seq |-> seq, id |-> seq, ipv6 |-> ipv6]
<1>2. head \in Nat /\ mss \in Nat \ {0}
  BY NetAssumption
<1>3. frags \in Seq(Nat \ {0})
  <2>1. PICK j \in 0 .. MaxFrags : frags \in [1 .. j -> 1 .. MaxFrag]
    BY DEF SeqOf
  <2>2. frags \in [1 .. j -> Nat \ {0}] /\ j \in Nat
    BY <2>1, NetAssumption
  <2> QED BY <2>2
<1>4. seq \in Seqs
  <2> DEFINE m == 2 ^ NumBits
  <2>1. m \in Nat \ {0, 1} /\ seq \in {0, m - 2} /\ Seqs = 0 .. m - 1
    BY NetAssumption DEF Seqs
  <2> HIDE DEF m
  <2> QED BY <2>1
<1>5. s \in Skbs
  BY <1>2, <1>3, <1>4 DEF Skbs
<1> QED BY <1>1, <1>5, TsoStarts

-----------------------------------------------------------------------------
(* Scatterlists.  The bytes of a list have numbers, and each sequence of   *)
(* addresses is a piece of them.                                           *)
Adr == Nat \X Nat
Entry == [offset : 0 .. PageSize - 1, length : Nat]
\* Bytes that the first i entries hold.
LengthsOf(list, n) == [j \in 1 .. n |-> list[j].length]
LengthUpto(list, i) == Total(LengthsOf(list, i))
LEMMA HeldAdds ==
    ASSUME NEW list \in Seq(Entry), NEW i \in Nat, i < Len(list)
    PROVE  LengthUpto(list, i + 1) = LengthUpto(list, i) + list[i + 1].length /\ LengthUpto(list, i) \in Nat /\ list[i + 1].length \in Nat
<1>1. \A j \in 1 .. Len(list) : list[j] \in Entry
  BY ElementOfSeq
<1>2. \A j \in 1 .. Len(list) : list[j].length \in Nat
  BY <1>1 DEF Entry
<1> DEFINE s == LengthsOf(list, i)
           x == list[i + 1].length
<1>3. Len(list) \in Nat /\ i + 1 \in 1 .. Len(list)
  OBVIOUS
<1>4. s \in Seq(Nat) /\ x \in Nat /\ Len(s) = i
  BY <1>2, <1>3 DEF LengthsOf
<1>5. LengthsOf(list, i + 1) = Append(s, x)
  BY <1>2, <1>3 DEF LengthsOf
<1> HIDE DEF s, x
<1>6. Total(Append(s, x)) = Total(s) + x /\ Total(s) \in Nat
  BY <1>4, TotalAppend, TotalNat
<1> QED BY <1>4, <1>5, <1>6 DEF LengthUpto, s, x
LEMMA HeldNone == ASSUME NEW list PROVE LengthUpto(list, 0) = 0
<1>1. LengthsOf(list, 0) = <<>>
  BY DEF LengthsOf
<1> QED BY <1>1, TotalEmpty DEF LengthUpto
LEMMA HeldNat == ASSUME NEW list \in Seq(Entry), NEW i \in 0 .. Len(list) PROVE LengthUpto(list, i) \in Nat
<1>1. CASE i = 0
  BY <1>1, HeldNone
<1>2. CASE i # 0
  <2>1. i - 1 \in Nat /\ i - 1 < Len(list) /\ i - 1 + 1 = i
    BY <1>2
  <2> DEFINE k == i - 1
  <2>2. k \in Nat /\ k < Len(list) /\ k + 1 = i
    BY <2>1
  <2> HIDE DEF k
  <2>3. LengthUpto(list, k + 1) = LengthUpto(list, k) + list[k + 1].length /\ LengthUpto(list, k) \in Nat /\ list[k + 1].length \in Nat
    BY <2>2, HeldAdds
  <2> DEFINE a == LengthUpto(list, k)
             b == list[k + 1].length
  <2>4. LengthUpto(list, i) = a + b /\ a \in Nat /\ b \in Nat
    BY <2>2, <2>3
  <2> HIDE DEF a, b
  <2> QED BY <2>4
<1> QED BY <1>1, <1>2

\* A part of a sequence, by its elements.
LEMMA Part ==
    ASSUME NEW V, NEW s \in Seq(V), NEW a \in Nat, NEW b \in Nat, a <= b, b <= Len(s)
    PROVE  /\ SubSeq(s, a + 1, b) \in Seq(V) /\ Len(SubSeq(s, a + 1, b)) = b - a
           /\ \A j \in 1 .. b - a : SubSeq(s, a + 1, b)[j] = s[a + j]
OBVIOUS
LEMMA IsPart ==
    ASSUME NEW V, NEW s \in Seq(V), NEW a \in Nat, NEW b \in Nat, a <= b, b <= Len(s),
           NEW t \in Seq(V), Len(t) = b - a, \A j \in 1 .. b - a : t[j] = s[a + j]
    PROVE  t = SubSeq(s, a + 1, b)
<1> DEFINE u == SubSeq(s, a + 1, b)
<1>1. u \in Seq(V) /\ Len(u) = b - a /\ \A j \in 1 .. b - a : u[j] = s[a + j]
  BY Part
<1> HIDE DEF u
<1>2. t = u
  BY <1>1, SeqEqual
<1> QED BY <1>2 DEF u
LEMMA PartsJoin ==
    ASSUME NEW V, NEW s \in Seq(V), NEW a \in Nat, NEW b \in Nat, NEW c \in Nat, a <= b, b <= c, c <= Len(s)
    PROVE  SubSeq(s, a + 1, b) \o SubSeq(s, b + 1, c) = SubSeq(s, a + 1, c)
<1> DEFINE t == SubSeq(s, a + 1, b)
           u == SubSeq(s, b + 1, c)
<1>1. /\ t \in Seq(V) /\ Len(t) = b - a /\ \A j \in 1 .. b - a : t[j] = s[a + j]
      /\ u \in Seq(V) /\ Len(u) = c - b /\ \A j \in 1 .. c - b : u[j] = s[b + j]
  BY Part
<1> HIDE DEF t, u
<1>2. t \o u \in Seq(V) /\ Len(t \o u) = Len(t) + Len(u)
  BY <1>1, ConcatProperties
<1>3. ASSUME NEW j \in 1 .. c - a PROVE (t \o u)[j] = s[a + j]
  <2>1. (t \o u)[j] = IF j <= Len(t) THEN t[j] ELSE u[j - Len(t)]
    BY <1>1, ConcatProperties
  <2>2. CASE j <= b - a
    BY <1>1, <2>1, <2>2
  <2>3. CASE j > b - a
    <3>1. j - (b - a) \in 1 .. c - b /\ b + (j - (b - a)) = a + j
      BY <2>3
    <3>2. (t \o u)[j] = u[j - (b - a)]
      BY <1>1, <2>1, <2>3
    <3> QED BY <1>1, <3>1, <3>2
  <2>4. j <= b - a \/ j > b - a
    OBVIOUS
  <2> QED BY <2>2, <2>3, <2>4, Zenon
<1>4. Len(t \o u) = c - a
  BY <1>1, <1>2
<1>5. a <= c
  OBVIOUS
<1>6. t \o u = SubSeq(s, a + 1, c)
  <2> DEFINE w == t \o u
  <2>1. w \in Seq(V) /\ Len(w) = c - a /\ \A j \in 1 .. c - a : w[j] = s[a + j]
    BY <1>2, <1>3, <1>4
  <2> HIDE DEF w
  <2>2. w = SubSeq(s, a + 1, c)
    BY <1>5, <2>1, IsPart
  <2> QED BY <2>2 DEF w
<1> QED BY <1>6 DEF t, u
LEMMA PartEmpty == ASSUME NEW V, NEW s \in Seq(V), NEW a \in Nat, NEW b \in Nat, b <= a PROVE SubSeq(s, a + 1, b) = <<>>
BY SubSeqEmpty
LEMMA PartWhole == ASSUME NEW V, NEW s \in Seq(V) PROVE SubSeq(s, 1, Len(s)) = s
BY SubSeqFull
LEMMA MappedIs ==
    ASSUME NEW i \in Nat, NEW a \in Nat, NEW len \in Nat
    PROVE  /\ Mapped(<<i, a>>, len) \in Seq(Adr) /\ Len(Mapped(<<i, a>>, len)) = len
           /\ \A j \in 1 .. len : Mapped(<<i, a>>, len)[j] = <<i, a + j - 1>>
<1>1. Mapped(<<i, a>>, len) = [j \in 1 .. len |-> <<i, a + j - 1>>]
  BY DEF Mapped
<1>2. \A j \in 1 .. len : <<i, a + j - 1>> \in Adr
  BY DEF Adr
<1> DEFINE f == Mapped(<<i, a>>, len)
<1>3. f \in [1 .. len -> Adr] /\ \A j \in 1 .. len : f[j] = <<i, a + j - 1>>
  BY <1>1, <1>2
<1> HIDE DEF f
<1>4. f \in Seq(Adr) /\ Len(f) = len
  BY <1>3
<1> QED BY <1>3, <1>4 DEF f

EntryOk(list, i) == list[i].offset \in Nat /\ list[i].offset < PageSize /\ list[i].length \in Nat
LEMMA Entries1 == ASSUME NEW list \in Seq(Entry), NEW i \in 1 .. Len(list) PROVE EntryOk(list, i)
<1>1. list[i] \in Entry
  BY ElementOfSeq
<1> QED BY <1>1, ScatterAssumption DEF Entry, EntryOk
BytesAt(list, i) == Mapped(<<i, list[i].offset>>, list[i].length)
PiecesOf(list, n) == [i \in 1 .. n |-> BytesAt(list, i)]
AllUpto(list, n) == FlattenSeq(PiecesOf(list, n))
LEMMA AllAdds ==
    ASSUME NEW list \in Seq(Entry), NEW n \in Nat, n < Len(list)
    PROVE  AllUpto(list, n + 1) = AllUpto(list, n) \o BytesAt(list, n + 1) /\ BytesAt(list, n + 1) \in Seq(Adr)
<1>1. ASSUME NEW i \in 1 .. n + 1 PROVE BytesAt(list, i) \in Seq(Adr)
  <2>1. i \in 1 .. Len(list) /\ i \in Nat
    OBVIOUS
  <2>2. EntryOk(list, i)
    BY <2>1, Entries1
  <2> QED BY <2>1, <2>2, MappedIs DEF EntryOk, BytesAt
<1> DEFINE ss == PiecesOf(list, n)
           x == BytesAt(list, n + 1)
<1>2. ss \in Seq(Seq(Adr)) /\ Len(ss) = n /\ x \in Seq(Adr)
  BY <1>1 DEF PiecesOf
<1>3. PiecesOf(list, n + 1) = Append(ss, x)
  BY <1>1 DEF PiecesOf
<1> HIDE DEF ss, x
<1>4. FlattenSeq(Append(ss, x)) = FlattenSeq(ss) \o x
  BY <1>2, FlattenAppend
<1> QED BY <1>2, <1>3, <1>4 DEF AllUpto, ss, x
Numbered(list, n) ==
    /\ AllUpto(list, n) \in Seq(Adr) /\ Len(AllUpto(list, n)) = LengthUpto(list, n)
    /\ \A i \in 1 .. n : /\ LengthUpto(list, i) <= LengthUpto(list, n)
                         /\ \A j \in 1 .. list[i].length : AllUpto(list, n)[LengthUpto(list, i - 1) + j] = <<i, list[i].offset + j - 1>>
LEMMA NumberedNone == ASSUME NEW list PROVE Numbered(list, 0)
<1>1. PiecesOf(list, 0) = <<>>
  BY DEF PiecesOf
<1>2. AllUpto(list, 0) = <<>>
  BY <1>1, FlattenEmpty DEF AllUpto
<1>3. <<>> \in Seq(Adr) /\ Len(<<>>) = 0 /\ 1 .. 0 = {}
  OBVIOUS
<1> QED BY <1>2, <1>3, HeldNone DEF Numbered
LEMMA NumberedAdds ==
    ASSUME NEW list \in Seq(Entry), NEW n \in Nat, n < Len(list), Numbered(list, n)
    PROVE  Numbered(list, n + 1)
<1> DEFINE k == n + 1
           s == AllUpto(list, n)
           x == BytesAt(list, k)
           t == AllUpto(list, k)
           h == LengthUpto(list, n)
           l == list[k].length
           o == list[k].offset
<1>1. k \in 1 .. Len(list) /\ k \in Nat /\ n \in Nat
  OBVIOUS
<1>2. EntryOk(list, k)
  BY <1>1, Entries1
<1>3. /\ o \in Nat /\ l \in Nat /\ x \in Seq(Adr) /\ Len(x) = l
      /\ \A j \in 1 .. l : x[j] = <<k, o + j - 1>>
  BY <1>1, <1>2, MappedIs, ZenonT(60) DEF EntryOk, BytesAt
<1>4. LengthUpto(list, k) = h + l /\ h \in Nat
  BY HeldAdds
<1>5. t = s \o x /\ s \in Seq(Adr) /\ Len(s) = h
  BY AllAdds DEF Numbered
<1> HIDE DEF s, x, t, h, l, o, k
<1>6. t \in Seq(Adr) /\ Len(t) = h + l
  BY <1>3, <1>4, <1>5, ConcatProperties
<1>7. \A j \in 1 .. h + l : t[j] = IF j <= h THEN s[j] ELSE x[j - h]
  BY <1>3, <1>4, <1>5, ConcatProperties
<1>8. ASSUME NEW i \in 1 .. k
      PROVE  /\ LengthUpto(list, i) <= LengthUpto(list, k)
             /\ \A j \in 1 .. list[i].length : t[LengthUpto(list, i - 1) + j] = <<i, list[i].offset + j - 1>>
  <2>1. CASE i = k
    <3>0. i - 1 = n
      BY <1>1, <2>1 DEF k
    <3>1. LengthUpto(list, i - 1) = h /\ list[i].length = l /\ list[i].offset = o
      BY <2>1, <3>0, Zenon DEF h, l, o
    <3>2. ASSUME NEW j \in 1 .. l PROVE t[h + j] = <<k, o + j - 1>>
      <4>1. h + j \in 1 .. h + l /\ ~(h + j <= h) /\ h + j - h = j
        BY <1>3, <1>4
      <4> DEFINE q == h + j
      <4>2. q \in 1 .. h + l /\ ~(q <= h) /\ q - h = j
        BY <1>3, <1>4, <4>1
      <4> HIDE DEF q
      <4>3. t[q] = x[q - h]
        BY <1>7, <4>2
      <4> QED BY <1>3, <4>2, <4>3 DEF q
    <3>3. \A j \in 1 .. list[i].length : t[LengthUpto(list, i - 1) + j] = <<i, list[i].offset + j - 1>>
      BY ONLY <2>1, <3>1, <3>2, Zenon
    <3>4. h + l \in Int /\ h + l <= h + l
      BY <1>3, <1>4
    <3> QED BY <1>4, <2>1, <3>3, <3>4, Zenon
  <2>2. CASE i # k
    <3>1. i \in 1 .. n /\ i - 1 \in Nat /\ i - 1 < Len(list) /\ i - 1 + 1 = i
      BY <1>1, <2>2 DEF k
    <3>2. /\ LengthUpto(list, i) <= h
          /\ \A j \in 1 .. list[i].length : s[LengthUpto(list, i - 1) + j] = <<i, list[i].offset + j - 1>>
      BY <3>1 DEF Numbered, s, h
    <3> DEFINE q == i - 1
    <3>3. q \in Nat /\ q < Len(list) /\ q + 1 = i
      BY <3>1
    <3> HIDE DEF q
    <3>4. LengthUpto(list, q + 1) = LengthUpto(list, q) + list[q + 1].length /\ LengthUpto(list, q) \in Nat /\ list[q + 1].length \in Nat
      BY <3>3, HeldAdds
    <3> DEFINE g == LengthUpto(list, i - 1)
               m == list[i].length
               H == LengthUpto(list, i)
    <3>5. H = g + m /\ g \in Nat /\ m \in Nat /\ H <= h
      <4>1. q = i - 1 /\ q + 1 = i
        BY <3>3 DEF q
      <4> QED BY <3>2, <3>4, <4>1, Zenon
    <3> HIDE DEF g, m, H
    <3>6. H <= h + l /\ \A j \in 1 .. m : g + j \in 1 .. h + l /\ g + j <= h
      BY <1>3, <1>4, <3>5
    <3>7. \A j \in 1 .. m : t[g + j] = s[g + j]
      BY <1>7, <3>6
    <3>8. \A j \in 1 .. list[i].length : t[LengthUpto(list, i - 1) + j] = <<i, list[i].offset + j - 1>>
      BY <3>2, <3>7, Zenon DEF g, m
    <3> QED BY <1>4, <3>6, <3>8, Zenon DEF H
  <2> QED BY <2>1, <2>2
<1>9. Len(t) = LengthUpto(list, k)
  BY <1>4, <1>6
<1>10. Numbered(list, k)
  BY <1>6, <1>8, <1>9, Zenon DEF Numbered, t
<1> QED BY <1>10 DEF k
LEMMA AllNumbered == ASSUME NEW list \in Seq(Entry), NEW n \in 0 .. Len(list) PROVE Numbered(list, n)
<1> DEFINE T == {i \in Nat : i <= Len(list) => Numbered(list, i)}
<1>1. 0 \in T
  BY NumberedNone
<1>2. ASSUME NEW i \in Nat, i \in T PROVE i + 1 \in T
  <2> SUFFICES ASSUME i + 1 <= Len(list) PROVE Numbered(list, i + 1)
    OBVIOUS
  <2>1. i < Len(list) /\ Numbered(list, i)
    BY <1>2
  <2> QED BY <2>1, NumberedAdds
<1>3. Nat \subseteq T
  <2> HIDE DEF T
  <2> QED BY <1>1, <1>2, Inductive
<1>4. n \in T
  BY <1>3
<1> QED BY <1>4

\* The bytes that nents entries hold.
NamedUpto(list, nents) == Smallest(nents, Len(list))
LEMMA AllBytesIs ==
    ASSUME NEW list \in Seq(Entry), NEW nents \in Nat
    PROVE  /\ NamedUpto(list, nents) \in 0 .. Len(list) /\ AllBytes(list, nents) = AllUpto(list, NamedUpto(list, nents))
           /\ AllBytes(list, nents) \in Seq(Adr) /\ Len(AllBytes(list, nents)) = LengthUpto(list, NamedUpto(list, nents))
<1>1. NamedUpto(list, nents) \in 0 .. Len(list)
  BY DEF NamedUpto, Smallest
<1>2. AllBytes(list, nents) = AllUpto(list, NamedUpto(list, nents))
  BY Zenon DEF AllBytes, AllUpto, PiecesOf, BytesAt, NamedUpto
<1> QED BY <1>1, <1>2, AllNumbered DEF Numbered
\* A mapping within an entry is a part of them.
MappingPartAt(list, nents, i, a, len, pos) ==
    /\ pos \in Nat /\ pos + len <= Len(AllBytes(list, nents))
    /\ Mapped(<<i, a>>, len) = SubSeq(AllBytes(list, nents), pos + 1, pos + len)
LEMMA MappingIsPart ==
    ASSUME NEW list \in Seq(Entry), NEW nents \in Nat, NEW i \in 1 .. NamedUpto(list, nents), NEW a \in Nat, NEW len \in Nat,
           list[i].offset <= a, a + len <= list[i].offset + list[i].length,
           NEW pos, pos = LengthUpto(list, i - 1) + a - list[i].offset
    PROVE  MappingPartAt(list, nents, i, a, len, pos)
<1> DEFINE n == NamedUpto(list, nents)
           s == AllBytes(list, nents)
           t == Mapped(<<i, a>>, len)
           o == list[i].offset
           l == list[i].length
           g == LengthUpto(list, i - 1)
           h == LengthUpto(list, n)
<1>1. n \in 0 .. Len(list) /\ s = AllUpto(list, n) /\ s \in Seq(Adr) /\ Len(s) = h
  BY AllBytesIs
<1>2. i \in 1 .. Len(list) /\ i \in Nat /\ i - 1 \in Nat /\ i - 1 < Len(list) /\ i - 1 + 1 = i
  BY <1>1
<1>3. Numbered(list, n)
  BY <1>1, AllNumbered
<1>4. LengthUpto(list, i) <= h /\ \A j \in 1 .. l : s[g + j] = <<i, o + j - 1>>
  BY <1>1, <1>3, Zenon DEF Numbered
<1>5. o \in Nat /\ l \in Nat
  BY <1>2, Entries1 DEF EntryOk
<1>6. LengthUpto(list, i) = g + l /\ g \in Nat
  <2> DEFINE q == i - 1
  <2>1. q \in Nat /\ q < Len(list) /\ q + 1 = i
    BY <1>2
  <2> HIDE DEF q
  <2>2. LengthUpto(list, q + 1) = LengthUpto(list, q) + list[q + 1].length /\ LengthUpto(list, q) \in Nat
    BY <2>1, HeldAdds
  <2>3. q = i - 1
    BY DEF q
  <2> QED BY <2>1, <2>2, <2>3, Zenon
<1>7. t \in Seq(Adr) /\ Len(t) = len /\ \A j \in 1 .. len : t[j] = <<i, a + j - 1>>
  BY <1>2, MappedIs
<1>8. h \in Nat
  BY <1>1, HeldNat
<1>9. pos = g + a - o /\ o <= a /\ a + len <= o + l
  OBVIOUS
<1> HIDE DEF n, s, t, o, l, g, h
<1>10. pos \in Nat /\ pos + len <= h
  <2> DEFINE H == LengthUpto(list, i)
  <2>1. H = g + l /\ H <= h
    BY <1>4, <1>6
  <2> HIDE DEF H
  <2> QED BY <1>5, <1>6, <1>8, <1>9, <2>1
<1>11. ASSUME NEW j \in 1 .. len PROVE t[j] = s[pos + j]
  <2> DEFINE k == a - o + j
  <2>1. k \in 1 .. l /\ pos + j = g + k /\ o + k - 1 = a + j - 1
    <3>1. a \in Nat /\ len \in Nat /\ j \in Nat /\ 1 <= j /\ j <= len
      OBVIOUS
    <3>2. k = a - o + j /\ k \in Int
      BY ONLY <1>5, <3>1
    <3> HIDE DEF k
    <3>3. 1 <= k /\ k <= l
      BY ONLY <1>5, <1>9, <3>1, <3>2
    <3> QED BY ONLY <1>5, <1>6, <1>9, <3>1, <3>2, <3>3
  <2>2. s[g + k] = <<i, o + k - 1>>
    BY <1>4, <2>1
  <2> QED BY <1>7, <2>1, <2>2
<1>12. t = SubSeq(s, pos + 1, pos + len)
  <2>1. pos <= pos + len /\ pos + len <= Len(s) /\ pos + len - pos = len /\ pos + len \in Nat
    BY <1>1, <1>10
  <2> DEFINE b == pos + len
  <2>2. pos <= b /\ b <= Len(s) /\ b - pos = len /\ b \in Nat
    BY <2>1
  <2> HIDE DEF b
  <2>3. t = SubSeq(s, pos + 1, b)
    <3>1. s \in Seq(Adr) /\ pos \in Nat /\ t \in Seq(Adr) /\ Len(t) = b - pos
      BY <1>1, <1>7, <1>10, <2>2
    <3>2. \A j \in 1 .. b - pos : t[j] = s[pos + j]
      BY <1>11, <2>2
    <3> QED BY ONLY <2>2, <3>1, <3>2, IsPart
  <2> QED BY <2>3 DEF b
<1> QED BY <1>1, <1>10, <1>12 DEF s, t, h, MappingPartAt
PartAt(all, pos, adr, k) == pos \in Nat /\ pos + k <= Len(all) /\ Mapped(adr, k) = SubSeq(all, pos + 1, pos + k)
LEMMA MappingPart ==
    ASSUME NEW list \in Seq(Entry), NEW n \in Nat, NEW i \in 1 .. NamedUpto(list, n), NEW a \in Nat, NEW len \in Nat,
           list[i].offset <= a, a + len <= list[i].offset + list[i].length,
           NEW pos, pos = LengthUpto(list, i - 1) + a - list[i].offset, NEW all, all = AllBytes(list, n), NEW adr, adr = <<i, a>>
    PROVE  PartAt(all, pos, adr, len)
<1>1. MappingPartAt(list, n, i, a, len, pos)
  BY MappingIsPart, Zenon
<1> QED BY <1>1, Zenon DEF MappingPartAt, PartAt

\* Where a page of an entry starts, within the entry's pages; the one behind
\* the last is where the entry ends.
EndOf(e) == e.offset + e.length
PageStart(e, p) == IF p = 0 THEN e.offset ELSE Smallest(EndOf(e), p * PageSize)
LEMMA PageCount ==
    ASSUME NEW e, e.offset \in Nat, e.offset < PageSize, e.length \in Nat
    PROVE  /\ sg_page_count(e) \in Nat
           /\ EndOf(e) <= sg_page_count(e) * PageSize /\ sg_page_count(e) * PageSize < EndOf(e) + PageSize
<1> DEFINE o == e.offset
           l == e.length
           m == PageSize
           a == o + l + m - 1
           q == a \div m
           r == a % m
<1>1. m \in Nat \ {0} /\ o \in Nat /\ l \in Nat
  BY ScatterAssumption
<1>0. sg_page_count(e) = q /\ EndOf(e) = o + l
  BY DEF sg_page_count, EndOf
<1> HIDE DEF o, l, m
<1>2. a \in Nat /\ a = o + l + m - 1
  BY <1>1
<1> HIDE DEF a
<1>3. q \in Int /\ r \in 0 .. m - 1 /\ a = m * q + r
  BY <1>1, <1>2, Divided
<1> HIDE DEF q, r
<1>4. q \in Nat
  <2>1. q >= 0
    <3> SUFFICES ASSUME q < 0 PROVE FALSE
      BY <1>3
    <3>1. m * q <= m * (0 - 1)
      BY <1>1, <1>3
    <3> QED BY <1>1, <1>2, <1>3, <3>1
  <2> QED BY <1>3, <2>1
<1> DEFINE x == q * m
<1>5. x \in Int /\ x = m * q
  BY <1>1, <1>3
<1> HIDE DEF x
<1>6. o + l <= x /\ x < o + l + m
  BY <1>1, <1>2, <1>3, <1>5
<1> QED BY <1>0, <1>4, <1>6 DEF x, m
LEMMA PageStarts ==
    ASSUME NEW e, e.offset \in Nat, e.offset < PageSize, e.length \in Nat, NEW p \in Nat, p <= sg_page_count(e)
    PROVE  /\ PageStart(e, p) \in Nat /\ e.offset <= PageStart(e, p) /\ PageStart(e, p) <= EndOf(e) /\ PageStart(e, 0) = e.offset
           /\ p = sg_page_count(e) => PageStart(e, p) = EndOf(e)
           /\ p # 0 /\ p < sg_page_count(e) => PageStart(e, p) = p * PageSize
<1> DEFINE o == e.offset
           l == e.length
           m == PageSize
           q == sg_page_count(e)
           x == q * m
           y == p * m
<1>1. m \in Nat \ {0} /\ o \in Nat /\ l \in Nat /\ o < m
  BY ScatterAssumption
<1>2. q \in Nat /\ o + l <= x /\ x < o + l + m
  BY PageCount DEF EndOf
<1>3. PageStart(e, p) = (IF p = 0 THEN o ELSE IF o + l < y THEN o + l ELSE y) /\ EndOf(e) = o + l /\ PageStart(e, 0) = o
  BY DEF PageStart, EndOf, Smallest
<1>4. p <= q
  OBVIOUS
<1> HIDE DEF o, l, m, q
<1>5. x \in Nat /\ y \in Nat /\ (p = q => x = y) /\ (p = 0 => y = 0) /\ (p # 0 => m <= y)
  <2>1. x \in Nat /\ y \in Nat /\ (p = 0 => y = 0)
    BY <1>1, <1>2
  <2>2. p # 0 => m <= y
    <3> SUFFICES ASSUME p # 0 PROVE m <= p * m
      OBVIOUS
    <3>1. m * 1 <= m * p
      BY <1>1
    <3> QED BY <1>1, <3>1
  <2> QED BY <2>1, <2>2
<1>6. p < q => y + m <= x
  <2> SUFFICES ASSUME p < q PROVE p * m + m <= q * m
    OBVIOUS
  <2>1. m * (p + 1) <= m * q
    BY <1>1, <1>2
  <2>2. m * (p + 1) = p * m + m /\ m * q = q * m
    BY <1>1, <1>2
  <2> QED BY <2>1, <2>2
<1> HIDE DEF x, y
<1>7. p # 0 /\ p < q => y < o + l /\ PageStart(e, p) = y
  BY <1>1, <1>2, <1>3, <1>5, <1>6
<1>8. p = q => PageStart(e, p) = o + l
  BY <1>1, <1>2, <1>3, <1>5
<1>9. PageStart(e, p) \in Nat /\ o <= PageStart(e, p) /\ PageStart(e, p) <= o + l
  BY <1>1, <1>3, <1>5
<1> QED BY <1>3, <1>7, <1>8, <1>9 DEF q, y, m, o
\* What sg_miter_get_next_page() finds on a page.
PageOffset(e, p) == IF p # 0 THEN 0 ELSE e.offset
PageRemaining(e, p) == Smallest(e.offset + e.length - p * PageSize - PageOffset(e, p), PageSize - PageOffset(e, p))
LEMMA FreshPage ==
    ASSUME NEW e, e.offset \in Nat, e.offset < PageSize, e.length \in Nat, NEW p \in Nat, p < sg_page_count(e)
    PROVE  /\ PageOffset(e, p) \in Nat /\ PageRemaining(e, p) \in Nat
           /\ PageOffset(e, p) + PageRemaining(e, p) <= PageSize
           /\ e.offset <= p * PageSize + PageOffset(e, p) /\ p * PageSize \in Nat
           /\ p * PageSize + PageOffset(e, p) = PageStart(e, p)
           /\ p * PageSize + PageOffset(e, p) + PageRemaining(e, p) = PageStart(e, p + 1)
<1> DEFINE o == e.offset
           l == e.length
           m == PageSize
           q == sg_page_count(e)
           y == p * m
           z == (p + 1) * m
           f == PageOffset(e, p)
           r == PageRemaining(e, p)
           s == PageStart(e, p)
           t == PageStart(e, p + 1)
<1>1. m \in Nat \ {0} /\ o \in Nat /\ l \in Nat /\ o < m
  BY ScatterAssumption
<1>2. q \in Nat
  BY PageCount
<1>3. s \in Nat /\ o <= s /\ s <= o + l /\ (p # 0 => s = y) /\ (p = 0 => s = o)
  BY <1>2, PageStarts DEF EndOf
<1>4. t = IF o + l < z THEN o + l ELSE z
  BY DEF PageStart, EndOf, Smallest
<1> DEFINE g == o + (l - y - f)
<1>5. f = IF p # 0 THEN 0 ELSE o
  BY DEF PageOffset
<1>9. r = Smallest(g, m - f)
  BY Zenon DEF PageRemaining
<1>10. g = o + (l - y - f)
  OBVIOUS
<1>6. y \in Nat /\ z = y + m /\ (p = 0 => y = 0)
  <2> HIDE DEF m
  <2> QED BY <1>1
<1> HIDE DEF o, l, m, q, y, z, f, r, s, t, g
<1>7. f \in Nat /\ y + f = s /\ f < m
  BY <1>1, <1>3, <1>5, <1>6
<1>11. r = IF g < m - f THEN g ELSE m - f
  BY <1>9, Zenon DEF Smallest
<1>8. r \in Nat /\ f + r <= m /\ y + f + r = t
  <2>1. CASE g < m - f
    <3>1. o + l < z /\ r = o + l - y - f
      BY <1>1, <1>6, <1>7, <1>10, <1>11, <2>1
    <3> QED BY <1>1, <1>3, <1>4, <1>6, <1>7, <1>10, <2>1, <3>1
  <2>2. CASE ~(g < m - f)
    <3>1. ~(o + l < z) /\ r = m - f
      BY <1>1, <1>6, <1>7, <1>10, <1>11, <2>2
    <3> QED BY <1>1, <1>3, <1>4, <1>6, <1>7, <1>10, <2>2, <3>1
  <2> QED BY <2>1, <2>2
<1> QED BY <1>3, <1>6, <1>7, <1>8 DEF o, m, y, f, r, s, t

\* The search for the next page.
Miters == [i : Nat, sg_pgoffset : Nat, pg_advance : {0, 1}, nents : Nat, offset : Nat, remaining : Nat, addr : Seq(Nat),
           length : Nat, consumed : Nat, more : BOOLEAN]
SamePage(r, m) == /\ r.offset = m.offset /\ r.remaining = m.remaining /\ r.addr = m.addr /\ r.length = m.length
                  /\ r.consumed = m.consumed
PageSet(m, p) == [m EXCEPT !.sg_pgoffset = p, !.pg_advance = 1]
AsSet(r, m, p, adv, i, n, b) ==
    /\ r \in Miters /\ SamePage(r, m) /\ r.sg_pgoffset = p /\ r.pg_advance = adv /\ r.i = i /\ r.nents = n /\ r.more = b
LEMMA PageIsSet == ASSUME NEW m \in Miters, NEW p \in Nat PROVE AsSet(PageSet(m, p), m, p, 1, m.i, m.nents, m.more)
BY DEF Miters, PageSet, SamePage, AsSet
Moved1(m) == [m EXCEPT !.sg_pgoffset = @ + m.pg_advance, !.pg_advance = 1]
LEMMA Moves1 == ASSUME NEW m \in Miters PROVE AsSet(Moved1(m), m, m.sg_pgoffset + m.pg_advance, 1, m.i, m.nents, m.more)
<1> DEFINE p == m.sg_pgoffset + m.pg_advance
<1>1. p \in Nat
  BY DEF Miters
<1>2. Moved1(m) = PageSet(m, p)
  BY Zenon DEF Moved1, PageSet
<1> HIDE DEF p
<1>3. AsSet(Moved1(m), m, p, 1, m.i, m.nents, m.more)
  BY <1>1, <1>2, PageIsSet, Zenon
<1> QED BY <1>3 DEF p
Ended(m) == [m EXCEPT !.more = FALSE]
OneMore(m, b) == [m EXCEPT !.more = b]
LEMMA MoreIsSet == ASSUME NEW m \in Miters, NEW b \in BOOLEAN PROVE AsSet(OneMore(m, b), m, m.sg_pgoffset, m.pg_advance, m.i, m.nents, b)
BY DEF Miters, OneMore, SamePage, AsSet
LEMMA Ends == ASSUME NEW m \in Miters PROVE AsSet(Ended(m), m, m.sg_pgoffset, m.pg_advance, m.i, m.nents, FALSE)
BY DEF Miters, Ended, SamePage, AsSet
EntrySet(m, p, i, n) == [m EXCEPT !.sg_pgoffset = p, !.i = i, !.nents = n]
LEMMA EntryIsSet ==
    ASSUME NEW m \in Miters, NEW p \in Nat, NEW i \in Nat, NEW n \in Nat
    PROVE  AsSet(EntrySet(m, p, i, n), m, p, m.pg_advance, i, n, m.more)
BY DEF Miters, EntrySet, SamePage, AsSet
OneOn(m, c) == [m EXCEPT !.sg_pgoffset = @ - c, !.i = @ + 1, !.nents = @ - 1]
LEMMA OnesOn ==
    ASSUME NEW m \in Miters, NEW c \in Nat, c <= m.sg_pgoffset, m.nents > 0, NEW b \in BOOLEAN, NEW k, k = OneOn(m, c)
    PROVE  k.i = m.i + 1 /\ k.nents = m.nents - 1 /\ AsSet(OneMore(k, b), m, m.sg_pgoffset - c, m.pg_advance, m.i + 1, m.nents - 1, b)
<1> DEFINE p == m.sg_pgoffset - c
           i == m.i + 1
           n == m.nents - 1
           r == OneMore(k, b)
<1>1. p \in Nat /\ i \in Nat /\ n \in Nat
  BY DEF Miters
<1>2. k = EntrySet(m, p, i, n)
  BY Zenon DEF OneOn, EntrySet
<1> HIDE DEF p, i, n
<1>3. AsSet(k, m, p, m.pg_advance, i, n, m.more)
  BY <1>1, <1>2, EntryIsSet, Zenon
<1>4. AsSet(r, k, k.sg_pgoffset, k.pg_advance, k.i, k.nents, b)
  BY <1>3, MoreIsSet, Zenon DEF AsSet
<1> HIDE DEF r
<1>5. AsSet(r, m, p, m.pg_advance, i, n, b)
  BY <1>3, <1>4, Zenon DEF SamePage, AsSet
<1>6. k.i = i /\ k.nents = n
  BY <1>3, Zenon DEF AsSet
<1> QED BY <1>5, <1>6, Zenon DEF p, i, n, r

\* During the search the place in the bytes of the list remains.
AtPage(list, nents, pos, r) ==
    /\ r.i <= Len(list) /\ r.nents > 0 /\ r.sg_pgoffset <= sg_page_count(list[r.i])
    /\ pos = LengthUpto(list, r.i - 1) + PageStart(list[r.i], r.sg_pgoffset) - list[r.i].offset
Searching(list, nents, pos, m, r) ==
    /\ r \in Miters /\ SamePage(r, m) /\ r.pg_advance = 1
    /\ r.i \in 1 .. Len(list) + 1 /\ r.nents = nents - r.i + 1
    /\ r.more => AtPage(list, nents, pos, r)
    /\ ~r.more => AtEnd(list, r) /\ pos = LengthUpto(list, r.i - 1)
PageReached(list, r) == ~r.more \/ r.sg_pgoffset < sg_page_count(list[r.i])
LEMMA SearchGoesOn ==
    ASSUME NEW list \in Seq(Entry), NEW nents \in Nat, NEW pos \in Nat, NEW m, NEW r, Searching(list, nents, pos, m, r)
    PROVE  /\ Searching(list, nents, pos, m, NextEntry(list, r))
           /\ PageReached(list, r) => NextEntry(list, r) = r
           /\ ~PageReached(list, r) => NextEntry(list, r).i = r.i + 1
<1> DEFINE c == sg_page_count(list[r.i])
           k == r.i
           b == ~AtEnd(list, OneOn(r, c))
           n == OneMore(OneOn(r, c), b)
<1>1. /\ r \in Miters /\ SamePage(r, m) /\ r.pg_advance = 1 /\ k \in 1 .. Len(list) + 1 /\ r.nents = nents - k + 1
      /\ k \in Nat /\ r.nents \in Nat /\ r.sg_pgoffset \in Nat /\ Len(list) \in Nat /\ r.more \in BOOLEAN
  BY DEF Searching, Miters
<1>2. CASE PageReached(list, r)
  <2>1. NextEntry(list, r) = r
    BY <1>2, Zenon DEF PageReached, NextEntry
  <2> QED BY <1>2, <2>1
<1>3. CASE ~PageReached(list, r)
  <2>1. r.more /\ ~(r.sg_pgoffset < c)
    BY <1>1, <1>3 DEF PageReached
  <2>2. k <= Len(list) /\ r.nents > 0 /\ r.sg_pgoffset <= c /\ pos = LengthUpto(list, k - 1) + PageStart(list[k], r.sg_pgoffset) - list[k].offset
    BY <2>1 DEF Searching, AtPage
  <2>3. k \in 1 .. Len(list) /\ k - 1 \in Nat /\ k - 1 < Len(list) /\ k - 1 + 1 = k
    BY <1>1, <2>2
  <2>4. EntryOk(list, k)
    BY <2>3, Entries1
  <2>5. c \in Nat
    BY <2>4, PageCount DEF EntryOk
  <2>6. r.sg_pgoffset = c
    BY <1>1, <2>1, <2>2, <2>5
  <2>7. NextEntry(list, r) = n
    BY <2>1, Zenon DEF NextEntry, OneMore, OneOn
  <2>8. b \in BOOLEAN
    BY DEF AtEnd
  <2>9. /\ OneOn(r, c).i = k + 1 /\ OneOn(r, c).nents = r.nents - 1
        /\ n \in Miters /\ SamePage(n, r) /\ n.more = b /\ n.i = k + 1 /\ n.nents = r.nents - 1
        /\ n.sg_pgoffset = r.sg_pgoffset - c /\ n.pg_advance = r.pg_advance
    <3>1. r \in Miters /\ c \in Nat /\ c <= r.sg_pgoffset /\ r.nents > 0
      BY <1>1, <2>2, <2>5, <2>6
    <3> DEFINE u == OneOn(r, c)
    <3> HIDE DEF b, c, u
    <3>2. u = OneOn(r, c)
      BY DEF u
    <3>3. u.i = r.i + 1 /\ u.nents = r.nents - 1 /\ AsSet(OneMore(u, b), r, r.sg_pgoffset - c, r.pg_advance, r.i + 1, r.nents - 1, b)
      BY <2>8, <3>1, <3>2, OnesOn, Zenon
    <3> QED BY <3>3, Zenon DEF AsSet, u
  <2>10. b <=> n.nents # 0 /\ k + 1 <= Len(list)
    <3>1. b <=> ~(OneOn(r, c).nents = 0 \/ OneOn(r, c).i > Len(list))
      BY DEF AtEnd
    <3> HIDE DEF b, n
    <3> DEFINE q == k + 1
               z == Len(list)
    <3>2. OneOn(r, c).i = q /\ OneOn(r, c).nents = n.nents
      BY <2>9, Zenon
    <3>3. q \in Nat /\ z \in Nat
      BY <1>1, <2>3
    <3> HIDE DEF q, z
    <3>4. q > z <=> ~(q <= z)
      BY ONLY <3>3
    <3>5. b <=> ~(n.nents = 0 \/ q > z)
      BY <3>1, <3>2, Zenon DEF z
    <3>6. b <=> n.nents # 0 /\ q <= z
      BY <3>4, <3>5, Zenon
    <3> QED BY <3>6, Zenon DEF q, z
  <2>11. pos = LengthUpto(list, k)
    <3> DEFINE q == k - 1
               e == list[k]
               h == LengthUpto(list, q)
               l == list[k].length
               o == list[k].offset
    <3>1. q \in Nat /\ q < Len(list) /\ q + 1 = k
      BY <2>3
    <3>2. PageStart(e, c) = EndOf(e)
      <4>1. c <= c
        BY <2>5
      <4> HIDE DEF c
      <4>2. c = sg_page_count(e)
        BY DEF c
      <4> QED BY <2>4, <2>5, <4>1, <4>2, PageStarts DEF EntryOk
    <3>3. EndOf(e) = o + l
      BY DEF EndOf
    <3> HIDE DEF q
    <3>4. LengthUpto(list, q + 1) = LengthUpto(list, q) + list[q + 1].length /\ LengthUpto(list, q) \in Nat
      BY <3>1, HeldAdds
    <3>5. LengthUpto(list, k) = h + l /\ h \in Nat
      BY <3>1, <3>4
    <3>6. o \in Nat /\ l \in Nat
      BY <2>4 DEF EntryOk
    <3>7. pos = h + (o + l) - o
      <4>1. q = k - 1
        BY DEF q
      <4>2. pos = LengthUpto(list, q) + PageStart(list[k], r.sg_pgoffset) - list[k].offset
        BY <2>2, <4>1, Zenon
      <4> QED BY <2>6, <3>2, <3>3, <4>2, Zenon
    <3> HIDE DEF h, o, l
    <3>8. h + (o + l) - o = h + l
      BY <3>5, <3>6
    <3> QED BY <3>5, <3>7, <3>8, Zenon
  <2> HIDE DEF c, n, b, k
  <2>12. n.i = k + 1 /\ n.i \in 1 .. Len(list) + 1 /\ n.nents = nents - n.i + 1 /\ n.i - 1 = k /\ n.sg_pgoffset = 0 /\ n.pg_advance = 1
    BY <1>1, <2>3, <2>5, <2>6, <2>9
  <2>13. ASSUME n.more PROVE AtPage(list, nents, pos, n)
    <3>1. n.nents # 0 /\ k + 1 <= Len(list)
      BY <2>9, <2>10, <2>13
    <3>2. n.nents > 0 /\ n.i <= Len(list) /\ n.i \in 1 .. Len(list)
      BY <1>1, <2>2, <2>9, <2>12, <3>1, SMTT(60)
    <3> DEFINE e == list[n.i]
               o == e.offset
    <3>3. EntryOk(list, n.i)
      BY <3>2, Entries1
    <3>4. sg_page_count(e) \in Nat /\ 0 <= sg_page_count(e) /\ o \in Nat
      BY <3>3, PageCount DEF EntryOk
    <3>5. PageStart(e, 0) = o
      BY Zenon DEF PageStart
    <3>6. pos = LengthUpto(list, n.i - 1) + PageStart(e, n.sg_pgoffset) - e.offset
      <4>1. PageStart(e, n.sg_pgoffset) = o /\ LengthUpto(list, n.i - 1) = pos
        BY <2>11, <2>12, <3>5, Zenon
      <4> HIDE DEF o
      <4>2. pos + o - o = pos
        BY <3>4
      <4> QED BY <4>1, <4>2, Zenon DEF o
    <3>7. n.sg_pgoffset <= sg_page_count(e)
      BY <2>12, <3>4
    <3> QED BY <3>2, <3>6, <3>7, Zenon DEF AtPage
  <2>14. ASSUME ~n.more PROVE AtEnd(list, n) /\ pos = LengthUpto(list, n.i - 1)
    <3>1. ~(n.nents # 0 /\ k + 1 <= Len(list))
      BY <2>9, <2>10, <2>14
    <3>2. n.nents = 0 \/ n.i > Len(list)
      BY <1>1, <2>12, <3>1
    <3> QED BY <2>11, <2>12, <3>2, Zenon DEF AtEnd
  <2>15. SamePage(n, m)
    BY <1>1, <2>9, Zenon DEF SamePage
  <2>16. Searching(list, nents, pos, m, n)
    BY <2>9, <2>12, <2>13, <2>14, <2>15, Zenon DEF Searching
  <2> QED BY <1>3, <2>7, <2>12, <2>16, Zenon DEF k
<1> QED BY <1>2, <1>3
Ready(list, nents, pos, m) ==
    /\ m \in Miters /\ m.more /\ m.i \in 1 .. Len(list) + 1 /\ m.nents = nents - m.i + 1
    /\ AtEnd(list, m) => pos = LengthUpto(list, m.i - 1)
    /\ ~AtEnd(list, m) => AtPage(list, nents, pos, Moved1(m))
Found(list, nents, pos, m, r) ==
    /\ r \in Miters /\ SamePage(r, m)
    /\ r.more => /\ r.pg_advance = 1 /\ r.i \in 1 .. NamedUpto(list, nents) /\ r.nents = nents - r.i + 1
                 /\ r.sg_pgoffset < sg_page_count(list[r.i])
                 /\ pos = LengthUpto(list, r.i - 1) + PageStart(list[r.i], r.sg_pgoffset) - list[r.i].offset
    /\ ~r.more => pos = LengthUpto(list, NamedUpto(list, nents))
LEMMA EndNamed ==
    ASSUME NEW list \in Seq(Entry), NEW nents \in Nat, NEW r \in Miters, r.i \in 1 .. Len(list) + 1, r.nents = nents - r.i + 1
    PROVE  /\ AtEnd(list, r) => r.i - 1 = NamedUpto(list, nents)
           /\ ~AtEnd(list, r) => r.i \in 1 .. NamedUpto(list, nents)
<1>1. r.nents \in Nat /\ r.i \in Nat /\ Len(list) \in Nat
  BY DEF Miters
<1>2. AtEnd(list, r) <=> r.nents = 0 \/ r.i > Len(list)
  BY DEF AtEnd
<1>3. NamedUpto(list, nents) = IF nents < Len(list) THEN nents ELSE Len(list)
  BY DEF NamedUpto, Smallest
<1> QED BY <1>1, <1>2, <1>3
Rounds(list, first, f) == f = [k \in 0 .. Len(list) |-> IF k = 0 THEN first ELSE NextEntry(list, f[k - 1])]
LEMMA RoundsEnd ==
    ASSUME NEW list \in Seq(Entry), NEW nents \in Nat, NEW pos \in Nat, NEW m, NEW first, Searching(list, nents, pos, m, first),
           NEW round, round = CHOOSE f : Rounds(list, first, f)
    PROVE  Searching(list, nents, pos, m, round[Len(list)]) /\ PageReached(list, round[Len(list)])
<1> DEFINE V == {r \in Miters : Searching(list, nents, pos, m, r)}
           n == Len(list)
           step == [k \in 0 .. n - 1 |-> [r \in V |-> NextEntry(list, r)]]
<1>0. n \in Nat
  OBVIOUS
<1>1. ASSUME NEW r \in V PROVE NextEntry(list, r) \in V
  <2>1. Searching(list, nents, pos, m, r)
    OBVIOUS
  <2>2. Searching(list, nents, pos, m, NextEntry(list, r))
    BY <2>1, SearchGoesOn, Zenon
  <2>3. NextEntry(list, r) \in Miters
    BY <2>2, Zenon DEF Searching
  <2> QED BY <2>2, <2>3
<1>2. first \in V
  BY DEF Searching
<1>3. step \in [0 .. n - 1 -> [V -> V]] /\ \A k \in 0 .. n - 1, r \in V : step[k][r] = NextEntry(list, r)
  <2> HIDE DEF V, n
  <2> QED BY <1>1
<1> HIDE DEF step
<1>4. PICK g \in [0 .. n -> V] : Follows(g, n, first, step)
  <2> HIDE DEF V, n
  <2> QED BY <1>0, <1>2, <1>3, Recursion, Zenon
<1>5. Rounds(list, first, g)
  <2>1. g[0] = first
    BY <1>4 DEF Follows
  <2>2. ASSUME NEW k \in 0 .. n, k # 0 PROVE g[k] = NextEntry(list, g[k - 1])
    <3>1. k - 1 \in 0 .. n - 1 /\ k - 1 \in 0 .. n /\ k - 1 + 1 = k
      BY <1>0, <2>2
    <3> DEFINE j == k - 1
    <3>2. j \in 0 .. n - 1 /\ j \in 0 .. n /\ j + 1 = k
      BY <3>1
    <3> HIDE DEF j, V
    <3>3. g[j + 1] = step[j][g[j]] /\ g[j] \in V
      BY <1>4, <3>2 DEF Follows
    <3>4. step[j][g[j]] = NextEntry(list, g[j])
      BY <1>3, <3>2, <3>3
    <3>5. g[k] = NextEntry(list, g[j])
      BY <3>2, <3>3, <3>4
    <3> QED BY <3>5 DEF j
  <2>3. g = [k \in 0 .. n |-> IF k = 0 THEN first ELSE NextEntry(list, g[k - 1])]
    <3> HIDE DEF V
    <3> QED BY <1>4, <2>1, <2>2
  <2> QED BY <2>3 DEF Rounds
<1>6. Rounds(list, first, round)
  BY <1>5
<1>7. \A k \in 0 .. n : round[k] = IF k = 0 THEN first ELSE NextEntry(list, round[k - 1])
  BY <1>6, Zenon DEF Rounds
<1> DEFINE Good(k) == Searching(list, nents, pos, m, round[k]) /\ (PageReached(list, round[k]) \/ round[k].i >= k + 1)
           T == {k \in Nat : k <= n => Good(k)}
<1>8. 0 \in T
  <2>1. round[0] = first
    BY <1>0, <1>7
  <2>2. first.i >= 0 + 1
    BY DEF Searching
  <2> QED BY <2>1, <2>2
<1>9. ASSUME NEW k \in Nat, k \in T PROVE k + 1 \in T
  <2> DEFINE j == k + 1
  <2> SUFFICES ASSUME j <= n PROVE Good(j)
    OBVIOUS
  <2>1. Good(k) /\ j \in 0 .. n /\ j # 0 /\ j - 1 = k /\ j \in Nat /\ j = k + 1
    BY <1>9
  <2> HIDE DEF j
  <2> DEFINE r == round[k]
  <2>2. round[j] = NextEntry(list, r)
    BY <1>7, <2>1
  <2>3. Searching(list, nents, pos, m, r) /\ (PageReached(list, r) \/ r.i >= j)
    BY <2>1
  <2>4. /\ Searching(list, nents, pos, m, NextEntry(list, r))
        /\ PageReached(list, r) => NextEntry(list, r) = r
        /\ ~PageReached(list, r) => NextEntry(list, r).i = r.i + 1
    <3> HIDE DEF r
    <3>1. Searching(list, nents, pos, m, r)
      BY <2>3
    <3>2. list \in Seq(Entry) /\ nents \in Nat /\ pos \in Nat
      OBVIOUS
    <3>3. Searching(list, nents, pos, m, NextEntry(list, r))
      BY <3>1, <3>2, SearchGoesOn, Zenon
    <3>4. PageReached(list, r) => NextEntry(list, r) = r
      BY <3>1, <3>2, SearchGoesOn, Zenon
    <3>5. ~PageReached(list, r) => NextEntry(list, r).i = r.i + 1
      BY ONLY <3>1, <3>2, SearchGoesOn
    <3> QED BY <3>3, <3>4, <3>5
  <2>5. r.i \in Int
    BY <2>3 DEF Searching
  <2> HIDE DEF r
  <2>6. CASE PageReached(list, r)
    BY <2>2, <2>3, <2>4, <2>6
  <2>7. CASE ~PageReached(list, r)
    <3>1. round[j].i = r.i + 1 /\ r.i >= j
      BY <2>2, <2>3, <2>4, <2>7
    <3>2. round[j].i >= j + 1
      BY <2>1, <2>5, <3>1
    <3> QED BY <2>2, <2>4, <3>2
  <2> QED BY <2>6, <2>7
<1>10. Nat \subseteq T
  <2> HIDE DEF T
  <2> QED BY <1>8, <1>9, Inductive
<1>11. Good(n)
  BY <1>0, <1>10
<1> DEFINE r == round[n]
<1>12. Searching(list, nents, pos, m, r) /\ (PageReached(list, r) \/ r.i >= n + 1)
  BY <1>11
<1> HIDE DEF Good, T, r
<1>13. PageReached(list, r)
  <2> SUFFICES ASSUME r.i >= n + 1 PROVE ~r.more
    BY <1>12 DEF PageReached
  <2>1. r.i \in Nat /\ (r.more => r.i <= n)
    BY <1>12 DEF Searching, AtPage
  <2> QED BY <1>0, <2>1
<1> QED BY <1>12, <1>13 DEF r
LEMMA PageSearch ==
    ASSUME NEW list \in Seq(Entry), NEW nents \in Nat, NEW pos \in Nat, NEW m, Ready(list, nents, pos, m)
    PROVE  Found(list, nents, pos, m, __sg_page_iter_next(list, m))
<1> DEFINE r == __sg_page_iter_next(list, m)
           n == NamedUpto(list, nents)
<1>0. m \in Miters /\ m.more /\ m.i \in 1 .. Len(list) + 1 /\ m.nents = nents - m.i + 1
  BY DEF Ready
<1>1. CASE AtEnd(list, m)
  <2>1. r = Ended(m)
    BY <1>1, Zenon DEF __sg_page_iter_next, Ended
  <2>2. AsSet(Ended(m), m, m.sg_pgoffset, m.pg_advance, m.i, m.nents, FALSE)
    BY <1>0, Ends
  <2>3. m.i - 1 = n
    BY <1>0, <1>1, EndNamed
  <2>4. pos = LengthUpto(list, n)
    BY <1>1, <2>3 DEF Ready
  <2>5. r \in Miters /\ SamePage(r, m) /\ r.more = FALSE
    BY <2>1, <2>2, Zenon DEF AsSet
  <2> HIDE DEF r
  <2>6. Found(list, nents, pos, m, r)
    BY <2>4, <2>5, Zenon DEF Found
  <2> QED BY <2>6 DEF r
<1>2. CASE ~AtEnd(list, m)
  <2> DEFINE first == Moved1(m)
             round == CHOOSE f : Rounds(list, first, f)
  <2>1. r = round[Len(list)]
    BY <1>2, Zenon DEF __sg_page_iter_next, Moved1, Rounds
  <2>2. Searching(list, nents, pos, m, first)
    <3>1. AsSet(first, m, m.sg_pgoffset + m.pg_advance, 1, m.i, m.nents, m.more)
      BY <1>0, Moves1
    <3>2. AtPage(list, nents, pos, first)
      BY <1>2 DEF Ready
    <3> HIDE DEF first
    <3> QED BY <1>0, <3>1, <3>2, Zenon DEF AsSet, Searching
  <2>3. Searching(list, nents, pos, m, r) /\ PageReached(list, r)
    <3> HIDE DEF first, round, r
    <3>1. round = CHOOSE f : Rounds(list, first, f)
      BY DEF round
    <3>2. Searching(list, nents, pos, m, round[Len(list)]) /\ PageReached(list, round[Len(list)])
      BY <2>2, <3>1, RoundsEnd, Zenon
    <3> QED BY <2>1, <3>2, Zenon
  <2> HIDE DEF r
  <2>4. r \in Miters /\ SamePage(r, m) /\ r.pg_advance = 1 /\ r.i \in 1 .. Len(list) + 1 /\ r.nents = nents - r.i + 1
    BY <2>3, Zenon DEF Searching
  <2>5. r.more \in BOOLEAN /\ r.i \in Nat /\ r.nents \in Nat
    BY <2>4 DEF Miters
  <2>6. ASSUME ~r.more PROVE pos = LengthUpto(list, n)
    <3>1. AtEnd(list, r) /\ pos = LengthUpto(list, r.i - 1)
      BY <2>3, <2>6, Zenon DEF Searching
    <3>2. r.i - 1 = n
      BY <2>4, <3>1, EndNamed
    <3> QED BY <3>1, <3>2, Zenon
  <2>7. ASSUME r.more
        PROVE  /\ r.i \in 1 .. n /\ r.sg_pgoffset < sg_page_count(list[r.i])
               /\ pos = LengthUpto(list, r.i - 1) + PageStart(list[r.i], r.sg_pgoffset) - list[r.i].offset
    <3>1. AtPage(list, nents, pos, r) /\ r.sg_pgoffset < sg_page_count(list[r.i])
      BY <2>3, <2>7, Zenon DEF Searching, PageReached
    <3>2. r.i <= Len(list) /\ r.nents > 0
      BY <3>1, Zenon DEF AtPage
    <3>3. ~AtEnd(list, r)
      BY <2>5, <3>2 DEF AtEnd
    <3>4. r.i \in 1 .. n
      BY <2>4, <3>3, EndNamed
    <3> QED BY <3>1, <3>4, Zenon DEF AtPage
  <2>8. Found(list, nents, pos, m, r)
    BY <2>4, <2>6, <2>7, Zenon DEF Found
  <2> QED BY <2>8 DEF r
<1> QED BY <1>1, <1>2

\* The iterator is at its start or on a page of an entry, with or without a
\* mapping of what remains of it.
InPage(m) == m.sg_pgoffset * PageSize + m.offset
Placed(list, nents, m) ==
    /\ m \in Miters /\ m.more /\ m.pg_advance = 1 /\ m.i \in 1 .. NamedUpto(list, nents) /\ m.nents = nents - m.i + 1
    /\ m.sg_pgoffset < sg_page_count(list[m.i])
    /\ list[m.i].offset <= InPage(m) /\ InPage(m) + m.remaining = PageStart(list[m.i], m.sg_pgoffset + 1)
    /\ m.offset + m.remaining <= PageSize
Position(list, m) == IF m.pg_advance = 0 THEN 0 ELSE LengthUpto(list, m.i - 1) + InPage(m) - list[m.i].offset
InList(list, nents, m) == m = Start(nents) \/ Placed(list, nents, m)
Mapping(list, nents, m) ==
    /\ Placed(list, nents, m) /\ m.addr = <<m.i, InPage(m)>> /\ m.length = m.remaining /\ m.consumed \in 0 .. m.remaining
LEMMA StartIs ==
    ASSUME NEW nents \in Nat, NEW m, m = Start(nents)
    PROVE  /\ m \in Miters /\ m.more /\ m.pg_advance = 0 /\ m.i = 1 /\ m.nents = nents /\ m.sg_pgoffset = 0 /\ m.remaining = 0
           /\ m.addr = <<>>
<1>1. <<>> \in Seq(Nat)
  OBVIOUS
<1> QED BY <1>1 DEF Miters, Start
LEMMA StartReady ==
    ASSUME NEW list \in Seq(Entry), NEW nents \in Nat, NEW m, m = Start(nents)
    PROVE  Ready(list, nents, 0, m) /\ Position(list, m) = 0
<1> DEFINE r == Moved1(m)
           e == list[1]
           o == e.offset
<1>1. /\ m \in Miters /\ m.more /\ m.pg_advance = 0 /\ m.i = 1 /\ m.nents = nents /\ m.sg_pgoffset = 0
      /\ Len(list) \in Nat
  BY StartIs
<1>2. Position(list, m) = 0
  BY <1>1 DEF Position
<1>3. m.i - 1 = 0 /\ m.i \in 1 .. Len(list) + 1 /\ nents - m.i + 1 = nents /\ m.sg_pgoffset + m.pg_advance = 0
  BY <1>1
<1>4. 0 = LengthUpto(list, m.i - 1)
  BY <1>3, HeldNone
<1>5. ASSUME ~AtEnd(list, m) PROVE AtPage(list, nents, 0, r)
  <2>1. 1 \in 1 .. Len(list) /\ nents > 0
    BY <1>1, <1>5 DEF AtEnd
  <2>2. EntryOk(list, 1)
    BY <2>1, Entries1
  <2>3. sg_page_count(e) \in Nat /\ o \in Nat
    BY <2>2, PageCount DEF EntryOk
  <2>4. AsSet(r, m, 0, 1, 1, nents, m.more)
    BY <1>1, <1>3, Moves1, Zenon
  <2>5. PageStart(e, 0) = o
    BY Zenon DEF PageStart
  <2> HIDE DEF r
  <2>6. r.i = 1 /\ r.nents = nents /\ r.sg_pgoffset = 0
    BY <2>4, Zenon DEF AsSet
  <2>7. 0 = LengthUpto(list, r.i - 1) + PageStart(list[r.i], r.sg_pgoffset) - list[r.i].offset
    <3>1. LengthUpto(list, r.i - 1) = 0
      BY <1>1, <1>4, <2>6, Zenon
    <3>2. PageStart(list[r.i], r.sg_pgoffset) = o /\ list[r.i].offset = o
      BY <2>5, <2>6, Zenon
    <3> HIDE DEF o
    <3>3. 0 = 0 + o - o
      BY <2>3
    <3> QED BY <3>1, <3>2, <3>3, Zenon
  <2>8. r.i <= Len(list) /\ r.nents > 0 /\ r.sg_pgoffset <= sg_page_count(list[r.i])
    BY <1>1, <2>1, <2>3, <2>6
  <2> QED BY <2>7, <2>8, Zenon DEF AtPage
<1> HIDE DEF r
<1>6. m.nents = nents - m.i + 1
  BY <1>1, <1>3, Zenon
<1> QED BY <1>1, <1>2, <1>3, <1>4, <1>5, <1>6, Zenon DEF Ready, r
\* What a page of the list tells.
LEMMA PlacedIs ==
    ASSUME NEW list \in Seq(Entry), NEW nents \in Nat, NEW m, Placed(list, nents, m)
    PROVE  /\ m \in Miters /\ m.i \in Nat /\ m.i \in 1 .. NamedUpto(list, nents) /\ m.i \in 1 .. Len(list) /\ EntryOk(list, m.i)
           /\ m.sg_pgoffset \in Nat /\ m.offset \in Nat /\ m.remaining \in Nat /\ m.nents \in Nat /\ m.consumed \in Nat
           /\ InPage(m) \in Nat /\ LengthUpto(list, m.i - 1) \in Nat
           /\ InPage(m) + m.remaining <= EndOf(list[m.i])
           /\ Position(list, m) = LengthUpto(list, m.i - 1) + InPage(m) - list[m.i].offset
<1> DEFINE p == m.sg_pgoffset
           e == list[m.i]
<1>1. /\ m \in Miters /\ m.i \in Nat /\ p \in Nat /\ m.offset \in Nat /\ m.remaining \in Nat /\ m.nents \in Nat
      /\ m.consumed \in Nat
  BY DEF Placed, Miters
<1>2. m.i \in 1 .. NamedUpto(list, nents) /\ m.pg_advance = 1 /\ p < sg_page_count(e)
  BY DEF Placed
<1>3. m.i \in 1 .. Len(list)
  <2>1. NamedUpto(list, nents) \in 0 .. Len(list)
    BY AllBytesIs
  <2> QED BY <1>2, <2>1
<1>4. EntryOk(list, m.i)
  BY <1>3, Entries1
<1>5. InPage(m) \in Nat
  <2> DEFINE a == m.offset
  <2>1. a \in Nat /\ PageSize \in Nat
    BY <1>1, ScatterAssumption
  <2> HIDE DEF p, a
  <2>2. p * PageSize + a \in Nat
    BY <1>1, <2>1
  <2> QED BY <2>2 DEF InPage, p, a
<1>6. LengthUpto(list, m.i - 1) \in Nat
  <2>1. m.i - 1 \in 0 .. Len(list)
    BY <1>3
  <2> QED BY <2>1, HeldNat
<1>7. PageStart(e, p + 1) <= EndOf(e)
  <2> DEFINE q == p + 1
             c == sg_page_count(e)
  <2>1. c \in Nat
    BY <1>4, PageCount DEF EntryOk
  <2> HIDE DEF c
  <2>2. q \in Nat /\ q <= c
    BY <1>1, <1>2, <2>1 DEF c
  <2> HIDE DEF q
  <2>3. PageStart(e, q) <= EndOf(e)
    BY <1>4, <2>2, PageStarts DEF EntryOk, c
  <2> QED BY <2>3 DEF q
<1>8. InPage(m) + m.remaining <= EndOf(e)
  BY <1>7 DEF Placed
<1>9. Position(list, m) = LengthUpto(list, m.i - 1) + InPage(m) - list[m.i].offset
  BY <1>2 DEF Position
<1> QED BY <1>1, <1>2, <1>3, <1>4, <1>5, <1>6, <1>8, <1>9
LEMMA PlacedReady ==
    ASSUME NEW list \in Seq(Entry), NEW nents \in Nat, NEW m, Placed(list, nents, m), m.remaining = 0
    PROVE  Ready(list, nents, Position(list, m), m)
<1> DEFINE r == Moved1(m)
           p == m.sg_pgoffset
           e == list[m.i]
           q == p + 1
           pos == Position(list, m)
<1>1. /\ m \in Miters /\ m.more /\ m.pg_advance = 1 /\ m.i \in 1 .. NamedUpto(list, nents) /\ m.nents = nents - m.i + 1
      /\ p < sg_page_count(e) /\ m.i \in Nat /\ m.i \in 1 .. Len(list) /\ EntryOk(list, m.i) /\ p \in Nat
  BY PlacedIs DEF Placed
<1>2. sg_page_count(e) \in Nat
  BY <1>1, PageCount DEF EntryOk
<1>3. q <= sg_page_count(e)
  <2> DEFINE c == sg_page_count(e)
  <2>1. c \in Nat /\ p < c
    BY <1>1, <1>2
  <2> HIDE DEF c, p
  <2>2. p + 1 <= c
    BY <1>1, <2>1
  <2> QED BY <2>2 DEF c, p
<1>4. pos = LengthUpto(list, m.i - 1) + PageStart(e, q) - e.offset
  <2> DEFINE a == InPage(m)
  <2>1. a \in Nat /\ a + m.remaining = PageStart(e, q)
    BY PlacedIs DEF Placed
  <2> HIDE DEF a
  <2>2. a + m.remaining = a
    BY <2>1
  <2>3. a = PageStart(e, q)
    BY <2>1, <2>2, Zenon
  <2>4. pos = LengthUpto(list, m.i - 1) + a - e.offset
    BY PlacedIs DEF a
  <2> QED BY <2>3, <2>4, Zenon
<1>5. AsSet(r, m, m.sg_pgoffset + m.pg_advance, 1, m.i, m.nents, m.more)
  BY <1>1, Moves1
<1>6. m.nents > 0 /\ m.i <= Len(list) /\ m.i \in 1 .. Len(list) + 1 /\ ~AtEnd(list, m)
  <2>1. m.nents > 0 /\ m.i <= Len(list)
    BY <1>1 DEF NamedUpto, Smallest
  <2>2. m.nents \in Nat
    BY PlacedIs
  <2> QED BY <1>1, <2>1, <2>2 DEF AtEnd
<1> HIDE DEF r, pos
<1>7. r.i = m.i /\ r.nents = m.nents /\ r.sg_pgoffset = q
  BY <1>1, <1>5, Zenon DEF AsSet
<1> HIDE DEF q
<1>8. AtPage(list, nents, pos, r)
  BY <1>3, <1>4, <1>6, <1>7, Zenon DEF AtPage
<1> QED BY <1>1, <1>6, <1>8, Zenon DEF Ready, r, pos
\* What remains of the page, or a part of it, is the part of the bytes behind
\* the position.
LEMMA PlacedPart ==
    ASSUME NEW list \in Seq(Entry), NEW nents \in Nat, NEW m, Placed(list, nents, m), NEW k \in 0 .. m.remaining,
           NEW all, all = AllBytes(list, nents), NEW pos, pos = Position(list, m), NEW adr, adr = <<m.i, InPage(m)>>
    PROVE  PartAt(all, pos, adr, k)
<1> DEFINE i == m.i
           a == InPage(m)
           h == LengthUpto(list, m.i - 1)
           o == list[m.i].offset
           l == list[m.i].length
<1>1. /\ i \in 1 .. NamedUpto(list, nents) /\ a \in Nat /\ m.remaining \in Nat /\ a + m.remaining <= o + l /\ pos = h + a - o
      /\ o <= a /\ o \in Nat /\ l \in Nat /\ k \in Nat
  BY PlacedIs DEF EndOf, EntryOk, Placed
<1>2. a + k <= o + l
  <2> DEFINE z == m.remaining
  <2>1. z \in Nat /\ a + z <= o + l /\ k <= z
    BY <1>1
  <2> HIDE DEF a, o, l, z
  <2> QED BY <1>1, <2>1
<1> HIDE DEF a
<1>3. pos = LengthUpto(list, i - 1) + a - list[i].offset
  BY <1>1
<1> HIDE DEF i
<1>4. list[i].offset <= a /\ a + k <= list[i].offset + list[i].length
  BY <1>1, <1>2 DEF i
<1>5. i \in 1 .. NamedUpto(list, nents) /\ a \in Nat /\ k \in Nat /\ adr = <<i, a>>
  BY <1>1 DEF i, a
<1> QED BY <1>3, <1>4, <1>5, MappingPart, Zenon

\* The next page, the end of a mapping and the next mapping.
Bounded(m, o, l) == [m EXCEPT !.offset = o, !.remaining = l]
AsBounded(r, m, o, l) ==
    /\ r \in Miters /\ r.offset = o /\ r.remaining = l /\ r.addr = m.addr /\ r.length = m.length /\ r.consumed = m.consumed
    /\ r.i = m.i /\ r.sg_pgoffset = m.sg_pgoffset /\ r.pg_advance = m.pg_advance /\ r.nents = m.nents /\ r.more = m.more
LEMMA BoundsAre == ASSUME NEW m \in Miters, NEW o \in Nat, NEW l \in Nat PROVE AsBounded(Bounded(m, o, l), m, o, l)
BY DEF Miters, Bounded, AsBounded
SameMapping(r, m) == r.addr = m.addr /\ r.length = m.length /\ r.consumed = m.consumed
PlacedAt(list, nents, pos, m, r) == Placed(list, nents, r) /\ SameMapping(r, m) /\ Position(list, r) = pos
LEMMA FoundPlaced ==
    ASSUME NEW list \in Seq(Entry), NEW nents \in Nat, NEW pos \in Nat, NEW m, NEW p, Found(list, nents, pos, m, p), p.more,
           NEW r, r = Bounded(p, PageOffset(list[p.i], p.sg_pgoffset), PageRemaining(list[p.i], p.sg_pgoffset))
    PROVE  PlacedAt(list, nents, pos, m, r)
<1> DEFINE k == p.sg_pgoffset
           e == list[p.i]
           o == PageOffset(e, k)
           l == PageRemaining(e, k)
           h == LengthUpto(list, p.i - 1)
<1>1. /\ p \in Miters /\ SamePage(p, m) /\ p.pg_advance = 1 /\ p.i \in 1 .. NamedUpto(list, nents) /\ p.nents = nents - p.i + 1
      /\ k < sg_page_count(e) /\ pos = h + PageStart(e, k) - e.offset
  BY DEF Found
<1>2. EntryOk(list, p.i)
  <2>1. NamedUpto(list, nents) \in 0 .. Len(list)
    BY AllBytesIs
  <2>2. p.i \in 1 .. Len(list)
    BY <1>1, <2>1
  <2> QED BY <2>2, Entries1
<1>3. k \in Nat
  BY <1>1 DEF Miters
<1>4. /\ o \in Nat /\ l \in Nat /\ o + l <= PageSize /\ e.offset <= k * PageSize + o
      /\ k * PageSize + o = PageStart(e, k) /\ k * PageSize + o + l = PageStart(e, k + 1)
  BY <1>1, <1>2, <1>3, FreshPage DEF EntryOk
<1>5. /\ r \in Miters /\ r.offset = o /\ r.remaining = l /\ r.addr = p.addr /\ r.length = p.length /\ r.consumed = p.consumed
      /\ r.i = p.i /\ r.sg_pgoffset = k /\ r.pg_advance = p.pg_advance /\ r.nents = p.nents /\ r.more = p.more
  <2> HIDE DEF o, l
  <2>1. r = Bounded(p, o, l)
    BY DEF o, l
  <2>2. AsBounded(r, p, o, l)
    BY <1>1, <1>4, <2>1, BoundsAre, Zenon
  <2> QED BY <2>2, Zenon DEF AsBounded
<1> HIDE DEF o, l
<1>6. InPage(r) = k * PageSize + o
  BY <1>5, Zenon DEF InPage
<1>7. Placed(list, nents, r)
  BY <1>1, <1>4, <1>5, <1>6, Zenon DEF Placed
<1>8. Position(list, r) = pos
  <2>1. Position(list, r) = LengthUpto(list, r.i - 1) + InPage(r) - list[r.i].offset
    BY <1>7, PlacedIs
  <2> QED BY <1>1, <1>4, <1>5, <1>6, <2>1, Zenon
<1> QED BY <1>1, <1>5, <1>7, <1>8, Zenon DEF SamePage, SameMapping, PlacedAt
NextOk(list, nents, pos, m, r) ==
    /\ r \in Miters /\ SameMapping(r, m)
    /\ r.more => Placed(list, nents, r) /\ Position(list, r) = pos
    /\ ~r.more => pos = Len(AllBytes(list, nents))
LEMMA NextPage ==
    ASSUME NEW list \in Seq(Entry), NEW nents \in Nat, NEW m, InList(list, nents, m), NEW r, r = sg_miter_get_next_page(list, m)
    PROVE  Position(list, m) \in Nat /\ NextOk(list, nents, Position(list, m), m, r)
<1> DEFINE pos == Position(list, m)
           p == __sg_page_iter_next(list, m)
           e == list[p.i]
<1>1. pos \in Nat
  <2>1. CASE m = Start(nents)
    BY <2>1, StartReady
  <2>2. CASE Placed(list, nents, m)
    <3> DEFINE h == LengthUpto(list, m.i - 1)
               a == InPage(m)
               o == list[m.i].offset
    <3>1. pos = h + a - o /\ h \in Nat /\ a \in Nat /\ o \in Nat /\ o <= a
      BY <2>2, PlacedIs DEF Placed, EntryOk
    <3> HIDE DEF pos, h, a, o
    <3> QED BY <3>1
  <2> QED BY <2>1, <2>2 DEF InList
<1>2. CASE m.remaining > 0
  <2>1. r = m
    BY <1>2 DEF sg_miter_get_next_page
  <2>2. Placed(list, nents, m)
    BY <1>2, StartIs DEF InList
  <2>3. m \in Miters /\ m.more
    BY <2>2, Zenon DEF Placed
  <2> QED BY <1>1, <2>1, <2>2, <2>3, Zenon DEF NextOk, SameMapping
<1>3. CASE ~(m.remaining > 0)
  <2>1. Ready(list, nents, pos, m)
    <3>1. CASE m = Start(nents)
      BY <3>1, StartReady
    <3>2. CASE Placed(list, nents, m)
      <4>1. m.remaining = 0
        BY <1>3, <3>2, PlacedIs
      <4> QED BY <3>2, <4>1, PlacedReady
    <3> QED BY <3>1, <3>2 DEF InList
  <2>2. Found(list, nents, pos, m, p)
    <3> HIDE DEF pos
    <3> QED BY <1>1, <2>1, PageSearch, Zenon
  <2>3. p \in Miters /\ SamePage(p, m)
    BY <2>2, Zenon DEF Found
  <2>4. CASE ~p.more
    <3>1. r = p
      BY <1>3, <2>4, Zenon DEF sg_miter_get_next_page
    <3>2. pos = LengthUpto(list, NamedUpto(list, nents))
      BY <2>2, <2>4, Zenon DEF Found
    <3>3. pos = Len(AllBytes(list, nents))
      BY <3>2, AllBytesIs
    <3> QED BY <1>1, <2>3, <2>4, <3>1, <3>3, Zenon DEF NextOk, SamePage, SameMapping
  <2>5. CASE p.more
    <3> DEFINE o == PageOffset(e, p.sg_pgoffset)
               l == PageRemaining(e, p.sg_pgoffset)
    <3>1. r = Bounded(p, o, l)
      BY <1>3, <2>5, Zenon DEF sg_miter_get_next_page, Bounded, PageOffset, PageRemaining
    <3>2. Placed(list, nents, r) /\ SameMapping(r, m) /\ Position(list, r) = pos
      <4> HIDE DEF pos, p
      <4>1. PlacedAt(list, nents, pos, m, r)
        BY <1>1, <2>2, <2>5, <3>1, FoundPlaced, Zenon
      <4> QED BY <4>1, Zenon DEF PlacedAt
    <3>3. r \in Miters /\ r.more
      BY <3>2, Zenon DEF Placed
    <3> QED BY <1>1, <3>2, <3>3, Zenon DEF NextOk
  <2> QED BY <2>4, <2>5
<1> QED BY <1>2, <1>3

Consumption(m) == IF m.addr = <<>> THEN 0 ELSE m.consumed
InHand(list, nents, m) == InList(list, nents, m) /\ (m.addr = <<>> \/ Mapping(list, nents, m))
StoppedAt(m, o, l) == [m EXCEPT !.offset = o, !.remaining = l, !.addr = <<>>, !.length = 0, !.consumed = 0]
AsStopped(r, m, o, l) ==
    /\ r \in Miters /\ r.offset = o /\ r.remaining = l /\ r.addr = <<>> /\ r.i = m.i /\ r.sg_pgoffset = m.sg_pgoffset
    /\ r.pg_advance = m.pg_advance /\ r.nents = m.nents /\ r.more = m.more
LEMMA StopsAt == ASSUME NEW m \in Miters, NEW o \in Nat, NEW l \in Nat PROVE AsStopped(StoppedAt(m, o, l), m, o, l)
<1>1. <<>> \in Seq(Nat)
  OBVIOUS
<1> QED BY <1>1 DEF Miters, StoppedAt, AsStopped
\* Part of what remains is passed: nothing else of the page changes.
LEMMA PassedOn ==
    ASSUME NEW list \in Seq(Entry), NEW nents \in Nat, NEW m, Placed(list, nents, m), NEW c \in 0 .. m.remaining,
           NEW r \in Miters, r.offset = m.offset + c, r.remaining = m.remaining - c, r.i = m.i, r.sg_pgoffset = m.sg_pgoffset,
           r.pg_advance = m.pg_advance, r.nents = m.nents, r.more = m.more
    PROVE  Placed(list, nents, r) /\ Position(list, r) = Position(list, m) + c /\ Position(list, m) \in Nat
<1> DEFINE a == InPage(m)
           o == m.offset
           l == m.remaining
           y == m.sg_pgoffset * PageSize
           h == LengthUpto(list, m.i - 1)
           f == list[m.i].offset
<1>1. /\ o \in Nat /\ l \in Nat /\ c \in Nat /\ a \in Nat /\ h \in Nat /\ f \in Nat /\ Position(list, m) = h + a - f /\ c <= l
      /\ m.sg_pgoffset \in Nat
  BY PlacedIs DEF EntryOk
<1>2. /\ m.more /\ m.pg_advance = 1 /\ m.i \in 1 .. NamedUpto(list, nents) /\ m.nents = nents - m.i + 1
      /\ m.sg_pgoffset < sg_page_count(list[m.i]) /\ f <= a /\ a + l = PageStart(list[m.i], m.sg_pgoffset + 1) /\ o + l <= PageSize
  BY DEF Placed
<1>3. y \in Nat /\ a = y + o
  <2> DEFINE n == m.sg_pgoffset
  <2>1. n \in Nat /\ PageSize \in Nat
    BY <1>1, ScatterAssumption
  <2> HIDE DEF n
  <2>2. n * PageSize \in Nat
    BY <2>1
  <2> QED BY <2>2, Zenon DEF InPage, n
<1>4. InPage(r) = y + (o + c)
  BY Zenon DEF InPage
<1> HIDE DEF a, o, l, y, h, f
<1>5. /\ y + (o + c) = a + c /\ f <= a + c /\ (a + c) + (l - c) = a + l /\ (o + c) + (l - c) = o + l
      /\ h + (a + c) - f = h + a - f + c /\ h + a - f \in Nat
  BY <1>1, <1>2, <1>3, ScatterAssumption
<1>6. Placed(list, nents, r)
  <2>1. InPage(r) = a + c
    BY <1>4, <1>5, Zenon
  <2>2. r.offset = o + c /\ r.remaining = l - c
    BY Zenon DEF o, l
  <2>3. list[r.i].offset = f
    BY Zenon DEF f
  <2>4. InPage(r) + r.remaining = PageStart(list[r.i], r.sg_pgoffset + 1) /\ r.offset + r.remaining <= PageSize
    BY <1>2, <1>5, <2>1, <2>2, Zenon
  <2>5. list[r.i].offset <= InPage(r)
    BY <1>5, <2>1, <2>3, Zenon
  <2> QED BY <1>2, <2>4, <2>5, Zenon DEF Placed
<1>7. Position(list, r) = h + (a + c) - f
  <2>1. Position(list, r) = LengthUpto(list, r.i - 1) + InPage(r) - list[r.i].offset
    BY <1>6, PlacedIs
  <2> QED BY <1>4, <1>5, <2>1, Zenon DEF h, f
<1> QED BY <1>1, <1>5, <1>6, <1>7, Zenon
PassedTo(list, nents, m, c, r) == Placed(list, nents, r) /\ Position(list, r) = Position(list, m) + c
LEMMA BoundedPasses ==
    ASSUME NEW list \in Seq(Entry), NEW nents \in Nat, NEW m, Placed(list, nents, m), NEW c \in 0 .. m.remaining,
           NEW o, o = m.offset + c, NEW l, l = m.remaining - c, NEW r, AsBounded(r, m, o, l)
    PROVE  PassedTo(list, nents, m, c, r)
<1>1. /\ r \in Miters /\ r.offset = m.offset + c /\ r.remaining = m.remaining - c /\ r.i = m.i /\ r.sg_pgoffset = m.sg_pgoffset
      /\ r.pg_advance = m.pg_advance /\ r.nents = m.nents /\ r.more = m.more
  BY Zenon DEF AsBounded
<1> QED BY <1>1, PassedOn, Zenon DEF PassedTo
LEMMA Stopped ==
    ASSUME NEW list \in Seq(Entry), NEW nents \in Nat, NEW m, InHand(list, nents, m), NEW r, r = backport_sg_miter_stop(m)
    PROVE  /\ InList(list, nents, r) /\ r.addr = <<>> /\ Position(list, r) = Position(list, m) + Consumption(m)
           /\ Position(list, m) \in Nat /\ Consumption(m) \in Nat
<1>1. CASE m.addr = <<>>
  <2>1. r = m /\ Consumption(m) = 0
    BY <1>1, Zenon DEF backport_sg_miter_stop, Consumption
  <2>2. Position(list, m) \in Nat
    BY NextPage DEF InHand
  <2>3. InList(list, nents, m)
    BY DEF InHand
  <2> QED BY <1>1, <2>1, <2>2, <2>3
<1>2. CASE m.addr # <<>>
  <2> DEFINE c == m.consumed
             o == m.offset + c
             l == m.remaining - c
  <2>1. Placed(list, nents, m) /\ c \in 0 .. m.remaining
    BY <1>2 DEF InHand, Mapping
  <2>2. m \in Miters /\ o \in Nat /\ l \in Nat
    BY <2>1, PlacedIs
  <2>3. r = StoppedAt(m, o, l)
    BY <1>2, Zenon DEF backport_sg_miter_stop, StoppedAt
  <2>4. /\ r \in Miters /\ r.offset = o /\ r.remaining = l /\ r.addr = <<>> /\ r.i = m.i /\ r.sg_pgoffset = m.sg_pgoffset
        /\ r.pg_advance = m.pg_advance /\ r.nents = m.nents /\ r.more = m.more
    <3> HIDE DEF o, l
    <3>1. AsStopped(r, m, o, l)
      BY <2>2, <2>3, StopsAt, Zenon
    <3> QED BY <3>1, Zenon DEF AsStopped
  <2>5. Placed(list, nents, r) /\ Position(list, r) = Position(list, m) + c /\ Position(list, m) \in Nat
    BY <2>1, <2>4, PassedOn, ZenonT(60)
  <2>6. Consumption(m) = c /\ c \in Nat
    BY <1>2, <2>1, PlacedIs DEF Consumption
  <2> QED BY <2>4, <2>5, <2>6, Zenon DEF InList
<1> QED BY <1>1, <1>2
Shown(m, a, l) == [m EXCEPT !.addr = a, !.length = l, !.consumed = l]
AsShown(r, m, a, l) ==
    /\ r \in Miters /\ r.addr = a /\ r.length = l /\ r.consumed = l /\ r.offset = m.offset /\ r.remaining = m.remaining
    /\ r.i = m.i /\ r.sg_pgoffset = m.sg_pgoffset /\ r.pg_advance = m.pg_advance /\ r.nents = m.nents /\ r.more = m.more
LEMMA ShownAs == ASSUME NEW m \in Miters, NEW a \in Seq(Nat), NEW l \in Nat PROVE AsShown(Shown(m, a, l), m, a, l)
BY DEF Miters, Shown, AsShown
MappingAt(list, nents, pos, r) ==
    /\ r \in Miters
    /\ r.more => Mapping(list, nents, r) /\ r.consumed = r.remaining /\ Position(list, r) = pos /\ r.addr # <<>>
    /\ ~r.more => r.addr = <<>> /\ pos = Len(AllBytes(list, nents))
LEMMA NextMapping ==
    ASSUME NEW list \in Seq(Entry), NEW nents \in Nat, NEW m, InHand(list, nents, m), NEW r, r = backport_sg_miter_next(list, m)
    PROVE  MappingAt(list, nents, Position(list, m) + Consumption(m), r)
<1> DEFINE s == backport_sg_miter_stop(m)
           p == sg_miter_get_next_page(list, s)
           pos == Position(list, m) + Consumption(m)
           a == <<p.i, InPage(p)>>
           l == p.remaining
<1>1. InList(list, nents, s) /\ s.addr = <<>> /\ Position(list, s) = pos
  <2> HIDE DEF s
  <2>1. s = backport_sg_miter_stop(m)
    BY DEF s
  <2> QED BY <2>1, Stopped, Zenon
<1>2. NextOk(list, nents, pos, s, p)
  <2> HIDE DEF s, p, pos
  <2>1. p = sg_miter_get_next_page(list, s)
    BY DEF p
  <2>2. NextOk(list, nents, Position(list, s), s, p)
    BY <1>1, <2>1, NextPage, Zenon
  <2> QED BY <1>1, <2>2, Zenon
<1>3. p \in Miters /\ p.addr = <<>>
  BY <1>1, <1>2, Zenon DEF NextOk, SameMapping
<1>4. CASE ~p.more
  <2>1. r = p
    BY <1>4, Zenon DEF backport_sg_miter_next
  <2> HIDE DEF p, s, pos
  <2>2. pos = Len(AllBytes(list, nents))
    BY <1>2, <1>4, Zenon DEF NextOk
  <2> QED BY <1>3, <1>4, <2>1, <2>2, Zenon DEF MappingAt, pos
<1>5. CASE p.more
  <2>1. r = Shown(p, a, l)
    BY <1>5, Zenon DEF backport_sg_miter_next, Shown, InPage
  <2>2. Placed(list, nents, p) /\ Position(list, p) = pos
    BY <1>2, <1>5, Zenon DEF NextOk
  <2> HIDE DEF p, s, pos
  <2>3. a \in Seq(Nat) /\ a # <<>> /\ l \in Nat
    BY <2>2, PlacedIs
  <2>4. AsShown(r, p, a, l)
    <3> HIDE DEF a, l
    <3> QED BY <1>3, <2>1, <2>3, ShownAs, Zenon
  <2>5. /\ r \in Miters /\ r.addr = a /\ r.length = l /\ r.consumed = l /\ r.offset = p.offset /\ r.remaining = l
        /\ r.i = p.i /\ r.sg_pgoffset = p.sg_pgoffset /\ r.pg_advance = p.pg_advance /\ r.nents = p.nents /\ r.more = p.more
    BY <2>4, Zenon DEF AsShown
  <2>6. InPage(r) = InPage(p)
    BY <2>5, Zenon DEF InPage
  <2>7. Placed(list, nents, r)
    BY <2>2, <2>5, <2>6, Zenon DEF Placed
  <2>8. Position(list, r) = pos
    BY <2>2, <2>5, <2>6, Zenon DEF Position
  <2>9. l \in 0 .. l
    BY <2>3
  <2>10. Mapping(list, nents, r)
    BY <2>5, <2>6, <2>7, <2>9, Zenon DEF Mapping
  <2> QED BY <1>5, <2>3, <2>5, <2>8, <2>10, Zenon DEF MappingAt, pos
<1> QED BY <1>4, <1>5
InHandOf(all, pos, m) ==
    /\ m \in Miters /\ m.more /\ pos \in Nat /\ Consumption(m) \in Nat /\ pos + Consumption(m) <= Len(all)
    /\ m.addr # <<>> => Mapped(m.addr, Consumption(m)) = SubSeq(all, pos + 1, pos + Consumption(m))
    /\ m.addr # <<>> => pos + m.length <= Len(all) /\ m.length \in Nat /\ Mapped(m.addr, m.length) = SubSeq(all, pos + 1, pos + m.length)
LEMMA InHandBounds ==
    ASSUME NEW list \in Seq(Entry), NEW nents \in Nat, NEW m, InHand(list, nents, m), NEW all, all = AllBytes(list, nents)
    PROVE  InHandOf(all, Position(list, m), m)
<1>1. Position(list, m) \in Nat /\ Consumption(m) \in Nat
  BY Stopped
<1>2. CASE m.addr # <<>>
  <2>1. Mapping(list, nents, m) /\ Placed(list, nents, m)
    BY <1>2 DEF InHand, Mapping
  <2>2. /\ m.addr = <<m.i, InPage(m)>> /\ m.length = m.remaining /\ m.consumed \in 0 .. m.remaining /\ m.remaining \in 0 .. m.remaining
        /\ m \in Miters /\ m.more /\ m.remaining \in Nat
    BY <2>1, PlacedIs DEF Mapping, Placed
  <2>3. \A k \in 0 .. m.remaining :
          Position(list, m) + k <= Len(all) /\ Mapped(m.addr, k) = SubSeq(all, Position(list, m) + 1, Position(list, m) + k)
    <3> SUFFICES ASSUME NEW k \in 0 .. m.remaining
                 PROVE  Position(list, m) + k <= Len(all) /\ Mapped(m.addr, k) = SubSeq(all, Position(list, m) + 1, Position(list, m) + k)
      OBVIOUS
    <3>1. PartAt(all, Position(list, m), m.addr, k)
      BY <2>1, <2>2, PlacedPart, Zenon
    <3> QED BY <3>1, Zenon DEF PartAt
  <2>4. Consumption(m) = m.consumed
    BY <1>2, Zenon DEF Consumption
  <2> QED BY <1>1, <1>2, <2>2, <2>3, <2>4, Zenon DEF InHandOf
<1>3. CASE m.addr = <<>>
  <2>1. Consumption(m) = 0
    BY <1>3, Zenon DEF Consumption
  <2>2. m \in Miters /\ m.more /\ Position(list, m) <= Len(all)
    <3>1. CASE m = Start(nents)
      <4>1. Position(list, m) = 0
        BY <3>1, StartReady
      <4>2. Len(all) \in Nat
        BY AllBytesIs
      <4>3. m \in Miters /\ m.more
        BY <3>1, StartIs
      <4> QED BY <4>1, <4>2, <4>3
    <3>2. CASE Placed(list, nents, m)
      <4>1. 0 \in 0 .. m.remaining /\ m \in Miters /\ m.more
        BY <3>2, PlacedIs DEF Placed
      <4>0. <<m.i, InPage(m)>> = <<m.i, InPage(m)>>
        OBVIOUS
      <4>2. PartAt(all, Position(list, m), <<m.i, InPage(m)>>, 0)
        BY <3>2, <4>0, <4>1, PlacedPart, Zenon
      <4>3. Position(list, m) + 0 <= Len(all)
        BY <4>2, Zenon DEF PartAt
      <4> QED BY <1>1, <4>1, <4>3
    <3> QED BY <3>1, <3>2 DEF InHand, InList
  <2>3. Position(list, m) + Consumption(m) = Position(list, m)
    BY <1>1, <2>1
  <2> QED BY <1>1, <1>3, <2>2, <2>3, Zenon DEF InHandOf
<1> QED BY <1>2, <1>3

-----------------------------------------------------------------------------
(* The states of a scatterlist's users.                                    *)
Bytes == Seq(Adr)
Wants == Bytes \cup (Bytes \X Bytes)
SgPcs == {"idle", "iterate", "all", "skip", "copy", "returned", "free", "freed"}
Sgs == [list : Seq(Entry), nents : Nat, miter : Miters, pc : SgPcs, moved : Bytes, skip : Nat, buf : Bytes, buflen : Nat,
        want : Wants, got : Wants, pages : Seq(Nat), cut : Nat, alive : SUBSET {1, 2}, iter : Nat \X Nat, delete_iter : Nat,
        bad : BOOLEAN]
SameTables(n, z) ==
    /\ n \in Sgs /\ n.list = z.list /\ n.pages = z.pages /\ n.cut = z.cut /\ n.alive = z.alive /\ n.iter = z.iter
    /\ n.delete_iter = z.delete_iter /\ n.bad = z.bad
AsSg(n, z, miter, pc, moved, skip, buf, want, got) ==
    /\ SameTables(n, z) /\ n.nents = z.nents /\ n.buflen = z.buflen
    /\ n.miter = miter /\ n.pc = pc /\ n.moved = moved /\ n.skip = skip /\ n.buf = buf /\ n.want = want /\ n.got = got
Iterating(z, m) == [z EXCEPT !.pc = "iterate", !.miter = m]
LEMMA IteratingAs ==
    ASSUME NEW z \in Sgs, NEW m \in Miters
    PROVE  AsSg(Iterating(z, m), z, m, "iterate", z.moved, z.skip, z.buf, z.want, z.got)
BY DEF Sgs, SgPcs, SameTables, AsSg, Iterating
MovedOn(z, m, b, p) == [z EXCEPT !.miter = m, !.moved = b, !.pc = p]
LEMMA MovedOnAs ==
    ASSUME NEW z \in Sgs, NEW m \in Miters, NEW b \in Bytes, NEW p \in SgPcs
    PROVE  AsSg(MovedOn(z, m, b, p), z, m, p, b, z.skip, z.buf, z.want, z.got)
BY DEF Sgs, SameTables, AsSg, MovedOn
Consuming(z, n) == [z EXCEPT !.miter.consumed = n]
ConsumedSet(m, n) == [m EXCEPT !.consumed = n]
AsConsumed(r, m, n) ==
    /\ r \in Miters /\ r.consumed = n /\ r.addr = m.addr /\ r.length = m.length /\ r.offset = m.offset /\ r.remaining = m.remaining
    /\ r.i = m.i /\ r.sg_pgoffset = m.sg_pgoffset /\ r.pg_advance = m.pg_advance /\ r.nents = m.nents /\ r.more = m.more
LEMMA ConsumedIsSet == ASSUME NEW m \in Miters, NEW n \in Nat PROVE AsConsumed(ConsumedSet(m, n), m, n)
BY DEF Miters, ConsumedSet, AsConsumed
LEMMA ConsumingAs ==
    ASSUME NEW z \in Sgs, NEW n \in Nat, NEW m \in Miters, m = ConsumedSet(z.miter, n)
    PROVE  AsSg(Consuming(z, n), z, m, z.pc, z.moved, z.skip, z.buf, z.want, z.got)
<1>1. Consuming(z, n) = [z EXCEPT !.miter = m]
  BY DEF Consuming, ConsumedSet
<1> QED BY <1>1, ZenonT(60) DEF Sgs, SameTables, AsSg
StoppedAll(z, m, b) == [z EXCEPT !.miter = m, !.moved = b]
LEMMA StoppedAllAs ==
    ASSUME NEW z \in Sgs, NEW m \in Miters, NEW b \in Bytes
    PROVE  AsSg(StoppedAll(z, m, b), z, m, z.pc, b, z.skip, z.buf, z.want, z.got)
BY DEF Sgs, SameTables, AsSg, StoppedAll
ToCopy(z) == [z EXCEPT !.pc = "copy"]
LEMMA ToCopyAs == ASSUME NEW z \in Sgs PROVE AsSg(ToCopy(z), z, z.miter, "copy", z.moved, z.skip, z.buf, z.want, z.got)
BY DEF Sgs, SgPcs, SameTables, AsSg, ToCopy
ReturnedAll(z, c) == [z EXCEPT !.pc = "returned", !.buf = <<>>, !.got = c]
MiterSet(z, m) == [z EXCEPT !.miter = m]
LEMMA ReturnedAllAs ==
    ASSUME NEW z \in Sgs, NEW c \in Wants
    PROVE  AsSg(ReturnedAll(z, c), z, z.miter, "returned", z.moved, z.skip, <<>>, z.want, c)
<1>1. <<>> \in Bytes
  BY DEF Bytes
<1> QED BY <1>1 DEF Sgs, SgPcs, SameTables, AsSg, ReturnedAll
LEMMA MiterSetAs ==
    ASSUME NEW z \in Sgs, NEW m \in Miters
    PROVE  AsSg(MiterSet(z, m), z, m, z.pc, z.moved, z.skip, z.buf, z.want, z.got)
BY DEF Sgs, SameTables, AsSg, MiterSet
Skipping(z, s, m) == [z EXCEPT !.skip = s, !.miter = m]
LEMMA SkippingAs ==
    ASSUME NEW z \in Sgs, NEW m \in Miters, NEW s \in Nat
    PROVE  AsSg(Skipping(z, s, m), z, m, z.pc, z.moved, s, z.buf, z.want, z.got)
BY DEF Sgs, SameTables, AsSg, Skipping
Copying1(z, m, b) == [z EXCEPT !.miter = m, !.buf = b]
LEMMA Copying1As ==
    ASSUME NEW z \in Sgs, NEW m \in Miters, NEW b \in Bytes
    PROVE  AsSg(Copying1(z, m, b), z, m, z.pc, z.moved, z.skip, b, z.want, z.got)
BY DEF Sgs, SameTables, AsSg, Copying1
ConvertedTo(z, w, g) == [z EXCEPT !.pc = "returned", !.want = w, !.got = g]
LEMMA ConvertedAs ==
    ASSUME NEW z \in Sgs, NEW w \in Wants, NEW g \in Wants
    PROVE  AsSg(ConvertedTo(z, w, g), z, z.miter, "returned", z.moved, z.skip, z.buf, w, g)
BY DEF Sgs, SgPcs, SameTables, AsSg, ConvertedTo
CopyBegun(z, nents, m, s, l, w) ==
    [z EXCEPT !.pc = "skip", !.nents = nents, !.miter = m, !.skip = s, !.buf = <<>>, !.buflen = l, !.want = w]
AsFreeBegun(n, z, nents, m, s, l, w) ==
    /\ SameTables(n, z) /\ n.nents = nents /\ n.buflen = l /\ n.miter = m /\ n.pc = "skip" /\ n.moved = z.moved /\ n.skip = s
    /\ n.buf = <<>> /\ n.want = w /\ n.got = z.got
LEMMA CopyBegunAs ==
    ASSUME NEW z \in Sgs, NEW nents \in Nat, NEW m \in Miters, NEW s \in Nat, NEW l \in Nat, NEW w \in Wants
    PROVE  AsFreeBegun(CopyBegun(z, nents, m, s, l, w), z, nents, m, s, l, w)
<1>1. <<>> \in Bytes
  BY DEF Bytes
<1> QED BY <1>1 DEF Sgs, SgPcs, SameTables, AsFreeBegun, CopyBegun

All(z) == AllBytes(z.list, z.nents)
PlaceOf(z) == Position(z.list, z.miter)
IdleHolds(z) == z.pc = "idle" => /\ z.miter = Start(z.nents) /\ z.buf = <<>> /\ z.iter = <<1, 1>> /\ z.delete_iter = 1 /\ z.want = <<>>
                                 /\ z.pages = [i \in DOMAIN z.list |-> 0]
IterateHolds(z) == z.pc = "iterate" => InHand(z.list, z.nents, z.miter) /\ z.moved = SubSeq(All(z), 1, PlaceOf(z))
SkipHolds(z) ==
    z.pc = "skip" => /\ InList(z.list, z.nents, z.miter) /\ z.buf = <<>>
                     /\ z.want = Piece(z.list, z.nents, z.skip + PlaceOf(z), z.buflen)
\* The copy began at byte s.
CopyFrom(z, s) ==
    /\ z.want = Piece(z.list, z.nents, s, z.buflen) /\ z.buf = SubSeq(All(z), s + 1, s + Len(z.buf)) /\ s <= Len(All(z))
    /\ s + Len(z.buf) = Smallest(s + z.buflen, PlaceOf(z) + Consumption(z.miter))
CopyHolds(z) == z.pc = "copy" => InHand(z.list, z.nents, z.miter) /\ \E s \in Nat : CopyFrom(z, s)
MovedHolds(z) == (z.pc = "all" => z.moved = All(z)) /\ (z.pc \notin {"iterate", "all"} => z.moved = <<>>)
EndHolds(z) == (z.pc = "returned" => z.got = z.want) /\ (z.pc \notin {"iterate", "copy"} => z.miter.addr = <<>>)
InTable(z, t, n) == z.iter[1] = t /\ z.iter[2] \in 1 .. n /\ z.delete_iter = t
TablesHold(z) ==
    /\ z.pc \in {"free", "freed"} => z.pages = [i \in DOMAIN z.list |-> 1]
    /\ z.pc = "freed" => z.alive = {}
    /\ z.pc = "free" =>
          /\ z.cut \in 1 .. Len(z.list)
          /\ z.cut = Len(z.list) => z.alive = {1} /\ InTable(z, 1, z.cut)
          /\ z.cut # Len(z.list) => \/ z.alive = {1, 2} /\ InTable(z, 1, z.cut)
                                    \/ z.alive = {2} /\ InTable(z, 2, Len(z.list) - z.cut)
SgHolds(z) ==
    /\ z \in Sgs /\ z.bad = FALSE
    /\ IdleHolds(z) /\ IterateHolds(z) /\ SkipHolds(z) /\ CopyHolds(z) /\ MovedHolds(z) /\ EndHolds(z) /\ TablesHold(z)

LEMMA FirstGrows ==
    ASSUME NEW V, NEW s \in Seq(V), NEW b \in Nat, NEW c \in Nat, b <= c, c <= Len(s)
    PROVE  SubSeq(s, 1, b) \o SubSeq(s, b + 1, c) = SubSeq(s, 1, c)
<1>1. SubSeq(s, 0 + 1, b) \o SubSeq(s, b + 1, c) = SubSeq(s, 0 + 1, c)
  BY PartsJoin
<1>2. 0 + 1 = 1
  OBVIOUS
<1> QED BY <1>1, <1>2
LEMMA FirstIsPrefix ==
    ASSUME NEW V, NEW s \in Seq(V), NEW b \in Nat, b <= Len(s), NEW t, t = SubSeq(s, 1, b)
    PROVE  IsPrefix(t, s) /\ t \in Seq(V) /\ Len(t) = b
<1>1. t \in Seq(V) /\ Len(t) = b
  BY Beginning
<1>2. SubSeq(t, 1, Len(t)) = t
  BY <1>1, PartWhole
<1> QED BY <1>1, <1>2 DEF IsPrefix
LEMMA ConsumedJoins ==
    ASSUME NEW list \in Seq(Entry), NEW nents \in Nat, NEW m, InHand(list, nents, m), NEW all, all = AllBytes(list, nents)
    PROVE  SubSeq(all, 1, Position(list, m)) \o Consumed(m) = SubSeq(all, 1, Position(list, m) + Consumption(m))
<1> DEFINE p == Position(list, m)
           c == Consumption(m)
           b == p + c
<1>0. all \in Seq(Adr)
  BY AllBytesIs
<1>1. p \in Nat /\ c \in Nat /\ b <= Len(all) /\ (m.addr # <<>> => Mapped(m.addr, c) = SubSeq(all, p + 1, b))
  BY InHandBounds, ZenonT(60) DEF InHandOf
<1> HIDE DEF p, c
<1>2. b \in Nat /\ p <= b
  BY <1>1
<1>3. CASE m.addr # <<>>
  <2>1. Consumed(m) = Mapped(m.addr, c)
    BY <1>3, Zenon DEF Consumed, Consumption, c
  <2>2. Consumed(m) = SubSeq(all, p + 1, b)
    BY <1>1, <1>3, <2>1, Zenon
  <2> HIDE DEF b
  <2>3. SubSeq(all, 1, p) \o SubSeq(all, p + 1, b) = SubSeq(all, 1, b)
    BY <1>0, <1>1, <1>2, FirstGrows
  <2> QED BY <2>2, <2>3, Zenon DEF p, c, b
<1>4. CASE m.addr = <<>>
  <2>1. Consumed(m) = <<>> /\ c = 0
    BY <1>4, Zenon DEF Consumed, Consumption, c
  <2>2. SubSeq(all, 1, p) \in Seq(Adr)
    <3>1. p \in 0 .. Len(all)
      BY <1>0, <1>1, <2>1
    <3> QED BY <1>0, <3>1, Beginning
  <2> DEFINE s == SubSeq(all, 1, p)
  <2> HIDE DEF s
  <2>3. s \o <<>> = s
    BY <2>2 DEF s
  <2>4. b = p
    BY <1>1, <2>1
  <2> QED BY <2>1, <2>3, <2>4, Zenon DEF s, p, c, b
<1> QED BY <1>3, <1>4
LEMMA MappingInPage ==
    ASSUME NEW list \in Seq(Entry), NEW nents \in Nat, NEW m, Mapping(list, nents, m)
    PROVE  (m.addr[2] % PageSize) + m.length <= PageSize
<1> DEFINE k == PageSize
           p == m.sg_pgoffset
           o == m.offset
           l == m.remaining
           a == InPage(m)
<1>1. Placed(list, nents, m) /\ m.addr = <<m.i, a>> /\ m.length = l
  BY DEF Mapping
<1>2. k \in Nat \ {0} /\ p \in Nat /\ o \in Nat /\ l \in Nat /\ a \in Nat /\ o + l <= k
  BY <1>1, PlacedIs, ScatterAssumption DEF Placed
<1>3. a = p * k + o /\ m.addr[2] = a
  BY <1>1 DEF InPage
<1> HIDE DEF k, p, o, l, a
<1>4. a = k * p + o
  BY <1>2, <1>3
<1>5. (a % k) + l <= k
  <2>1. CASE o < k
    <3>1. o \in 0 .. k - 1 /\ p \in Int
      BY <1>2, <2>1
    <3>2. (k * p + o) % k = o
      BY <1>2, <3>1, RemainderIs
    <3> QED BY <1>2, <1>4, <3>2
  <2>2. CASE ~(o < k)
    <3>1. l = 0
      BY <1>2, <2>2
    <3>2. a % k \in 0 .. k - 1
      BY <1>2, Divided
    <3> DEFINE x == a % k
    <3> HIDE DEF x
    <3>3. x + l <= k
      BY <1>2, <3>1, <3>2 DEF x
    <3> QED BY <3>3 DEF x
  <2> QED BY <2>1, <2>2
<1> QED BY <1>1, <1>3, <1>5, Zenon DEF k, l
\* The invariant tells that each byte comes once.
PieceOf(all, s, l, w) ==
    /\ w = SubSeq(all, s + 1, Smallest(s + l, Len(all))) /\ w \in Bytes /\ all \in Bytes /\ Len(all) \in Nat
    /\ Len(all) <= s => w = <<>>
LEMMA PieceIs ==
    ASSUME NEW list \in Seq(Entry), NEW nents \in Nat, NEW s \in Nat, NEW l \in Nat, NEW all, all = AllBytes(list, nents)
    PROVE  PieceOf(all, s, l, Piece(list, nents, s, l))
<1> DEFINE n == Smallest(s + l, Len(all))
<1>1. all \in Bytes /\ Len(all) \in Nat
  BY AllBytesIs DEF Bytes
<1>2. n \in Nat /\ n <= Len(all) /\ (s <= Len(all) => s <= n) /\ (Len(all) <= s => n <= s)
  BY <1>1 DEF Smallest
<1>3. Piece(list, nents, s, l) = SubSeq(all, s + 1, n)
  BY Zenon DEF Piece
<1> HIDE DEF n
<1>4. Len(all) <= s => SubSeq(all, s + 1, n) = <<>>
  BY <1>1, <1>2, PartEmpty DEF Bytes
<1>5. SubSeq(all, s + 1, n) \in Bytes
  <2>1. CASE s <= Len(all)
    BY <1>1, <1>2, <2>1, Part DEF Bytes
  <2>2. CASE Len(all) <= s
    <3>1. <<>> \in Bytes
      BY DEF Bytes
    <3> QED BY <1>4, <2>2, <3>1, Zenon
  <2>3. s <= Len(all) \/ Len(all) <= s
    BY <1>1
  <2> QED BY <2>1, <2>2, <2>3, Zenon
<1> QED BY <1>1, <1>3, <1>4, <1>5, Zenon DEF n, PieceOf
LEMMA CopyPrefix ==
    ASSUME NEW z \in Sgs, NEW s \in Nat, CopyFrom(z, s), InHand(z.list, z.nents, z.miter)
    PROVE  IsPrefix(z.buf, z.want) /\ Len(z.buf) <= z.buflen
<1> DEFINE all == All(z)
           b == z.buf
           k == Len(b)
           w == z.want
           l == z.buflen
           pos == PlaceOf(z) + Consumption(z.miter)
           n == Smallest(s + l, Len(all))
<1>1. z.list \in Seq(Entry) /\ z.nents \in Nat /\ l \in Nat /\ b \in Bytes /\ k \in Nat
  BY DEF Sgs, Bytes
<1>2. w = SubSeq(all, s + 1, n) /\ all \in Bytes /\ Len(all) \in Nat
  <2>1. w = Piece(z.list, z.nents, s, l)
    BY Zenon DEF CopyFrom
  <2>2. all = AllBytes(z.list, z.nents)
    BY DEF All
  <2> HIDE DEF all, l
  <2>3. PieceOf(all, s, l, w)
    BY <1>1, <2>1, <2>2, PieceIs, Zenon
  <2> QED BY <2>3, Zenon DEF PieceOf
<1>3. b = SubSeq(all, s + 1, s + k) /\ s <= Len(all) /\ s + k = Smallest(s + l, pos)
  BY Zenon DEF CopyFrom
<1>4. pos \in Nat /\ pos <= Len(all)
  <2> DEFINE p == Position(z.list, z.miter)
             c == Consumption(z.miter)
  <2>1. p \in Nat /\ c \in Nat /\ p + c <= Len(all)
    BY <1>1, InHandBounds, Zenon DEF All, InHandOf
  <2> HIDE DEF p, c
  <2>2. p + c \in Nat
    BY <2>1
  <2> QED BY <2>1, <2>2, Zenon DEF p, c, PlaceOf
<1> HIDE DEF all, b, w, l, pos
<1>5. k <= l /\ n \in Nat /\ n <= Len(all) /\ s + k <= n /\ k <= n - s /\ s <= n
  BY <1>1, <1>2, <1>3, <1>4 DEF Smallest
<1> HIDE DEF k, n
<1>6. w \in Bytes /\ Len(w) = n - s /\ \A j \in 1 .. n - s : w[j] = all[s + j]
  <2>1. s <= n /\ n <= Len(all) /\ all \in Seq(Adr)
    BY <1>2, <1>5 DEF Bytes
  <2> QED BY <1>2, <1>5, <2>1, Part DEF Bytes
<1>7. Len(b) = k /\ \A j \in 1 .. k : b[j] = all[s + j]
  <2> DEFINE e == s + k
  <2>1. e \in Nat /\ s <= e /\ e <= Len(all) /\ e - s = k
    BY <1>1, <1>2, <1>5
  <2>2. b = SubSeq(all, s + 1, e)
    BY <1>3
  <2> HIDE DEF e
  <2>3. Len(b) = e - s /\ \A j \in 1 .. e - s : b[j] = all[s + j]
    BY <1>2, <2>1, <2>2, Part DEF Bytes
  <2> QED BY <2>1, <2>3
<1>8. k \in 0 .. Len(w)
  BY <1>1, <1>5, <1>6
<1> DEFINE u == SubSeq(w, 1, k)
<1>9. u \in Bytes /\ Len(u) = k /\ \A j \in 1 .. k : u[j] = w[j]
  BY <1>6, <1>8, Beginning DEF Bytes
<1>10. b = u
  <2>1. \A j \in 1 .. k : j \in 1 .. n - s
    BY <1>1, <1>5
  <2>2. \A j \in 1 .. k : b[j] = u[j]
    BY <1>6, <1>7, <1>9, <2>1
  <2> HIDE DEF u
  <2> QED BY <1>1, <1>7, <1>9, <2>2, SeqEqual DEF Bytes
<1>11. IsPrefix(b, w)
  <2>1. SubSeq(b, 1, Len(b)) = b
    BY <1>1, PartWhole DEF Bytes
  <2>2. Len(b) <= Len(w) /\ SubSeq(w, 1, Len(b)) = b
    BY <1>1, <1>5, <1>6, <1>7, <1>10
  <2> QED BY <2>1, <2>2 DEF IsPrefix
<1> QED BY <1>1, <1>5, <1>11 DEF b, w, l, k
LEMMA SgSent == ASSUME SgHolds(sg) PROVE SgBytesOnce
<1> DEFINE all == All(sg)
           m == sg.miter
           p == PlaceOf(sg)
<1>1. /\ sg.list \in Seq(Entry) /\ sg.nents \in Nat /\ sg.moved \in Bytes /\ sg.bad = FALSE /\ sg.buf \in Bytes /\ m \in Miters
      /\ sg.pages \in Seq(Nat)
  BY DEF SgHolds, Sgs
<1>2. all \in Seq(Adr) /\ Len(all) \in Nat
  <2>1. all = AllBytes(sg.list, sg.nents)
    BY DEF All
  <2> HIDE DEF all
  <2>2. all \in Seq(Adr)
    BY <1>1, <2>1, AllBytesIs, Zenon
  <2>3. Len(all) \in Nat
    BY ONLY <2>2
  <2> QED BY <2>2, <2>3
<1>3. IterateHolds(sg) /\ CopyHolds(sg) /\ MovedHolds(sg) /\ EndHolds(sg) /\ TablesHold(sg) /\ sg \in Sgs
  BY DEF SgHolds
<1>4. IsPrefix(<<>>, all) /\ IsPrefix(all, all)
  <2>1. SubSeq(<<>>, 1, 0) = <<>> /\ SubSeq(all, 1, 0) = <<>> /\ Len(<<>>) = 0
    BY <1>2
  <2> HIDE DEF all
  <2>2. Len(all) <= Len(all) /\ 0 <= Len(all)
    BY <1>2
  <2> QED BY <1>2, <2>1, <2>2 DEF IsPrefix
<1>5. ASSUME sg.pc = "iterate"
      PROVE  /\ p \in Nat /\ p <= Len(all) /\ sg.moved = SubSeq(all, 1, p) /\ IsPrefix(sg.moved, all)
             /\ m.addr # <<>> => IsPrefix(sg.moved \o Mapped(m.addr, m.length), all)
  <2>1. InHand(sg.list, sg.nents, m) /\ sg.moved = SubSeq(all, 1, p)
    BY <1>3, <1>5 DEF IterateHolds
  <2>2. /\ p \in Nat /\ Consumption(m) \in Nat /\ p + Consumption(m) <= Len(all)
        /\ m.addr # <<>> => p + m.length <= Len(all) /\ m.length \in Nat /\ Mapped(m.addr, m.length) = SubSeq(all, p + 1, p + m.length)
    <3>1. InHandOf(all, p, m)
      BY <1>1, <2>1, InHandBounds, Zenon DEF All, PlaceOf
    <3> HIDE DEF all, p, m
    <3> QED BY <3>1, Zenon DEF InHandOf
  <2> HIDE DEF all, p, m
  <2>3. p <= Len(all)
    BY <1>2, <2>2
  <2>4. IsPrefix(sg.moved, all)
    BY <1>2, <2>1, <2>2, <2>3, FirstIsPrefix
  <2>5. ASSUME m.addr # <<>> PROVE IsPrefix(sg.moved \o Mapped(m.addr, m.length), all)
    <3> DEFINE c == p + m.length
    <3>1. c \in Nat /\ c <= Len(all) /\ p <= c /\ Mapped(m.addr, m.length) = SubSeq(all, p + 1, c)
      BY <2>2, <2>5
    <3> HIDE DEF c
    <3>2. SubSeq(all, 1, p) \o SubSeq(all, p + 1, c) = SubSeq(all, 1, c)
      BY <1>2, <2>2, <3>1, FirstGrows
    <3>3. sg.moved \o Mapped(m.addr, m.length) = SubSeq(all, 1, c)
      BY <2>1, <3>1, <3>2, Zenon
    <3> QED BY <1>2, <3>1, <3>3, FirstIsPrefix
  <2> QED BY <2>1, <2>2, <2>3, <2>4, <2>5
<1>6. IsPrefix(sg.moved, all)
  <2>1. CASE sg.pc = "iterate"
    BY <1>5, <2>1
  <2>2. CASE sg.pc = "all"
    BY <1>3, <1>4, <2>2 DEF MovedHolds
  <2>3. CASE sg.pc \notin {"iterate", "all"}
    BY <1>3, <1>4, <2>3 DEF MovedHolds
  <2> QED BY <2>1, <2>2, <2>3
<1>7. sg.pc = "copy" => IsPrefix(sg.buf, sg.want)
  BY <1>3, CopyPrefix DEF CopyHolds
<1>8. ASSUME m.addr # <<>>
      PROVE  (m.addr[2] % PageSize) + m.length <= PageSize
  <2>1. sg.pc = "iterate" \/ sg.pc = "copy"
    BY <1>3, <1>8 DEF EndHolds
  <2>2. InHand(sg.list, sg.nents, m)
    BY <1>3, <2>1 DEF IterateHolds, CopyHolds
  <2>3. Mapping(sg.list, sg.nents, m)
    BY <1>8, <2>2 DEF InHand
  <2> QED BY <1>1, <2>3, MappingInPage
<1>9. sg.pc \in {"returned", "all"} => m.addr = <<>>
  BY <1>3 DEF EndHolds
<1>10. (sg.pc = "returned" => sg.got = sg.want) /\ (sg.pc = "all" => sg.moved = all)
  BY <1>3 DEF EndHolds, MovedHolds
<1>11. sg.pc = "freed" => sg.alive = {} /\ \A i \in DOMAIN sg.pages : sg.pages[i] = 1
  BY <1>3 DEF TablesHold
<1> HIDE DEF m, p
<1>12. all = AllBytes(sg.list, sg.nents)
  BY DEF All
<1> HIDE DEF all
<1> QED BY <1>1, <1>5, <1>6, <1>7, <1>8, <1>9, <1>10, <1>11, <1>12, Zenon DEF SgBytesOnce, m

\* What each step keeps.
LEMMA SgKept ==
    ASSUME NEW z, SgHolds(z), NEW n, NEW m, NEW pc, NEW moved, NEW skip, NEW buf, NEW want, NEW got,
           AsSg(n, z, m, pc, moved, skip, buf, want, got), pc \notin {"idle", "free", "freed"}
    PROVE  /\ n \in Sgs /\ n.bad = FALSE /\ IdleHolds(n) /\ TablesHold(n) /\ All(n) = All(z) /\ n.list = z.list /\ n.nents = z.nents
           /\ n.buflen = z.buflen /\ z.list \in Seq(Entry) /\ z.nents \in Nat
<1>1. /\ n \in Sgs /\ n.bad = FALSE /\ n.list = z.list /\ n.nents = z.nents /\ n.pc = pc /\ n.buflen = z.buflen
      /\ z.list \in Seq(Entry) /\ z.nents \in Nat
  BY DEF AsSg, SameTables, SgHolds, Sgs
<1>2. All(n) = All(z)
  BY <1>1, Zenon DEF All
<1>3. IdleHolds(n) /\ TablesHold(n)
  BY <1>1 DEF IdleHolds, TablesHold
<1> QED BY <1>1, <1>2, <1>3
LEMMA StartInHand ==
    ASSUME NEW list \in Seq(Entry), NEW nents \in Nat
    PROVE  /\ Start(nents) \in Miters /\ InList(list, nents, Start(nents)) /\ InHand(list, nents, Start(nents))
           /\ Start(nents).addr = <<>> /\ Position(list, Start(nents)) = 0
<1> DEFINE m == Start(nents)
<1>1. m \in Miters /\ m.addr = <<>> /\ Position(list, m) = 0
  BY StartIs, StartReady
<1> QED BY <1>1 DEF InList, InHand
LEMMA StartHolds == ASSUME SgHolds(sg), backport_sg_miter_start PROVE SgHolds(sg')
<1> DEFINE m == Start(sg.nents)
<1>1. sg \in Sgs /\ sg.list \in Seq(Entry) /\ sg.nents \in Nat /\ sg.pc = "idle" /\ sg.moved = <<>>
  BY DEF SgHolds, Sgs, backport_sg_miter_start, MovedHolds
<1>2. m \in Miters /\ InHand(sg.list, sg.nents, m) /\ Position(sg.list, m) = 0
  BY <1>1, StartInHand
<1>3. sg' = Iterating(sg, m)
  BY Zenon DEF backport_sg_miter_start, Iterating
<1> HIDE DEF m
<1>4. AsSg(sg', sg, m, "iterate", sg.moved, sg.skip, sg.buf, sg.want, sg.got)
  BY <1>1, <1>2, <1>3, IteratingAs, Zenon
<1> DEFINE n == sg'
<1>5. /\ n \in Sgs /\ n.bad = FALSE /\ IdleHolds(n) /\ TablesHold(n) /\ All(n) = All(sg) /\ n.list = sg.list /\ n.nents = sg.nents
  <2>1. "iterate" \notin {"idle", "free", "freed"}
    OBVIOUS
  <2> QED BY <1>4, <2>1, SgKept
<1>6. n.miter = m /\ n.pc = "iterate" /\ n.moved = <<>>
  BY <1>1, <1>4, Zenon DEF AsSg
<1>7. SubSeq(All(sg), 1, 0) = <<>>
  BY <1>1, AllBytesIs DEF All
<1> HIDE DEF n
<1>8. IterateHolds(n)
  BY <1>2, <1>5, <1>6, <1>7, Zenon DEF IterateHolds, PlaceOf
<1>9. SkipHolds(n) /\ CopyHolds(n) /\ MovedHolds(n) /\ EndHolds(n)
  BY <1>6 DEF SkipHolds, CopyHolds, MovedHolds, EndHolds
<1> QED BY <1>5, <1>8, <1>9, Zenon DEF SgHolds, n
\* The state while the user iterates.
LEMMA Iterates ==
    ASSUME SgHolds(sg), sg.pc = "iterate", NEW m, m = sg.miter, NEW all, all = All(sg), NEW pos, pos = PlaceOf(sg)
    PROVE  /\ sg \in Sgs /\ sg.list \in Seq(Entry) /\ sg.nents \in Nat /\ InHand(sg.list, sg.nents, m) /\ m \in Miters
           /\ sg.moved = SubSeq(all, 1, pos) /\ pos \in Nat /\ Consumption(m) \in Nat
           /\ sg.moved \o Consumed(m) = SubSeq(all, 1, pos + Consumption(m)) /\ SubSeq(all, 1, pos + Consumption(m)) \in Bytes
           /\ all \in Bytes /\ pos + Consumption(m) <= Len(all)
<1>1. sg \in Sgs /\ sg.list \in Seq(Entry) /\ sg.nents \in Nat /\ InHand(sg.list, sg.nents, m) /\ m \in Miters
      /\ sg.moved = SubSeq(all, 1, pos)
  BY DEF SgHolds, Sgs, IterateHolds
<1>2. all = AllBytes(sg.list, sg.nents) /\ pos = Position(sg.list, m)
  BY DEF All, PlaceOf
<1>3. SubSeq(all, 1, pos) \o Consumed(m) = SubSeq(all, 1, pos + Consumption(m))
  BY <1>1, <1>2, ConsumedJoins, Zenon
<1>4. InHandOf(all, pos, m)
  BY <1>1, <1>2, InHandBounds, Zenon
<1>5. pos \in Nat /\ Consumption(m) \in Nat /\ pos + Consumption(m) <= Len(all)
  BY <1>4, Zenon DEF InHandOf
<1>6. all \in Bytes
  BY <1>1, <1>2, AllBytesIs DEF Bytes
<1>7. SubSeq(all, 1, pos + Consumption(m)) \in Bytes
  <2> DEFINE b == pos + Consumption(m)
  <2>1. b \in Nat /\ b <= Len(all)
    BY <1>5
  <2> HIDE DEF b
  <2>2. SubSeq(all, 1, b) \in Bytes
    BY <1>6, <2>1, FirstIsPrefix DEF Bytes
  <2> QED BY <2>2 DEF b
<1> QED BY <1>1, <1>3, <1>5, <1>6, <1>7, Zenon
LEMMA IterateHolds1 == ASSUME SgHolds(sg), Iterate PROVE SgHolds(sg')
<1> DEFINE r == sg.miter
           all == All(sg)
           pos == PlaceOf(sg) + Consumption(r)
           b == sg.moved \o Consumed(r)
           m == backport_sg_miter_next(sg.list, r)
           pc == IF m.more THEN sg.pc ELSE "all"
           n == sg'
<1>1. sg.pc = "iterate" /\ n = MovedOn(sg, m, b, pc)
  BY Zenon DEF Iterate, MovedOn
<1>2. /\ sg \in Sgs /\ sg.list \in Seq(Entry) /\ sg.nents \in Nat /\ InHand(sg.list, sg.nents, r) /\ b = SubSeq(all, 1, pos) /\ b \in Bytes
      /\ all \in Bytes
  <2> HIDE DEF all, r, b
  <2>1. r = sg.miter /\ all = All(sg)
    BY DEF r, all
  <2>2. /\ sg \in Sgs /\ sg.list \in Seq(Entry) /\ sg.nents \in Nat /\ InHand(sg.list, sg.nents, r) /\ all \in Bytes
        /\ sg.moved \o Consumed(r) = SubSeq(all, 1, pos) /\ SubSeq(all, 1, pos) \in Bytes
    BY <1>1, <2>1, Iterates
  <2>3. b = sg.moved \o Consumed(r)
    BY DEF b
  <2> QED BY <2>2, <2>3, Zenon
<1>3. MappingAt(sg.list, sg.nents, pos, m)
  <2> HIDE DEF r, m
  <2>1. m = backport_sg_miter_next(sg.list, r)
    BY DEF m
  <2>2. MappingAt(sg.list, sg.nents, Position(sg.list, r) + Consumption(r), m)
    BY <1>2, <2>1, NextMapping, Zenon
  <2> QED BY <2>2, Zenon DEF PlaceOf, r
<1>4. m \in Miters
  BY <1>3, Zenon DEF MappingAt
<1>5. pc \in SgPcs /\ pc \notin {"idle", "free", "freed"}
  BY <1>1 DEF SgPcs
<1> HIDE DEF all, pos, b, m, pc, n
<1>6. AsSg(n, sg, m, pc, b, sg.skip, sg.buf, sg.want, sg.got)
  BY <1>1, <1>2, <1>4, <1>5, MovedOnAs, Zenon
<1>7. n \in Sgs /\ n.bad = FALSE /\ IdleHolds(n) /\ TablesHold(n) /\ All(n) = all /\ n.list = sg.list /\ n.nents = sg.nents
  BY <1>5, <1>6, SgKept DEF all
<1>8. n.miter = m /\ n.pc = pc /\ n.moved = b
  BY <1>6, Zenon DEF AsSg
<1>9. CASE m.more
  <2>1. Mapping(sg.list, sg.nents, m) /\ Position(sg.list, m) = pos
    BY <1>3, <1>9, Zenon DEF MappingAt
  <2>2. InHand(sg.list, sg.nents, m)
    BY <2>1, Zenon DEF InHand, InList, Mapping
  <2>3. n.pc = "iterate"
    BY <1>1, <1>8, <1>9 DEF pc
  <2>4. IterateHolds(n)
    BY <1>2, <1>7, <1>8, <2>1, <2>2, Zenon DEF IterateHolds, PlaceOf
  <2>5. SkipHolds(n) /\ CopyHolds(n) /\ MovedHolds(n) /\ EndHolds(n)
    BY <2>3 DEF SkipHolds, CopyHolds, MovedHolds, EndHolds
  <2> QED BY <1>7, <2>4, <2>5, Zenon DEF SgHolds, n
<1>10. CASE ~m.more
  <2>1. m.addr = <<>> /\ pos = Len(all)
    BY <1>3, <1>10, Zenon DEF MappingAt, all, All
  <2>2. n.pc = "all"
    BY <1>8, <1>10 DEF pc
  <2>3. b = all
    BY <1>2, <2>1, PartWhole DEF Bytes
  <2>4. IterateHolds(n) /\ SkipHolds(n) /\ CopyHolds(n)
    BY <2>2 DEF IterateHolds, SkipHolds, CopyHolds
  <2>5. MovedHolds(n) /\ EndHolds(n)
    BY <1>7, <1>8, <2>1, <2>2, <2>3 DEF MovedHolds, EndHolds
  <2> QED BY <1>7, <2>4, <2>5, Zenon DEF SgHolds, n
<1> QED BY <1>9, <1>10
LEMMA ConsumeLessHolds == ASSUME SgHolds(sg), ConsumeLess PROVE SgHolds(sg')
<1> DEFINE r == sg.miter
           n == sg'
<1>1. PICK c \in 0 .. r.consumed : n = Consuming(sg, c)
  BY Zenon DEF ConsumeLess, Consuming
<1>2. sg.pc = "iterate" /\ r.addr # <<>>
  BY DEF ConsumeLess
<1>3. /\ sg \in Sgs /\ sg.list \in Seq(Entry) /\ sg.nents \in Nat /\ InHand(sg.list, sg.nents, r) /\ r \in Miters
      /\ sg.moved = SubSeq(All(sg), 1, PlaceOf(sg))
  BY <1>2, Iterates
<1>4. Mapping(sg.list, sg.nents, r) /\ Placed(sg.list, sg.nents, r)
  BY <1>2, <1>3 DEF InHand, Mapping
<1>5. r.consumed \in Nat /\ r.consumed <= r.remaining /\ r.remaining \in Nat
  BY <1>3, <1>4 DEF Mapping, Miters
<1>6. c \in Nat /\ c \in 0 .. r.remaining
  BY <1>5
<1> DEFINE m == ConsumedSet(r, c)
<1>7. AsConsumed(m, r, c)
  BY <1>3, <1>6, ConsumedIsSet
<1> HIDE DEF m, r, n
<1>8. /\ m \in Miters /\ m.consumed = c /\ m.addr = r.addr /\ m.length = r.length /\ m.offset = r.offset /\ m.remaining = r.remaining
      /\ m.i = r.i /\ m.sg_pgoffset = r.sg_pgoffset /\ m.pg_advance = r.pg_advance /\ m.nents = r.nents /\ m.more = r.more
  BY <1>7, Zenon DEF AsConsumed
<1>9. AsSg(n, sg, m, sg.pc, sg.moved, sg.skip, sg.buf, sg.want, sg.got)
  BY <1>1, <1>3, <1>6, <1>8, ConsumingAs, Zenon DEF m, r
<1>10. InPage(m) = InPage(r)
  BY <1>8, Zenon DEF InPage
<1>11. Placed(sg.list, sg.nents, m)
  BY <1>4, <1>8, <1>10, Zenon DEF Placed
<1>12. Position(sg.list, m) = Position(sg.list, r)
  BY <1>8, <1>10, Zenon DEF Position
<1>13. Mapping(sg.list, sg.nents, m)
  BY <1>4, <1>6, <1>8, <1>10, <1>11, Zenon DEF Mapping
<1>14. InHand(sg.list, sg.nents, m)
  BY <1>11, <1>13, Zenon DEF InHand, InList
<1>15. sg.pc \notin {"idle", "free", "freed"}
  BY <1>2
<1>16. n \in Sgs /\ n.bad = FALSE /\ IdleHolds(n) /\ TablesHold(n) /\ All(n) = All(sg) /\ n.list = sg.list /\ n.nents = sg.nents
  BY <1>9, <1>15, SgKept
<1>17. n.miter = m /\ n.pc = "iterate" /\ n.moved = sg.moved
  BY <1>2, <1>9, Zenon DEF AsSg
<1>18. IterateHolds(n)
  BY <1>3, <1>12, <1>14, <1>16, <1>17, Zenon DEF IterateHolds, PlaceOf, r
<1>19. SkipHolds(n) /\ CopyHolds(n) /\ MovedHolds(n) /\ EndHolds(n)
  BY <1>17 DEF SkipHolds, CopyHolds, MovedHolds, EndHolds
<1> QED BY <1>16, <1>18, <1>19, Zenon DEF SgHolds, n
LEMMA StopHolds == ASSUME SgHolds(sg), Stop PROVE SgHolds(sg')
<1> DEFINE r == sg.miter
           all == All(sg)
           pos == PlaceOf(sg) + Consumption(r)
           b == sg.moved \o Consumed(r)
           m == backport_sg_miter_stop(r)
           n == sg'
<1>1. sg.pc = "iterate" /\ n = StoppedAll(sg, m, b)
  BY Zenon DEF Stop, StoppedAll
<1>2. /\ sg \in Sgs /\ sg.list \in Seq(Entry) /\ sg.nents \in Nat /\ InHand(sg.list, sg.nents, r) /\ b = SubSeq(all, 1, pos) /\ b \in Bytes
  <2> HIDE DEF all, r, b
  <2>1. r = sg.miter /\ all = All(sg)
    BY DEF r, all
  <2>2. /\ sg \in Sgs /\ sg.list \in Seq(Entry) /\ sg.nents \in Nat /\ InHand(sg.list, sg.nents, r)
        /\ sg.moved \o Consumed(r) = SubSeq(all, 1, pos) /\ SubSeq(all, 1, pos) \in Bytes
    BY <1>1, <2>1, Iterates
  <2>3. b = sg.moved \o Consumed(r)
    BY DEF b
  <2> QED BY <2>2, <2>3, Zenon
<1>3. InList(sg.list, sg.nents, m) /\ m.addr = <<>> /\ Position(sg.list, m) = pos
  <2> HIDE DEF r, m
  <2>1. m = backport_sg_miter_stop(r)
    BY DEF m
  <2>2. InList(sg.list, sg.nents, m) /\ m.addr = <<>> /\ Position(sg.list, m) = Position(sg.list, r) + Consumption(r)
    BY <1>2, <2>1, Stopped
  <2> QED BY <2>2, Zenon DEF PlaceOf, r
<1>4. m \in Miters
  <2> HIDE DEF m
  <2> QED BY <1>2, <1>3, StartIs DEF InList, Placed
<1>5. sg.pc \notin {"idle", "free", "freed"}
  BY <1>1
<1> HIDE DEF all, pos, b, m, n, r
<1>6. AsSg(n, sg, m, sg.pc, b, sg.skip, sg.buf, sg.want, sg.got)
  BY <1>1, <1>2, <1>4, StoppedAllAs, Zenon
<1>7. n \in Sgs /\ n.bad = FALSE /\ IdleHolds(n) /\ TablesHold(n) /\ All(n) = all /\ n.list = sg.list /\ n.nents = sg.nents
  BY <1>5, <1>6, SgKept DEF all
<1>8. n.miter = m /\ n.pc = "iterate" /\ n.moved = b
  BY <1>1, <1>6, Zenon DEF AsSg
<1>9. InHand(sg.list, sg.nents, m)
  BY <1>3, Zenon DEF InHand
<1>10. IterateHolds(n)
  BY <1>2, <1>3, <1>7, <1>8, <1>9, Zenon DEF IterateHolds, PlaceOf
<1>11. SkipHolds(n) /\ CopyHolds(n) /\ MovedHolds(n) /\ EndHolds(n)
  BY <1>8 DEF SkipHolds, CopyHolds, MovedHolds, EndHolds
<1> QED BY <1>7, <1>10, <1>11, Zenon DEF SgHolds, n

\* The copy.
LEMMA CopyBegins ==
    ASSUME SgHolds(sg), sg.pc = "idle", NEW nents \in Nat, NEW len \in Nat, NEW skip \in Nat, NEW n, n = sg_copy_buffer(nents, len, skip)
    PROVE  SgHolds(n)
<1> DEFINE m == Start(nents)
           w == Piece(sg.list, nents, skip, len)
<1>1. sg \in Sgs /\ sg.list \in Seq(Entry) /\ sg.moved = <<>>
  BY DEF SgHolds, Sgs, MovedHolds
<1>2. m \in Miters /\ InList(sg.list, nents, m) /\ m.addr = <<>> /\ Position(sg.list, m) = 0
  BY <1>1, StartInHand
<1>3. n = CopyBegun(sg, nents, m, skip, len, w)
  BY Zenon DEF sg_copy_buffer, CopyBegun
<1>4. w \in Wants
  <2>1. PieceOf(AllBytes(sg.list, nents), skip, len, w)
    BY <1>1, PieceIs
  <2>2. w \in Bytes
    BY <2>1, Zenon DEF PieceOf
  <2> HIDE DEF w
  <2> QED BY <2>2 DEF Wants
<1> HIDE DEF m, w
<1>5. AsFreeBegun(n, sg, nents, m, skip, len, w)
  BY <1>1, <1>2, <1>3, <1>4, CopyBegunAs, Zenon
<1>6. /\ n \in Sgs /\ n.list = sg.list /\ n.bad = sg.bad /\ n.nents = nents /\ n.buflen = len /\ n.miter = m /\ n.pc = "skip"
      /\ n.moved = <<>> /\ n.skip = skip /\ n.buf = <<>> /\ n.want = w
  BY <1>1, <1>5, Zenon DEF AsFreeBegun, SameTables
<1>7. n.bad = FALSE /\ IdleHolds(n) /\ TablesHold(n) /\ IterateHolds(n) /\ CopyHolds(n) /\ MovedHolds(n) /\ EndHolds(n)
  BY <1>2, <1>6 DEF SgHolds, IdleHolds, TablesHold, IterateHolds, CopyHolds, MovedHolds, EndHolds
<1>8. n.skip + PlaceOf(n) = skip
  <2>1. PlaceOf(n) = 0 /\ n.skip = skip
    BY <1>2, <1>6, Zenon DEF PlaceOf
  <2> QED BY <2>1
<1>9. SkipHolds(n)
  BY <1>2, <1>6, <1>8, Zenon DEF SkipHolds, w
<1> QED BY <1>6, <1>7, <1>9, Zenon DEF SgHolds
\* A copy that returns has what it was to copy.
LEMMA Returns ==
    ASSUME SgHolds(sg), NEW m \in Miters, m.addr = <<>>, NEW c, c = sg.want, NEW n, sg.moved = <<>>,
           AsSg(n, sg, m, "returned", sg.moved, sg.skip, <<>>, sg.want, c)
    PROVE  SgHolds(n)
<1>1. n \in Sgs /\ n.bad = FALSE /\ IdleHolds(n) /\ TablesHold(n) /\ All(n) = All(sg) /\ n.list = sg.list /\ n.nents = sg.nents
  <2>1. "returned" \notin {"idle", "free", "freed"}
    OBVIOUS
  <2> QED BY <2>1, SgKept
<1>2. n.miter = m /\ n.pc = "returned" /\ n.moved = <<>> /\ n.want = n.got
  BY Zenon DEF AsSg
<1>3. IterateHolds(n) /\ SkipHolds(n) /\ CopyHolds(n) /\ MovedHolds(n) /\ EndHolds(n)
  BY <1>2 DEF IterateHolds, SkipHolds, CopyHolds, MovedHolds, EndHolds
<1> QED BY <1>1, <1>3, Zenon DEF SgHolds
LEMMA SkipsHolds == ASSUME SgHolds(sg), sg_miter_skip PROVE SgHolds(sg')
<1> DEFINE r == sg.miter
           all == All(sg)
           pos == PlaceOf(sg)
           l == sg.buflen
           z == sg'
<1>1. /\ sg \in Sgs /\ sg.list \in Seq(Entry) /\ sg.nents \in Nat /\ sg.pc = "skip" /\ sg.moved = <<>> /\ sg.skip \in Nat /\ l \in Nat
      /\ InList(sg.list, sg.nents, r) /\ sg.buf = <<>> /\ sg.want = Piece(sg.list, sg.nents, sg.skip + pos, l) /\ r.addr = <<>>
      /\ r \in Miters
  BY DEF SgHolds, Sgs, MovedHolds, EndHolds, SkipHolds, sg_miter_skip
<1>2. InHand(sg.list, sg.nents, r)
  BY <1>1 DEF InHand
<1>3. pos \in Nat /\ pos <= Len(all) /\ all \in Bytes /\ Len(all) \in Nat
  <2> DEFINE p == Position(sg.list, r)
             q == Consumption(r)
  <2>1. InHandOf(all, p, r)
    BY <1>1, <1>2, InHandBounds, Zenon DEF All
  <2>2. p \in Nat /\ p + q <= Len(all)
    BY <2>1, Zenon DEF InHandOf
  <2>3. q = 0
    BY <1>1, Zenon DEF Consumption
  <2>4. all \in Bytes /\ Len(all) \in Nat
    <3>1. all = AllBytes(sg.list, sg.nents)
      BY DEF All
    <3> HIDE DEF all, l, r, z, pos
    <3>2. all \in Seq(Adr)
      BY <1>1, <3>1, AllBytesIs
    <3> QED BY <3>2 DEF Bytes
  <2> HIDE DEF p, q
  <2>5. p <= Len(all)
    BY <2>2, <2>3, <2>4
  <2> QED BY <2>2, <2>4, <2>5 DEF p, PlaceOf
<1>4. CASE sg.skip = 0
  <2>1. z = ToCopy(sg)
    BY <1>4, Zenon DEF sg_miter_skip, ToCopy
  <2> HIDE DEF z
  <2>2. AsSg(z, sg, r, "copy", sg.moved, sg.skip, sg.buf, sg.want, sg.got)
    BY <1>1, <2>1, ToCopyAs, Zenon
  <2>3. /\ z \in Sgs /\ z.bad = FALSE /\ IdleHolds(z) /\ TablesHold(z) /\ All(z) = all /\ z.list = sg.list /\ z.nents = sg.nents
        /\ z.buflen = l
    <3>1. "copy" \notin {"idle", "free", "freed"}
      OBVIOUS
    <3> QED BY <2>2, <3>1, SgKept
  <2>4. z.miter = r /\ z.pc = "copy" /\ z.moved = <<>> /\ z.buf = <<>> /\ z.want = sg.want
    BY <1>1, <2>2, Zenon DEF AsSg
  <2>5. IterateHolds(z) /\ SkipHolds(z) /\ MovedHolds(z) /\ EndHolds(z)
    BY <2>4 DEF IterateHolds, SkipHolds, MovedHolds, EndHolds
  <2>6. CopyFrom(z, pos)
    <3>1. PlaceOf(z) = pos
      BY <2>3, <2>4, Zenon DEF PlaceOf
    <3>2. Consumption(z.miter) = 0
      BY <1>1, <2>4, Zenon DEF Consumption
    <3> HIDE DEF all, pos, l
    <3>3. sg.skip + pos = pos /\ pos + 0 = pos /\ Len(<<>>) = 0 /\ pos <= pos + l /\ SubSeq(all, pos + 1, pos) = <<>>
      <4>1. SubSeq(all, pos + 1, pos) = <<>>
        BY <1>3, PartEmpty DEF Bytes
      <4> QED BY <1>1, <1>3, <1>4, <4>1
    <3>4. Smallest(pos + l, pos) = pos
      BY <1>1, <1>3, <3>3 DEF Smallest
    <3>5. z.want = Piece(z.list, z.nents, pos, z.buflen)
      BY <1>1, <2>3, <2>4, <3>3, Zenon
    <3> QED BY <1>3, <2>3, <2>4, <3>1, <3>2, <3>3, <3>4, <3>5, Zenon DEF CopyFrom
  <2>7. CopyHolds(z)
    BY <1>2, <1>3, <2>3, <2>4, <2>6, Zenon DEF CopyHolds
  <2> QED BY <2>3, <2>5, <2>7, Zenon DEF SgHolds, z
<1>5. CASE sg.skip # 0
  <2> DEFINE m == sg_miter_get_next_page(sg.list, backport_sg_miter_stop(r))
             c == Smallest(sg.skip, m.remaining)
  <2>1. m = sg_miter_get_next_page(sg.list, r)
    BY <1>1, Zenon DEF backport_sg_miter_stop
  <2>2. NextOk(sg.list, sg.nents, pos, r, m)
    <3> HIDE DEF m, r
    <3>1. NextOk(sg.list, sg.nents, Position(sg.list, r), r, m)
      BY <1>1, <2>1, NextPage, Zenon
    <3> QED BY <3>1, Zenon DEF PlaceOf, r
  <2>3. m \in Miters /\ m.addr = <<>>
    BY <1>1, <2>2, Zenon DEF NextOk, SameMapping
  <2>4. CASE ~m.more
    <3>1. z = MiterSet(ReturnedAll(sg, <<>>), m)
      BY <1>5, <2>4, Zenon DEF sg_miter_skip, Returned, MiterSet, ReturnedAll
    <3> DEFINE y == ReturnedAll(sg, <<>>)
    <3>2. <<>> \in Wants
      BY DEF Wants, Bytes
    <3>3. AsSg(y, sg, r, "returned", sg.moved, sg.skip, <<>>, sg.want, <<>>)
      BY <1>1, <3>2, ReturnedAllAs
    <3> HIDE DEF m, y, z
    <3>4. AsSg(z, y, m, y.pc, y.moved, y.skip, y.buf, y.want, y.got)
      <4>1. y \in Sgs
        BY <3>3, Zenon DEF AsSg, SameTables
      <4> QED BY <2>3, <3>1, <4>1, MiterSetAs, Zenon DEF y
    <3>5. AsSg(z, sg, m, "returned", sg.moved, sg.skip, <<>>, sg.want, <<>>)
      BY <3>3, <3>4, Zenon DEF AsSg, SameTables
    <3>6. sg.want = <<>>
      <4> DEFINE s == sg.skip + pos
      <4>1. pos = Len(all)
        BY <2>2, <2>4, Zenon DEF NextOk, All
      <4>2. s \in Nat /\ Len(all) <= s
        <5> HIDE DEF all, pos
        <5> QED BY <1>1, <1>3, <4>1
      <4> HIDE DEF s
      <4>3. PieceOf(all, s, l, Piece(sg.list, sg.nents, s, l))
        BY <1>1, <4>2, PieceIs DEF All
      <4>4. Piece(sg.list, sg.nents, s, l) = <<>>
        BY <4>2, <4>3, Zenon DEF PieceOf
      <4> QED BY <1>1, <4>4, Zenon DEF s
    <3> QED BY <1>1, <2>3, <3>5, <3>6, Returns, Zenon DEF z
  <2>5. CASE m.more
    <3> DEFINE p == Bounded(m, m.offset + c, m.remaining - c)
    <3>1. z = Skipping(sg, sg.skip - c, p)
      BY <1>5, <2>5, Zenon DEF sg_miter_skip, Skipping, Bounded
    <3>2. Placed(sg.list, sg.nents, m) /\ Position(sg.list, m) = pos
      BY <2>2, <2>5, Zenon DEF NextOk
    <3>3. m.offset \in Nat /\ m.remaining \in Nat
      BY <2>3 DEF Miters
    <3>4. c \in 0 .. m.remaining /\ c \in Nat /\ c <= sg.skip /\ m.offset + c \in Nat /\ m.remaining - c \in Nat /\ sg.skip - c \in Nat
      BY <1>1, <3>3 DEF Smallest
    <3> HIDE DEF m, c, z
    <3>5. AsBounded(p, m, m.offset + c, m.remaining - c)
      BY <2>3, <3>4, BoundsAre, Zenon
    <3> HIDE DEF p
    <3>6. /\ p \in Miters /\ p.offset = m.offset + c /\ p.remaining = m.remaining - c /\ p.addr = <<>>
          /\ p.i = m.i /\ p.sg_pgoffset = m.sg_pgoffset /\ p.pg_advance = m.pg_advance /\ p.nents = m.nents /\ p.more = m.more
      BY <2>3, <3>5, Zenon DEF AsBounded
    <3>7. Placed(sg.list, sg.nents, p) /\ Position(sg.list, p) = pos + c
      <4> DEFINE o == m.offset + c
                 d == m.remaining - c
      <4>1. AsBounded(p, m, o, d)
        BY <3>5
      <4> HIDE DEF pos, o, d
      <4>2. o = m.offset + c /\ d = m.remaining - c
        BY DEF o, d
      <4>3. PassedTo(sg.list, sg.nents, m, c, p)
        BY <1>1, <3>2, <3>4, <4>1, <4>2, BoundedPasses, Zenon
      <4> QED BY <3>2, <4>3, Zenon DEF PassedTo
    <3>8. AsSg(z, sg, p, sg.pc, sg.moved, sg.skip - c, sg.buf, sg.want, sg.got)
      BY <1>1, <3>1, <3>4, <3>6, SkippingAs, Zenon
    <3>9. /\ z \in Sgs /\ z.bad = FALSE /\ IdleHolds(z) /\ TablesHold(z) /\ All(z) = all /\ z.list = sg.list /\ z.nents = sg.nents
          /\ z.buflen = l
      <4>1. sg.pc \notin {"idle", "free", "freed"}
        BY <1>1
      <4> QED BY <3>8, <4>1, SgKept
    <3>10. z.miter = p /\ z.pc = "skip" /\ z.moved = <<>> /\ z.buf = <<>> /\ z.want = sg.want /\ z.skip = sg.skip - c
      BY <1>1, <3>8, Zenon DEF AsSg
    <3>11. IterateHolds(z) /\ CopyHolds(z) /\ MovedHolds(z) /\ EndHolds(z)
      BY <3>6, <3>10 DEF IterateHolds, CopyHolds, MovedHolds, EndHolds
    <3>12. z.skip + PlaceOf(z) = sg.skip + pos
      <4>1. PlaceOf(z) = pos + c
        BY <3>7, <3>9, <3>10, Zenon DEF PlaceOf
      <4> HIDE DEF pos
      <4> QED BY <1>1, <1>3, <3>4, <3>10, <4>1
    <3>13. InList(sg.list, sg.nents, p)
      BY <3>7, Zenon DEF InList
    <3>14. SkipHolds(z)
      BY <1>1, <3>9, <3>10, <3>12, <3>13, Zenon DEF SkipHolds
    <3> QED BY <3>9, <3>11, <3>14, Zenon DEF SgHolds, z
  <2> QED BY <2>4, <2>5
<1> QED BY <1>4, <1>5

\* A round of the copy adds the mapping, or what there is room for.
CopiedTo(all, s, l, p, b) == b \in Bytes /\ b = SubSeq(all, s + 1, s + Len(b)) /\ s + Len(b) = Smallest(s + l, p)
LEMMA CopyAdds ==
    ASSUME NEW all \in Bytes, NEW s \in Nat, NEW l \in Nat, NEW p \in Nat, NEW b, CopiedTo(all, s, l, p, b), Len(b) < l, s <= Len(all),
           NEW d \in Nat, NEW n, n = Smallest(d, l - Len(b)), NEW t, t = SubSeq(all, p + 1, p + n),
           NEW q, q = p + d, q <= Len(all), NEW u, u = b \o t
    PROVE  CopiedTo(all, s, l, q, u)
<1> DEFINE k == Len(b)
           e == p + n
<1>1. b \in Bytes /\ k \in Nat /\ b = SubSeq(all, s + 1, s + k) /\ s + k = Smallest(s + l, p) /\ k < l /\ Len(all) \in Nat
  BY DEF CopiedTo, Bytes
<1>0. all \in Seq(Adr)
  BY DEF Bytes
<1>2. s + k = p
  <2> HIDE DEF k
  <2> QED BY <1>1 DEF Smallest
<1>3. n \in Nat /\ n <= d /\ e \in Nat /\ p <= e /\ e <= Len(all) /\ s <= p /\ e = Smallest(s + l, q)
  <2> HIDE DEF k
  <2>1. n \in Nat /\ n <= d /\ n = Smallest(d, l - k)
    BY <1>1 DEF Smallest, k
  <2> QED BY <1>1, <1>2, <2>1 DEF Smallest
<1> HIDE DEF e, k
<1>4. u = SubSeq(all, s + 1, e)
  <2>1. b = SubSeq(all, s + 1, p) /\ t = SubSeq(all, p + 1, e)
    BY <1>1, <1>2, Zenon DEF e
  <2>2. SubSeq(all, s + 1, p) \o SubSeq(all, p + 1, e) = SubSeq(all, s + 1, e)
    BY ONLY all \in Seq(Adr), s \in Nat, p \in Nat, <1>0, <1>3, PartsJoin, SMTT(60)
  <2> QED BY <2>1, <2>2, Zenon
<1>5. s <= e
  BY <1>3
<1>6. u \in Bytes /\ Len(u) = e - s
  <2>1. u \in Seq(Adr) /\ Len(u) = e - s
    BY ONLY s \in Nat, <1>0, <1>3, <1>4, <1>5, Part
  <2> QED BY <2>1 DEF Bytes
<1>7. s + Len(u) = e
  BY ONLY s \in Nat, <1>3, <1>6
<1> QED BY <1>3, <1>4, <1>6, <1>7, Zenon DEF CopiedTo
\* Where there is no more room or no more of the list, all is copied.
LEMMA CopyEnds ==
    ASSUME NEW all \in Bytes, NEW s \in Nat, NEW l \in Nat, NEW p \in Nat, NEW b, CopiedTo(all, s, l, p, b), p <= Len(all),
           Len(b) < l => p = Len(all)
    PROVE  b = SubSeq(all, s + 1, Smallest(s + l, Len(all)))
<1> DEFINE k == Len(b)
<1>1. k \in Nat /\ b = SubSeq(all, s + 1, s + k) /\ s + k = Smallest(s + l, p) /\ Len(all) \in Nat /\ (k < l => p = Len(all))
  BY DEF CopiedTo, Bytes
<1> HIDE DEF k
<1>2. s + k = Smallest(s + l, Len(all))
  BY <1>1 DEF Smallest
<1> QED BY <1>1, <1>2, Zenon
LEMMA CopyGoes == ASSUME SgHolds(sg), Copy PROVE SgHolds(sg')
<1> DEFINE r == sg.miter
           all == All(sg)
           pos == PlaceOf(sg) + Consumption(r)
           l == sg.buflen
           b == sg.buf
           m == backport_sg_miter_next(sg.list, r)
           z == sg'
<1>1. /\ sg \in Sgs /\ sg.list \in Seq(Entry) /\ sg.nents \in Nat /\ sg.pc = "copy" /\ sg.moved = <<>> /\ l \in Nat
      /\ InHand(sg.list, sg.nents, r) /\ b \in Bytes /\ sg.pc \notin {"idle", "free", "freed"}
  BY DEF SgHolds, Sgs, MovedHolds, CopyHolds, Copy
<1>2. PICK s \in Nat : CopyFrom(sg, s)
  BY <1>1 DEF SgHolds, CopyHolds
<1>3. all \in Bytes /\ Len(all) \in Nat
  <2>1. all = AllBytes(sg.list, sg.nents)
    BY DEF All
  <2> HIDE DEF all, l, r, z, pos, m, b
  <2>2. all \in Seq(Adr)
    BY <1>1, <2>1, AllBytesIs
  <2> QED BY <2>2 DEF Bytes
<1>4. pos \in Nat /\ pos <= Len(all)
  <2> DEFINE p == Position(sg.list, r)
             q == Consumption(r)
  <2>1. InHandOf(all, p, r)
    BY <1>1, InHandBounds, Zenon DEF All
  <2>2. p \in Nat /\ q \in Nat /\ p + q <= Len(all)
    BY <2>1, Zenon DEF InHandOf
  <2> HIDE DEF p, q, all
  <2>3. p + q \in Nat
    BY <2>2
  <2> QED BY <2>2, <2>3, Zenon DEF p, q, PlaceOf, r
<1>5. MappingAt(sg.list, sg.nents, pos, m)
  <2>1. MappingAt(sg.list, sg.nents, Position(sg.list, r) + Consumption(r), m)
    <3> HIDE DEF m, r
    <3>1. m = backport_sg_miter_next(sg.list, r)
      BY DEF m
    <3> QED BY <1>1, <3>1, NextMapping, Zenon
  <2> QED BY <2>1, Zenon DEF PlaceOf, r
<1>6. /\ CopiedTo(all, s, l, pos, b) /\ s <= Len(all) /\ sg.want = Piece(sg.list, sg.nents, s, l)
  BY <1>1, <1>2, Zenon DEF CopyFrom, CopiedTo
<1>7. m \in Miters
  BY <1>5, Zenon DEF MappingAt
<1>8. CASE m.more /\ Len(b) < l
  <2> DEFINE n == Smallest(m.length, l - Len(b))
             u == b \o Mapped(m.addr, n)
             q == PlaceOf(z) + Consumption(z.miter)
  <2>1. z = Copying1(sg, m, u)
    BY <1>8, Zenon DEF Copy, Copying1
  <2>2. /\ Mapping(sg.list, sg.nents, m) /\ m.consumed = m.remaining /\ Position(sg.list, m) = pos /\ m.addr # <<>>
        /\ Placed(sg.list, sg.nents, m)
    BY <1>5, <1>8, Zenon DEF MappingAt, Mapping
  <2>3. InHand(sg.list, sg.nents, m)
    BY <2>2, Zenon DEF InHand, InList
  <2>4. m.length = m.remaining /\ m.remaining \in Nat /\ m.addr = <<m.i, InPage(m)>> /\ Consumption(m) = m.length
    BY <1>7, <2>2 DEF Mapping, Miters, Consumption
  <2> HIDE DEF m, all, pos, l, b
  <2>5. n \in 0 .. m.remaining /\ n \in Nat /\ m.remaining \in 0 .. m.remaining
    <3>1. Len(b) \in Nat
      BY <1>1 DEF Bytes
    <3> QED BY <1>1, <1>8, <2>4, <3>1 DEF Smallest
  <2> HIDE DEF n
  <2>6. PartAt(all, pos, m.addr, n) /\ PartAt(all, pos, m.addr, m.remaining)
    BY <1>1, <2>2, <2>4, <2>5, PlacedPart, Zenon DEF All, all
  <2>7. Mapped(m.addr, n) = SubSeq(all, pos + 1, pos + n) /\ pos + m.length <= Len(all)
    BY <2>4, <2>6, Zenon DEF PartAt
  <2> DEFINE e == pos + m.length
  <2>8. CopiedTo(all, s, l, e, u)
    <3> DEFINE t == Mapped(m.addr, n)
               d == m.length
    <3>1. t = SubSeq(all, pos + 1, pos + n) /\ u = b \o t /\ n = Smallest(d, l - Len(b)) /\ e = pos + d /\ d \in Nat /\ e <= Len(all)
      BY <2>4, <2>7, Zenon DEF n
    <3> HIDE DEF t, d, e, u
    <3> QED BY <1>1, <1>2, <1>3, <1>4, <1>6, <1>8, <3>1, CopyAdds, Zenon
  <2> HIDE DEF u, z, e
  <2>9. u \in Bytes
    BY <2>8, Zenon DEF CopiedTo
  <2>10. AsSg(z, sg, m, sg.pc, sg.moved, sg.skip, u, sg.want, sg.got)
    BY <1>1, <1>7, <2>1, <2>9, Copying1As, Zenon
  <2>11. /\ z \in Sgs /\ z.bad = FALSE /\ IdleHolds(z) /\ TablesHold(z) /\ All(z) = all /\ z.list = sg.list /\ z.nents = sg.nents
         /\ z.buflen = l
    BY <1>1, <2>10, SgKept DEF all, l
  <2>12. z.miter = m /\ z.pc = "copy" /\ z.moved = <<>> /\ z.buf = u /\ z.want = sg.want
    BY <1>1, <2>10, Zenon DEF AsSg
  <2>13. q = e
    BY <2>2, <2>4, <2>11, <2>12, Zenon DEF PlaceOf, e
  <2>14. CopyFrom(z, s)
    BY <1>6, <2>8, <2>11, <2>12, <2>13, Zenon DEF CopyFrom, CopiedTo
  <2>15. CopyHolds(z)
    BY <1>2, <2>3, <2>11, <2>12, <2>14, Zenon DEF CopyHolds
  <2>16. IterateHolds(z) /\ SkipHolds(z) /\ MovedHolds(z) /\ EndHolds(z)
    BY <2>12 DEF IterateHolds, SkipHolds, MovedHolds, EndHolds
  <2> QED BY <2>11, <2>15, <2>16, Zenon DEF SgHolds, z
<1>9. CASE ~(m.more /\ Len(b) < l)
  <2> DEFINE q == backport_sg_miter_stop(m)
             y == ReturnedAll(sg, b)
  <2>1. z = MiterSet(y, q)
    BY <1>9, Zenon DEF Copy, Returned, MiterSet, ReturnedAll
  <2>2. q \in Miters /\ q.addr = <<>>
    <3>1. CASE m.more
      <4>1. Mapping(sg.list, sg.nents, m)
        BY <1>5, <3>1, Zenon DEF MappingAt
      <4>2. InHand(sg.list, sg.nents, m)
        BY <4>1, Zenon DEF InHand, InList, Mapping
      <4> HIDE DEF m, q
      <4>3. q = backport_sg_miter_stop(m)
        BY DEF q
      <4>4. InList(sg.list, sg.nents, q) /\ q.addr = <<>>
        BY <1>1, <4>2, <4>3, Stopped
      <4> QED BY <1>1, <4>4, StartIs DEF InList, Placed
    <3>2. CASE ~m.more
      <4>1. m.addr = <<>>
        BY <1>5, <3>2, Zenon DEF MappingAt
      <4>2. q = m
        BY <4>1, Zenon DEF backport_sg_miter_stop
      <4> QED BY <1>7, <4>1, <4>2, Zenon
    <3> QED BY <3>1, <3>2, Zenon
  <2>3. ASSUME Len(b) < l PROVE pos = Len(all)
    <3>1. ~m.more
      BY <1>9, <2>3, Zenon
    <3> QED BY <1>5, <3>1, Zenon DEF MappingAt, All
  <2> HIDE DEF m, q, z, all, pos, l, b
  <2>4. b = sg.want
    <3>1. b = SubSeq(all, s + 1, Smallest(s + l, Len(all)))
      BY <1>1, <1>2, <1>3, <1>4, <1>6, <2>3, CopyEnds, Zenon
    <3>2. PieceOf(all, s, l, Piece(sg.list, sg.nents, s, l))
      <4>1. all = AllBytes(sg.list, sg.nents)
        BY DEF all, All
      <4> QED BY <1>1, <1>2, <4>1, PieceIs, Zenon
    <3> QED BY <1>6, <3>1, <3>2, Zenon DEF PieceOf
  <2>5. b \in Wants
    BY <1>1 DEF Wants
  <2>6. AsSg(y, sg, r, "returned", sg.moved, sg.skip, <<>>, sg.want, b)
    <3> HIDE DEF y
    <3>1. y = ReturnedAll(sg, b)
      BY DEF y
    <3>2. AsSg(ReturnedAll(sg, b), sg, sg.miter, "returned", sg.moved, sg.skip, <<>>, sg.want, b)
      BY <1>1, <2>5, ReturnedAllAs
    <3> QED BY <3>1, <3>2, Zenon
  <2> HIDE DEF y
  <2>7. AsSg(z, y, q, y.pc, y.moved, y.skip, y.buf, y.want, y.got)
    <3>1. y \in Sgs
      BY <2>6, Zenon DEF AsSg, SameTables
    <3> QED BY <2>1, <2>2, <3>1, MiterSetAs, Zenon DEF y
  <2>8. AsSg(z, sg, q, "returned", sg.moved, sg.skip, <<>>, sg.want, b)
    BY <2>6, <2>7, Zenon DEF AsSg, SameTables
  <2> QED BY <1>1, <2>2, <2>4, <2>8, Returns, Zenon DEF z
<1> QED BY <1>8, <1>9
LEMMA PcopyHolds ==
    ASSUME SgHolds(sg), NEW skip \in BufLens, NEW len \in BufLens, sg_pcopy_to_buffer(len, skip) \/ sg_pcopy_from_buffer(len, skip)
    PROVE  SgHolds(sg')
<1> DEFINE n == sg'
<1>1. skip \in Nat /\ len \in Nat /\ sg.nents \in Nat
  BY ScatterAssumption DEF SgHolds, Sgs
<1>2. sg.pc = "idle" /\ n = sg_copy_buffer(sg.nents, len, skip)
  BY Zenon DEF sg_pcopy_to_buffer, sg_pcopy_from_buffer
<1> HIDE DEF n
<1>3. SgHolds(n)
  BY <1>1, <1>2, CopyBegins, Zenon
<1> QED BY <1>3, Zenon DEF n
LEMMA ReadHolds ==
    ASSUME SgHolds(sg), NEW offset \in BufLens, NEW buf_len \in BufLens, devcd_read_from_sgtable(offset, buf_len)
    PROVE  SgHolds(sg')
<1> DEFINE n == sg'
           len == IF offset + buf_len > data_len THEN data_len - offset ELSE buf_len
<1>1. offset \in Nat /\ buf_len \in Nat /\ sg.pc = "idle" /\ sg \in Sgs /\ sg.list \in Seq(Entry) /\ sg_nents \in Nat
  BY ScatterAssumption DEF SgHolds, Sgs, sg_nents, devcd_read_from_sgtable
<1>2. data_len \in Nat
  <2>1. AllBytes(sg.list, sg_nents) \in Seq(Adr)
    BY <1>1, AllBytesIs
  <2> QED BY <2>1 DEF data_len
<1>3. CASE offset > data_len
  <2>1. n = ReturnedAll(sg, <<>>)
    BY <1>3, Zenon DEF devcd_read_from_sgtable, Returned, ReturnedAll
  <2>2. <<>> \in Wants
    BY DEF Wants, Bytes
  <2>3. AsSg(ReturnedAll(sg, <<>>), sg, sg.miter, "returned", sg.moved, sg.skip, <<>>, sg.want, <<>>)
    BY <1>1, <2>2, ReturnedAllAs
  <2>4. sg.want = <<>> /\ sg.moved = <<>> /\ sg.miter \in Miters /\ sg.miter.addr = <<>>
    BY <1>1 DEF SgHolds, IdleHolds, MovedHolds, EndHolds, Sgs
  <2> HIDE DEF n
  <2>5. AsSg(n, sg, sg.miter, "returned", sg.moved, sg.skip, <<>>, sg.want, <<>>)
    BY <2>1, <2>3, Zenon
  <2>6. SgHolds(n)
    BY <2>4, <2>5, Returns, Zenon
  <2> QED BY <2>6, Zenon DEF n
<1>4. CASE ~(offset > data_len)
  <2>1. n = sg_copy_buffer(sg_nents, len, offset)
    BY <1>4, Zenon DEF devcd_read_from_sgtable
  <2> DEFINE d == data_len
  <2>2. d \in Nat /\ d = data_len
    BY <1>2
  <2> HIDE DEF d
  <2>3. len \in Nat
    <3>1. d - offset \in Nat
      BY <1>1, <1>4, <2>2
    <3> QED BY <1>1, <2>2, <3>1, Zenon
  <2> HIDE DEF n, len
  <2>4. SgHolds(n)
    BY <1>1, <2>1, <2>3, CopyBegins, Zenon
  <2> QED BY <2>4, Zenon DEF n
<1> QED BY <1>3, <1>4

\* A coredump is freed.
FreeBegun(z, c, a, p) == [z EXCEPT !.pc = "free", !.cut = c, !.alive = a, !.pages = p]
AsFree(n, z, pc, pages, cut, alive, iter, d) ==
    /\ n \in Sgs /\ n.list = z.list /\ n.nents = z.nents /\ n.miter = z.miter /\ n.moved = z.moved /\ n.bad = z.bad
    /\ n.pc = pc /\ n.pages = pages /\ n.cut = cut /\ n.alive = alive /\ n.iter = iter /\ n.delete_iter = d
LEMMA FreeBegunAs ==
    ASSUME NEW z \in Sgs, NEW c \in Nat, NEW a \in SUBSET {1, 2}, NEW p \in Seq(Nat)
    PROVE  AsFree(FreeBegun(z, c, a, p), z, "free", p, c, a, z.iter, z.delete_iter)
BY DEF Sgs, SgPcs, AsFree, FreeBegun
LEMMA FreeKept ==
    ASSUME NEW z, SgHolds(z), NEW n, NEW pc \in {"free", "freed"}, NEW pages, NEW cut, NEW alive, NEW iter, NEW d,
           AsFree(n, z, pc, pages, cut, alive, iter, d), z.pc \in {"idle", "free"}
    PROVE  /\ n \in Sgs /\ n.bad = FALSE /\ IdleHolds(n) /\ IterateHolds(n) /\ SkipHolds(n) /\ CopyHolds(n) /\ MovedHolds(n)
           /\ EndHolds(n)
<1>1. /\ n \in Sgs /\ n.bad = FALSE /\ n.pc \in {"free", "freed"} /\ n.moved = <<>> /\ n.miter.addr = <<>>
  BY DEF AsFree, SgHolds, MovedHolds, EndHolds
<1> QED BY <1>1 DEF IdleHolds, IterateHolds, SkipHolds, CopyHolds, MovedHolds, EndHolds
LEMMA FreePagesHolds == ASSUME SgHolds(sg), FreePages PROVE SgHolds(sg')
<1> DEFINE n == sg'
           p == [i \in DOMAIN sg.list |-> 1]
<1>1. PICK c \in 1 .. sg_nents :
        n = [sg EXCEPT !.pc = "free", !.cut = c, !.alive = IF c = sg_nents THEN {1} ELSE {1, 2},
                       !.pages = [i \in DOMAIN sg.list |-> @[i] + 1]]
  BY Zenon DEF FreePages
<1> DEFINE a == IF c = sg_nents THEN {1} ELSE {1, 2}
<1>2. /\ sg.pc = "idle" /\ sg \in Sgs /\ sg.list \in Seq(Entry) /\ sg.pages = [i \in DOMAIN sg.list |-> 0]
      /\ sg.iter = <<1, 1>> /\ sg.delete_iter = 1
  BY DEF FreePages, SgHolds, Sgs, IdleHolds
<1>3. [i \in DOMAIN sg.list |-> sg.pages[i] + 1] = p
  BY <1>2
<1>4. n = FreeBegun(sg, c, a, p)
  BY <1>1, <1>3 DEF FreeBegun
<1>5. p \in Seq(Nat) /\ c \in Nat /\ a \in SUBSET {1, 2}
  <2>1. DOMAIN sg.list = 1 .. Len(sg.list) /\ Len(sg.list) \in Nat
    BY <1>2
  <2>2. c \in Nat
    BY <2>1 DEF sg_nents
  <2>3. p \in [1 .. Len(sg.list) -> Nat]
    BY <2>1
  <2> QED BY <2>1, <2>2, <2>3, SeqDef
<1> HIDE DEF n, p, a
<1>6. AsFree(n, sg, "free", p, c, a, sg.iter, sg.delete_iter)
  BY <1>2, <1>4, <1>5, FreeBegunAs, Zenon
<1>7. /\ n \in Sgs /\ n.bad = FALSE /\ IdleHolds(n) /\ IterateHolds(n) /\ SkipHolds(n) /\ CopyHolds(n) /\ MovedHolds(n)
      /\ EndHolds(n)
  BY <1>2, <1>6, FreeKept
<1>8. /\ n.pc = "free" /\ n.pages = p /\ n.cut = c /\ n.alive = a /\ n.list = sg.list /\ n.iter = <<1, 1>> /\ n.delete_iter = 1
  BY <1>2, <1>6, Zenon DEF AsFree
<1>9. InTable(n, 1, c)
  <2>1. 1 \in 1 .. c
    BY <1>1, <1>5
  <2> QED BY <1>8, <2>1 DEF InTable
<1>10. TablesHold(n)
  BY <1>1, <1>8, <1>9 DEF TablesHold, a, p, sg_nents
<1> QED BY <1>7, <1>10, Zenon DEF SgHolds, n
\* A round reads and frees only tables that are not freed.
BadSet(z, b) == [z EXCEPT !.bad = b]
TableFreed(z, a) == [z EXCEPT !.alive = a]
LastFreed(z, a) == [z EXCEPT !.alive = a, !.pc = "freed"]
NextTable(z, a, it, d) == [z EXCEPT !.alive = a, !.iter = it, !.delete_iter = d]
NextRead(z, it) == [z EXCEPT !.iter = it]
LEMMA FreeSetsAs ==
    ASSUME NEW z \in Sgs, NEW a \in SUBSET {1, 2}, NEW it \in Nat \X Nat, NEW d \in Nat
    PROVE  /\ AsFree(LastFreed(z, a), z, "freed", z.pages, z.cut, a, z.iter, z.delete_iter)
           /\ AsFree(NextTable(z, a, it, d), z, z.pc, z.pages, z.cut, a, it, d)
           /\ AsFree(NextRead(z, it), z, z.pc, z.pages, z.cut, z.alive, it, z.delete_iter)
<1>1. AsFree(LastFreed(z, a), z, "freed", z.pages, z.cut, a, z.iter, z.delete_iter)
  BY DEF Sgs, SgPcs, AsFree, LastFreed
<1>2. AsFree(NextTable(z, a, it, d), z, z.pc, z.pages, z.cut, a, it, d)
  BY DEF Sgs, AsFree, NextTable
<1>3. AsFree(NextRead(z, it), z, z.pc, z.pages, z.cut, z.alive, it, z.delete_iter)
  BY DEF Sgs, AsFree, NextRead
<1> QED BY <1>1, <1>2, <1>3
LEMMA NotBad ==
    ASSUME NEW z \in Sgs, z.bad = FALSE, NEW t \in z.alive, z.delete_iter = t, NEW b, b = BadSet(z, z.bad \/ t \notin z.alive)
    PROVE  b = z /\ kfree(b) = TableFreed(z, z.alive \ {t})
<1>1. b = z
  <2>1. b = BadSet(z, FALSE)
    BY Zenon DEF BadSet
  <2> QED BY <2>1 DEF Sgs, BadSet
<1>2. kfree(z) = [z EXCEPT !.alive = @ \ {t}, !.bad = FALSE]
  BY DEF kfree
<1>3. kfree(z) = TableFreed(z, z.alive \ {t})
  BY <1>2 DEF TableFreed, Sgs
<1> QED BY <1>1, <1>3, Zenon
LEMMA FreeHolds == ASSUME SgHolds(sg), devcd_free_sgtable PROVE SgHolds(sg')
<1> DEFINE n == sg'
           t == sg.iter[1]
           e == sg.iter[2]
           l == Len(sg.list)
           next == <<t, e + 1>>
           read == [sg EXCEPT !.bad = @ \/ sg.iter[1] \notin sg.alive]
           a == sg.alive \ {t}
<1>1. /\ sg.pc = "free" /\ sg \in Sgs /\ sg.list \in Seq(Entry) /\ sg.bad = FALSE /\ TablesHold(sg)
      /\ sg.pages = [i \in DOMAIN sg.list |-> 1] /\ l \in Nat /\ sg.cut \in 1 .. l
  BY DEF SgHolds, Sgs, devcd_free_sgtable, TablesHold
<1>2. /\ sg.iter = <<t, e>> /\ e \in Nat /\ t \in {1, 2} /\ t \in sg.alive /\ sg.delete_iter = t /\ a \in SUBSET {1, 2} /\ e \in 1 .. l
      /\ \/ sg.cut = l /\ t = 1 /\ a = {} /\ e \in 1 .. l
         \/ sg.cut # l /\ t = 1 /\ a = {2} /\ e \in 1 .. sg.cut
         \/ sg.cut # l /\ t = 2 /\ a = {} /\ e \in 1 .. l - sg.cut
  <2>1. sg.iter \in Nat \X Nat /\ sg.cut \in Nat /\ sg.alive \in SUBSET {1, 2}
    BY <1>1 DEF Sgs
  <2>2. sg.iter = <<t, e>> /\ e \in Nat /\ a \in SUBSET {1, 2}
    BY <2>1
  <2>3. CASE sg.cut = l
    <3>1. t = 1 /\ e \in 1 .. l /\ sg.delete_iter = 1 /\ sg.alive = {1}
      BY <1>1, <2>3 DEF TablesHold, InTable
    <3> QED BY <2>2, <2>3, <3>1
  <2>4. CASE sg.cut # l
    <3>1. \/ t = 1 /\ e \in 1 .. sg.cut /\ sg.delete_iter = 1 /\ sg.alive = {1, 2}
          \/ t = 2 /\ e \in 1 .. l - sg.cut /\ sg.delete_iter = 2 /\ sg.alive = {2}
      BY <1>1, <2>4 DEF TablesHold, InTable
    <3>2. CASE t = 1 /\ e \in 1 .. sg.cut /\ sg.delete_iter = 1 /\ sg.alive = {1, 2}
      BY <1>1, <2>2, <2>4, <3>2
    <3>3. CASE t = 2 /\ e \in 1 .. l - sg.cut /\ sg.delete_iter = 2 /\ sg.alive = {2}
      BY <1>1, <2>2, <2>4, <3>3
    <3> QED BY <3>1, <3>2, <3>3
  <2> QED BY <2>3, <2>4
<1>3. Tables = IF sg.cut = l THEN 1 ELSE 2
  BY DEF Tables, sg_nents
<1>4. Entries(t) = IF sg.cut = l THEN l ELSE IF t = 1 THEN sg.cut + 1 ELSE l - sg.cut
  BY <1>3 DEF Entries, sg_nents
<1>5. sg_is_last(sg.iter) <=> t = Tables /\ e = Entries(t)
  BY DEF sg_is_last
<1>6. sg_is_chain(next) <=> t < Tables /\ e + 1 = Entries(t)
  BY DEF sg_is_chain
<1>7. read = sg /\ kfree(read) = TableFreed(sg, a)
  <2>1. read = BadSet(sg, sg.bad \/ t \notin sg.alive)
    BY DEF BadSet
  <2> HIDE DEF read, t
  <2>2. read = sg /\ kfree(read) = TableFreed(sg, sg.alive \ {t})
    BY <1>1, <1>2, <2>1, NotBad, Zenon
  <2> QED BY <2>2 DEF a
<1>8. n = IF sg_is_last(sg.iter) THEN LastFreed(sg, a)
          ELSE IF sg_is_chain(next) THEN NextTable(sg, a, <<2, 1>>, 2)
          ELSE NextRead(sg, next)
  <2>1. n = IF sg_is_last(sg.iter) THEN [kfree(read) EXCEPT !.pc = "freed"]
            ELSE IF sg_is_chain(next) THEN [kfree(read) EXCEPT !.iter = <<2, 1>>, !.delete_iter = 2]
            ELSE [read EXCEPT !.iter = next]
    BY Zenon DEF devcd_free_sgtable
  <2> HIDE DEF n, read, next, a
  <2>2. [kfree(read) EXCEPT !.pc = "freed"] = LastFreed(sg, a)
    BY <1>7, Zenon DEF TableFreed, LastFreed
  <2>3. [kfree(read) EXCEPT !.iter = <<2, 1>>, !.delete_iter = 2] = NextTable(sg, a, <<2, 1>>, 2)
    BY <1>7, Zenon DEF TableFreed, NextTable
  <2>4. [read EXCEPT !.iter = next] = NextRead(sg, next)
    BY <1>7, Zenon DEF NextRead
  <2> QED BY <2>1, <2>2, <2>3, <2>4, Zenon
<1> DEFINE two == <<2, 1>>
<1>9. two \in Nat \X Nat /\ next \in Nat \X Nat /\ 2 \in Nat
  BY <1>2
<1> HIDE DEF n, read, a, next, two
<1>10. CASE sg_is_last(sg.iter)
  <2>1. a = {}
    BY <1>1, <1>2, <1>3, <1>5, <1>10
  <2>2. n = LastFreed(sg, a)
    BY <1>8, <1>10, Zenon
  <2>3. AsFree(n, sg, "freed", sg.pages, sg.cut, a, sg.iter, sg.delete_iter)
    BY <1>1, <1>2, <1>9, <2>2, FreeSetsAs, Zenon
  <2>4. /\ n \in Sgs /\ n.bad = FALSE /\ IdleHolds(n) /\ IterateHolds(n) /\ SkipHolds(n) /\ CopyHolds(n) /\ MovedHolds(n)
        /\ EndHolds(n)
    BY <1>1, <2>3, FreeKept
  <2>5. n.pc = "freed" /\ n.pages = [i \in DOMAIN n.list |-> 1] /\ n.alive = {}
    BY <1>1, <2>1, <2>3 DEF AsFree
  <2>6. TablesHold(n)
    BY <2>5 DEF TablesHold
  <2> QED BY <2>4, <2>6, Zenon DEF SgHolds, n
<1>11. CASE ~sg_is_last(sg.iter) /\ sg_is_chain(next)
  <2>1. sg.cut # l /\ a = {2} /\ 1 \in 1 .. l - sg.cut
    BY <1>1, <1>2, <1>3, <1>6, <1>11
  <2>2. n = NextTable(sg, a, two, 2)
    BY <1>8, <1>11, Zenon DEF two
  <2>3. AsFree(n, sg, "free", sg.pages, sg.cut, a, two, 2)
    <3>1. AsFree(n, sg, sg.pc, sg.pages, sg.cut, a, two, 2)
      BY <1>1, <1>2, <1>9, <2>2, FreeSetsAs, Zenon
    <3> QED BY <1>1, <3>1, Zenon
  <2>4. /\ n \in Sgs /\ n.bad = FALSE /\ IdleHolds(n) /\ IterateHolds(n) /\ SkipHolds(n) /\ CopyHolds(n) /\ MovedHolds(n)
        /\ EndHolds(n)
    BY <1>1, <2>3, FreeKept
  <2>5. /\ n.pc = "free" /\ n.pages = sg.pages /\ n.alive = {2} /\ n.cut = sg.cut /\ n.list = sg.list /\ n.iter = <<2, 1>>
        /\ n.delete_iter = 2
    BY <1>1, <2>1, <2>3 DEF AsFree, two
  <2>6. TablesHold(n)
    BY <1>1, <2>1, <2>5 DEF TablesHold, InTable
  <2> QED BY <2>4, <2>6, Zenon DEF SgHolds, n
<1>12. CASE ~sg_is_last(sg.iter) /\ ~sg_is_chain(next)
  <2>1. n = NextRead(sg, next)
    BY <1>8, <1>12, Zenon
  <2>2. AsFree(n, sg, "free", sg.pages, sg.cut, sg.alive, next, sg.delete_iter)
    <3>1. sg.alive \in SUBSET {1, 2} /\ sg.delete_iter \in Nat
      BY <1>1 DEF Sgs
    <3>2. AsFree(n, sg, sg.pc, sg.pages, sg.cut, sg.alive, next, sg.delete_iter)
      BY <1>1, <1>9, <2>1, <3>1, FreeSetsAs, Zenon
    <3> QED BY <1>1, <3>2, Zenon
  <2>3. /\ n \in Sgs /\ n.bad = FALSE /\ IdleHolds(n) /\ IterateHolds(n) /\ SkipHolds(n) /\ CopyHolds(n) /\ MovedHolds(n)
        /\ EndHolds(n)
    BY <1>1, <2>2, FreeKept
  <2>4. /\ n.pc = "free" /\ n.pages = sg.pages /\ n.alive = sg.alive /\ n.cut = sg.cut /\ n.list = sg.list /\ n.iter = next
        /\ n.delete_iter = t
    BY <1>1, <1>2, <2>2 DEF AsFree
  <2>5. n.iter[1] = t /\ n.iter[2] = e + 1
    BY <2>4 DEF next
  <2> HIDE DEF t, e, l
  <2>6. \/ sg.cut = l /\ t = 1 /\ sg.alive = {1} /\ e + 1 \in 1 .. l
        \/ sg.cut # l /\ t = 1 /\ sg.alive = {1, 2} /\ e + 1 \in 1 .. sg.cut
        \/ sg.cut # l /\ t = 2 /\ sg.alive = {2} /\ e + 1 \in 1 .. l - sg.cut
    <3>1. sg.cut = l => sg.alive = {1}
      BY <1>1 DEF TablesHold, l
    <3>2. sg.cut # l => (sg.alive = {1, 2} /\ t = 1) \/ (sg.alive = {2} /\ t = 2)
      BY <1>1 DEF TablesHold, InTable, l, t
    <3>3. CASE sg.cut = l
      <4>1. t = 1 /\ e \in 1 .. l /\ e # l
        BY <1>2, <1>3, <1>4, <1>5, <1>12, <3>3
      <4> QED BY <1>1, <3>1, <3>3, <4>1
    <3>4. CASE sg.cut # l /\ t = 1
      <4>1. e \in 1 .. sg.cut /\ e + 1 # sg.cut + 1
        BY <1>2, <1>3, <1>4, <1>6, <1>12, <3>4
      <4> QED BY <1>1, <3>2, <3>4, <4>1
    <3>5. CASE sg.cut # l /\ t = 2
      <4>1. e \in 1 .. l - sg.cut /\ e # l - sg.cut
        BY <1>2, <1>3, <1>4, <1>5, <1>12, <3>5
      <4> QED BY <1>1, <3>2, <3>5, <4>1
    <3> QED BY <1>2, <3>3, <3>4, <3>5
  <2>7. TablesHold(n)
    BY <1>1, <2>4, <2>5, <2>6 DEF TablesHold, InTable, l
  <2> QED BY <2>3, <2>7, Zenon DEF SgHolds, n
<1> QED BY <1>10, <1>11, <1>12

\* Pieces of a sequence, each from where the last one ends.
LEMMA PiecesJoin ==
    ASSUME NEW V, NEW all \in Seq(V), NEW q \in Nat, NEW at \in [0 .. q -> Nat], at[0] <= Len(all),
           \A j \in 1 .. q : at[j - 1] <= at[j] /\ at[j] <= Len(all),
           NEW p, \A j \in 1 .. q : p[j] = SubSeq(all, at[j - 1] + 1, at[j])
    PROVE  FlattenSeq([j \in 1 .. q |-> p[j]]) = SubSeq(all, at[0] + 1, at[q])
<1> DEFINE First(m) == [j \in 1 .. m |-> p[j]]
           Good(m) == FlattenSeq(First(m)) = SubSeq(all, at[0] + 1, at[m]) /\ at[0] <= at[m] /\ at[m] <= Len(all)
           T == {m \in Nat : m <= q => Good(m)}
<1>1. 0 \in T
  <2>1. First(0) = <<>>
    OBVIOUS
  <2>2. FlattenSeq(First(0)) = <<>>
    BY <2>1, FlattenEmpty
  <2>3. at[0] \in Nat
    OBVIOUS
  <2>4. SubSeq(all, at[0] + 1, at[0]) = <<>>
    BY <2>3, PartEmpty
  <2> HIDE DEF First
  <2>5. at[0] <= at[0]
    BY <2>3
  <2>6. Good(0)
    BY <2>2, <2>4, <2>5, Zenon
  <2> HIDE DEF Good
  <2> QED BY <2>6
<1>2. \A j \in 1 .. q : p[j] \in Seq(V)
  <2> SUFFICES ASSUME NEW j \in 1 .. q PROVE p[j] \in Seq(V)
    OBVIOUS
  <2> DEFINE a == at[j - 1]
             b == at[j]
  <2>1. a \in Nat /\ b \in Nat /\ a <= b /\ b <= Len(all) /\ p[j] = SubSeq(all, a + 1, b)
    OBVIOUS
  <2> HIDE DEF a, b
  <2> QED BY <2>1, Part
<1>3. ASSUME NEW m \in Nat, m \in T PROVE m + 1 \in T
  <2> DEFINE k == m + 1
  <2> SUFFICES ASSUME k <= q PROVE Good(k)
    OBVIOUS
  <2>1. Good(m) /\ k \in 1 .. q /\ k - 1 = m /\ k \in Nat /\ m \in 0 .. q
    BY <1>3
  <2> DEFINE a == at[0]
             b == at[m]
             c == at[k]
             x == p[k]
             ss == First(m)
  <2>2. a \in Nat /\ b \in Nat /\ c \in Nat /\ a <= b /\ b <= c /\ c <= Len(all) /\ x = SubSeq(all, b + 1, c)
    <3> HIDE DEF First, T
    <3>1. a <= b
      BY <2>1
    <3>2. at[k - 1] <= at[k] /\ at[k] <= Len(all) /\ p[k] = SubSeq(all, at[k - 1] + 1, at[k])
      <4> HIDE DEF k, Good
      <4> QED BY <2>1
    <3>3. a \in Nat /\ b \in Nat /\ c \in Nat
      <4> HIDE DEF k, Good
      <4> QED BY <2>1
    <3> HIDE DEF k, Good
    <3>4. at[k - 1] = at[m]
      BY <2>1
    <3> QED BY <3>1, <3>2, <3>3, <3>4, Zenon
  <2>3. x \in Seq(V) /\ ss \in Seq(Seq(V))
    <3>1. \A j \in 1 .. m : p[j] \in Seq(V)
      BY <1>2, <2>1
    <3> QED BY <1>2, <2>1, <3>1
  <2>4. First(k) = Append(ss, x)
    BY <2>1
  <2>5. FlattenSeq(ss) = SubSeq(all, a + 1, b)
    BY <2>1
  <2> HIDE DEF a, b, c, x, ss, First, k, T
  <2>6. FlattenSeq(Append(ss, x)) = FlattenSeq(ss) \o x
    BY <2>3, FlattenAppend
  <2>7. SubSeq(all, a + 1, b) \o SubSeq(all, b + 1, c) = SubSeq(all, a + 1, c)
    BY <2>2, PartsJoin, ZenonT(60)
  <2>8. FlattenSeq(First(k)) = SubSeq(all, a + 1, c)
    BY <2>2, <2>4, <2>5, <2>6, <2>7, Zenon
  <2>9. a <= c
    BY <2>2
  <2> QED BY <2>2, <2>8, <2>9, Zenon DEF a, c
<1>4. Nat \subseteq T
  <2> HIDE DEF T
  <2> QED BY <1>1, <1>3, Inductive
<1>5. Good(q)
  <2> HIDE DEF Good
  <2> QED BY <1>4
<1> QED BY <1>5

\* The entries that are passed hold what is left to skip no more.
Skips == [i : Nat, len : Nat, stop : BOOLEAN]
FfwdOk(list, len, k, s) ==
    /\ s \in Skips /\ s.i \in 1 .. k + 1 /\ s.len + LengthUpto(list, s.i - 1) = len
    /\ ~s.stop => s.i = k + 1
    /\ s.stop => s.i <= k /\ s.len <= list[s.i].length
LEMMA PassGoesOn ==
    ASSUME NEW list \in Seq(Entry), NEW len \in Nat, NEW k \in Nat, k < Len(list), NEW s, FfwdOk(list, len, k, s)
    PROVE  FfwdOk(list, len, k + 1, PassEntry(s, list[k + 1]))
<1> DEFINE e == list[k + 1]
           l == e.length
           t == PassEntry(s, e)
           h == LengthUpto(list, s.i - 1)
<1>1. s \in Skips /\ s.i \in 1 .. k + 1 /\ s.len + h = len /\ (~s.stop => s.i = k + 1) /\ (s.stop => s.i <= k /\ s.len <= list[s.i].length)
  BY DEF FfwdOk
<1>2. LengthUpto(list, k + 1) = LengthUpto(list, k) + l /\ LengthUpto(list, k) \in Nat /\ l \in Nat
  BY HeldAdds
<1>3. CASE s.stop \/ s.len = 0 \/ l > s.len
  <2>1. t = [s EXCEPT !.stop = TRUE]
    BY <1>3, Zenon DEF PassEntry
  <2>2. t \in Skips /\ t.i = s.i /\ t.len = s.len /\ t.stop = TRUE
    BY <1>1, <2>1 DEF Skips
  <2> HIDE DEF t, l, e
  <2>3. s.len <= list[s.i].length
    <3>1. CASE s.stop
      BY <1>1, <3>1
    <3>2. CASE ~s.stop
      <4>1. list[s.i].length = l /\ s.len \in Nat
        BY <1>1, <3>2 DEF l, e, Skips
      <4> QED BY <1>2, <1>3, <3>2, <4>1
    <3> QED BY <3>1, <3>2
  <2>4. s.i <= k + 1 /\ s.i \in 1 .. k + 2
    BY <1>1
  <2> QED BY <1>1, <2>2, <2>3, <2>4 DEF FfwdOk, t, e
<1>4. CASE ~(s.stop \/ s.len = 0 \/ l > s.len)
  <2>1. t = [s EXCEPT !.len = @ - l, !.i = @ + 1]
    BY <1>4, Zenon DEF PassEntry
  <2>2. s.i = k + 1 /\ s.len \in Nat /\ s.len - l \in Nat
    BY <1>1, <1>2, <1>4 DEF Skips
  <2>3. t \in Skips /\ t.i = k + 2 /\ t.len = s.len - l /\ t.stop = FALSE
    <3>1. s.i + 1 = k + 2 /\ k + 2 \in Nat /\ s.stop = FALSE
      BY <1>1, <1>4, <2>2 DEF Skips
    <3> HIDE DEF l
    <3> QED BY <1>1, <2>1, <2>2, <3>1 DEF Skips
  <2> HIDE DEF t, l, e
  <2>4. h = LengthUpto(list, k)
    BY <2>2
  <2>5. t.len + LengthUpto(list, t.i - 1) = len
    <3>1. t.i - 1 = k + 1
      BY <2>3
    <3>2. LengthUpto(list, t.i - 1) = h + l
      BY <1>2, <2>4, <3>1, Zenon
    <3> HIDE DEF h
    <3> QED BY <1>1, <1>2, <2>2, <2>3, <2>4, <3>2
  <2> QED BY <2>3, <2>5 DEF FfwdOk, t, e
<1> QED BY <1>3, <1>4
Passes(list, len, f) == f = [k \in 0 .. Len(list) |-> IF k = 0 THEN [i |-> 1, len |-> len, stop |-> FALSE] ELSE PassEntry(f[k - 1], list[k])]
LEMMA PassesEnd ==
    ASSUME NEW list \in Seq(Entry), NEW len \in Nat, NEW pass, pass = CHOOSE f : Passes(list, len, f)
    PROVE  FfwdOk(list, len, Len(list), pass[Len(list)])
<1> DEFINE V == Skips
           n == Len(list)
           first == [i |-> 1, len |-> len, stop |-> FALSE]
           W == [i : Nat, len : Int, stop : BOOLEAN]
           step == [k \in 0 .. n - 1 |-> [s \in W |-> PassEntry(s, list[k + 1])]]
<1>0. n \in Nat
  OBVIOUS
<1>1. \A k \in 0 .. n - 1, s \in W : PassEntry(s, list[k + 1]) \in W
  <2> SUFFICES ASSUME NEW k \in 0 .. n - 1, NEW s \in W PROVE PassEntry(s, list[k + 1]) \in W
    OBVIOUS
  <2>1. k + 1 \in 1 .. Len(list)
    OBVIOUS
  <2> DEFINE e == list[k + 1]
  <2>2. e \in Entry
    BY <2>1, ElementOfSeq
  <2> HIDE DEF e
  <2>3. e.length \in Nat
    BY <2>2 DEF Entry
  <2>4. [s EXCEPT !.stop = TRUE] \in W
    OBVIOUS
  <2>5. [s EXCEPT !.len = @ - e.length, !.i = @ + 1] \in W
    <3> DEFINE d == s.len - e.length
               c == s.i + 1
    <3>1. d \in Int /\ c \in Nat
      BY <2>3
    <3> HIDE DEF d, c
    <3>2. [s EXCEPT !.len = d, !.i = c] \in W
      BY <3>1
    <3> QED BY <3>2, Zenon DEF d, c
  <2>6. PassEntry(s, e) \in W
    <3> HIDE DEF W
    <3> QED BY <2>4, <2>5, Zenon DEF PassEntry
  <2> QED BY <2>6 DEF e
<1>2. first \in W
  OBVIOUS
<1>3. step \in [0 .. n - 1 -> [W -> W]] /\ \A k \in 0 .. n - 1, s \in W : step[k][s] = PassEntry(s, list[k + 1])
  <2> HIDE DEF W, n
  <2> QED BY <1>1
<1> HIDE DEF step
<1>4. PICK g \in [0 .. n -> W] : Follows(g, n, first, step)
  <2> HIDE DEF W, n, first
  <2> QED BY <1>0, <1>2, <1>3, Recursion, Zenon
<1>5. Passes(list, len, g)
  <2>1. g[0] = first
    BY <1>4, Zenon DEF Follows
  <2>2. ASSUME NEW k \in 0 .. n, k # 0 PROVE g[k] = PassEntry(g[k - 1], list[k])
    <3>1. k - 1 \in 0 .. n - 1 /\ k - 1 \in 0 .. n /\ k - 1 + 1 = k
      BY <1>0, <2>2
    <3> DEFINE j == k - 1
    <3>2. j \in 0 .. n - 1 /\ j \in 0 .. n /\ j + 1 = k
      BY <3>1
    <3> HIDE DEF j, W
    <3>3. g[j + 1] = step[j][g[j]] /\ g[j] \in W
      BY <1>4, <3>2 DEF Follows
    <3>4. step[j][g[j]] = PassEntry(g[j], list[j + 1])
      BY <1>3, <3>2, <3>3
    <3>5. g[k] = PassEntry(g[j], list[k])
      BY <3>2, <3>3, <3>4
    <3> QED BY <3>5 DEF j
  <2>3. g = [k \in 0 .. n |-> IF k = 0 THEN first ELSE PassEntry(g[k - 1], list[k])]
    <3> HIDE DEF W, first
    <3> QED BY <1>4, <2>1, <2>2
  <2> QED BY <2>3 DEF Passes
<1>6. Passes(list, len, pass)
  BY <1>5
<1>7. \A k \in 0 .. n : pass[k] = IF k = 0 THEN first ELSE PassEntry(pass[k - 1], list[k])
  BY <1>6, Zenon DEF Passes
<1> DEFINE Good(k) == FfwdOk(list, len, k, pass[k])
           T == {k \in Nat : k <= n => Good(k)}
<1>8. 0 \in T
  <2>1. pass[0] = first
    <3> HIDE DEF first, T, Good, W, V
    <3> QED BY <1>0, <1>7
  <2>2. first \in Skips /\ first.i = 1 /\ first.len = len /\ first.stop = FALSE
    BY DEF Skips
  <2>3. LengthUpto(list, 0) = 0
    BY HeldNone
  <2> HIDE DEF first
  <2>4. first.i - 1 = 0 /\ first.i \in 1 .. 0 + 1 /\ first.i = 0 + 1
    BY <2>2
  <2>5. first.len + LengthUpto(list, first.i - 1) = len
    BY <2>2, <2>3, <2>4
  <2>6. FfwdOk(list, len, 0, first)
    BY <2>2, <2>4, <2>5 DEF FfwdOk
  <2> QED BY <2>1, <2>6
<1>9. ASSUME NEW k \in Nat, k \in T PROVE k + 1 \in T
  <2> DEFINE j == k + 1
  <2> SUFFICES ASSUME j <= n PROVE Good(j)
    OBVIOUS
  <2>1. Good(k) /\ j \in 0 .. n /\ j # 0 /\ j - 1 = k /\ j \in Nat /\ k < Len(list)
    BY <1>9
  <2>2. pass[j] = PassEntry(pass[k], list[j])
    <3> HIDE DEF j, first
    <3>1. pass[j] = PassEntry(pass[j - 1], list[j])
      BY <1>7, <2>1
    <3> QED BY <2>1, <3>1
  <2> DEFINE s == pass[k]
  <2>3. FfwdOk(list, len, k, s)
    BY <2>1
  <2> HIDE DEF s
  <2>4. FfwdOk(list, len, k + 1, PassEntry(s, list[k + 1]))
    BY <2>1, <2>3, PassGoesOn
  <2> QED BY <2>2, <2>4 DEF s
<1>10. Nat \subseteq T
  <2> HIDE DEF T
  <2> QED BY <1>8, <1>9, Inductive
<1> QED BY <1>0, <1>10
LEMMA BehindIs == ASSUME NEW list \in Seq(Entry), NEW len \in Nat PROVE Behind(list, len) \in Bytes
<1> DEFINE n == Len(list)
           all == AllBytes(list, n)
<1>1. n \in Nat
  OBVIOUS
<1> HIDE DEF n
<1>2. all \in Seq(Adr)
  BY <1>1, AllBytesIs
<1>3. Behind(list, len) = SubSeq(all, len + 1, Len(all))
  BY Zenon DEF Behind, n
<1> HIDE DEF all
<1>4. Len(all) \in Nat
  BY <1>2
<1>5. CASE len <= Len(all)
  <2>1. SubSeq(all, len + 1, Len(all)) \in Seq(Adr)
    BY <1>2, <1>4, <1>5, Part
  <2>2. SubSeq(all, len + 1, Len(all)) \in Bytes
    BY <2>1, Zenon DEF Bytes
  <2> QED BY <1>3, <2>2, Zenon
<1>6. CASE ~(len <= Len(all))
  <2>1. SubSeq(all, len + 1, Len(all)) = <<>>
    BY <1>2, <1>4, <1>6, PartEmpty
  <2>2. <<>> \in Bytes
    BY DEF Bytes
  <2> QED BY <1>3, <2>1, <2>2, Zenon
<1> QED BY <1>5, <1>6
LEMMA FfwdBehind ==
    ASSUME NEW list \in Seq(Entry), NEW len \in Nat
    PROVE  BytesOf(scatterwalk_ffwd(list, len)) = Behind(list, len)
<1> DEFINE n == Len(list)
           pass == CHOOSE f : Passes(list, len, f)
           s == pass[n]
           i == s.i
           q == n - i + 1
           skip(j) == IF j = 1 THEN s.len ELSE 0
           part(j) == [entry |-> i + j - 1, offset |-> list[i + j - 1].offset + skip(j), length |-> list[i + j - 1].length - skip(j)]
           parts == [j \in 1 .. q |-> part(j)]
           p == [j \in 1 .. q |-> Mapped(<<part(j).entry, part(j).offset>>, part(j).length)]
           all == AllBytes(list, n)
           at == [j \in 0 .. q |-> IF j = 0 THEN len ELSE LengthUpto(list, i + j - 1)]
<1>1. FfwdOk(list, len, n, s)
  <2> HIDE DEF pass
  <2>1. pass = CHOOSE f : Passes(list, len, f)
    BY DEF pass
  <2> QED BY <2>1, PassesEnd, Zenon
<1>2. scatterwalk_ffwd(list, len) = parts
  BY Zenon DEF scatterwalk_ffwd, Passes
<1> HIDE DEF s, pass
<1>3. n \in Nat /\ i \in 1 .. n + 1 /\ s.len + LengthUpto(list, i - 1) = len /\ s.len \in Nat /\ (i # n + 1 => s.len <= list[i].length)
  BY <1>1 DEF FfwdOk, Skips
<1>4. q \in Nat
  BY <1>3
<1>5. BytesOf(parts) = FlattenSeq(p)
  <2> HIDE DEF q, i
  <2>1. DOMAIN parts = 1 .. q /\ \A j \in 1 .. q : parts[j] = part(j)
    OBVIOUS
  <2> HIDE DEF parts, part
  <2>2. p = [j \in DOMAIN parts |-> Mapped(<<parts[j].entry, parts[j].offset>>, parts[j].length)]
    BY <2>1, Zenon
  <2> QED BY <2>2, Zenon DEF BytesOf
<1>6. all \in Seq(Adr) /\ Len(all) = LengthUpto(list, n) /\ Len(all) \in Nat
  <2>1. NamedUpto(list, n) = n
    BY <1>3 DEF NamedUpto, Smallest
  <2> HIDE DEF n
  <2>2. all \in Seq(Adr) /\ Len(all) = LengthUpto(list, n)
    BY <1>3, <2>1, AllBytesIs
  <2> QED BY <2>2
<1>7. Behind(list, len) = SubSeq(all, len + 1, Len(all))
  BY Zenon DEF Behind
<1>8. CASE i = n + 1
  <2>1. q = 0 /\ i - 1 = n
    BY <1>3, <1>8
  <2>2. p = <<>>
    <3> HIDE DEF part, q
    <3> QED BY <2>1
  <2>3. FlattenSeq(p) = <<>>
    BY <2>2, FlattenEmpty
  <2>4. Len(all) <= len
    <3> HIDE DEF all, n, i
    <3> QED BY <1>3, <1>6, <2>1
  <2> HIDE DEF all, p, parts
  <2>5. SubSeq(all, len + 1, Len(all)) = <<>>
    BY <1>6, <2>4, PartEmpty
  <2> QED BY <1>2, <1>5, <1>7, <2>3, <2>5, Zenon
<1>9. CASE i # n + 1
  <2>1. q \in Nat \ {0} /\ i + q - 1 = n /\ i \in 1 .. n /\ i \in Nat
    <3> HIDE DEF n, i, at, p, parts, part, skip, all
    <3> QED BY <1>3, <1>9
  <2>2. \A j \in 0 .. n : LengthUpto(list, j) \in Nat
    BY HeldNat
  <2>3. at \in [0 .. q -> Nat]
    <3>1. \A j \in 0 .. q : j # 0 => i + j - 1 \in 0 .. n
      BY <2>1
    <3> HIDE DEF q, n, i
    <3> QED BY <2>2, <3>1
  <2>4. at[0] = len /\ at[q] = Len(all)
    <3>1. 0 \in 0 .. q /\ q \in 0 .. q /\ q # 0
      BY <2>1
    <3> HIDE DEF q, n, i, all
    <3> QED BY <1>6, <2>1, <3>1
  <2>5. \A j \in 1 .. q : at[j - 1] <= at[j] /\ at[j] <= Len(all) /\ p[j] = SubSeq(all, at[j - 1] + 1, at[j])
    <3> SUFFICES ASSUME NEW j \in 1 .. q
                 PROVE  at[j - 1] <= at[j] /\ at[j] <= Len(all) /\ p[j] = SubSeq(all, at[j - 1] + 1, at[j])
      OBVIOUS
    <3> DEFINE k == i + j - 1
               e == list[k]
               h == LengthUpto(list, k - 1)
               c == skip(j)
               a == e.offset + c
               l == e.length - c
    <3>1. k \in 1 .. n /\ k - 1 \in 0 .. n /\ j \in 0 .. q /\ j # 0 /\ j - 1 \in 0 .. q /\ k - 1 \in Nat /\ k - 1 < n /\ k - 1 + 1 = k
      <4> HIDE DEF n, i, at, p, parts, part, skip, all, q
      <4> QED BY <1>3, <2>1
    <3>2. EntryOk(list, k)
      BY <3>1, Entries1
    <3>3. e.offset \in Nat /\ e.length \in Nat
      BY <3>2 DEF EntryOk
    <3>4. LengthUpto(list, k) = h + e.length /\ h \in Nat
      <4> HIDE DEF k, n
      <4> DEFINE x == k - 1
      <4>1. x \in Nat /\ x < Len(list) /\ x + 1 = k
        BY <3>1 DEF n
      <4> HIDE DEF x
      <4>2. LengthUpto(list, x + 1) = LengthUpto(list, x) + list[x + 1].length /\ LengthUpto(list, x) \in Nat
        BY <4>1, HeldAdds
      <4> QED BY <4>1, <4>2 DEF x
    <3>5. at[j] = h + e.length
      <4>1. at[j] = LengthUpto(list, k)
        <5> HIDE DEF q
        <5> QED BY <3>1
      <4> QED BY <3>4, <4>1
    <3>6. c \in Nat /\ c <= e.length /\ at[j - 1] = h + c
      <4>1. CASE j = 1
        <5>1. k = i /\ c = s.len /\ j - 1 = 0
          BY <2>1, <4>1
        <5>2. c <= e.length
          BY <1>3, <1>9, <5>1
        <5>3. h + c = len
          <6> HIDE DEF h, i
          <6>1. h = LengthUpto(list, i - 1) /\ c = s.len
            BY <5>1 DEF h
          <6> QED BY <1>3, <3>4, <6>1
        <5> QED BY <1>3, <2>4, <5>1, <5>2, <5>3
      <4>2. CASE j # 1
        <5>1. c = 0 /\ j - 1 # 0 /\ i + (j - 1) - 1 = k - 1
          <6>1. c = 0
            BY <4>2
          <6> HIDE DEF n, i, at, p, parts, part, skip, all, q, c
          <6> QED BY <2>1, <4>2, <6>1
        <5>2. at[j - 1] = LengthUpto(list, i + (j - 1) - 1)
          <6> HIDE DEF q, i
          <6> QED BY <3>1, <5>1
        <5>3. at[j - 1] = h
          BY <5>1, <5>2
        <5> HIDE DEF h, at
        <5> QED BY <3>3, <3>4, <5>1, <5>3
      <4> QED BY <4>1, <4>2
    <3> HIDE DEF h, c, q, n, i, at, e
    <3>7. a \in Nat /\ l \in Nat /\ e.offset <= a /\ a + l <= e.offset + e.length
      BY <3>3, <3>6
    <3> DEFINE pos == h + a - e.offset
    <3>8. pos = h + c /\ pos + l = h + e.length
      BY <3>3, <3>4, <3>6
    <3> HIDE DEF a, l
    <3>9. pos + l <= Len(all) /\ Mapped(<<k, a>>, l) = SubSeq(all, pos + 1, pos + l)
      <4>1. NamedUpto(list, n) = n /\ n \in Nat
        BY <1>3 DEF NamedUpto, Smallest, n
      <4> HIDE DEF pos, k
      <4>2. k \in 1 .. NamedUpto(list, n)
        BY <3>1, <4>1
      <4>3. list[k].offset <= a /\ a + l <= list[k].offset + list[k].length /\ pos = LengthUpto(list, k - 1) + a - list[k].offset
        BY <3>7 DEF e, pos, h
      <4> DEFINE adr == <<k, a>>
      <4>4. adr = <<k, a>> /\ all = AllBytes(list, n)
        BY DEF adr, all
      <4> HIDE DEF adr, all
      <4>5. PartAt(all, pos, adr, l)
        BY <3>7, <4>1, <4>2, <4>3, <4>4, MappingPart, Zenon
      <4> QED BY <4>4, <4>5, Zenon DEF PartAt
    <3>10. p[j] = Mapped(<<k, a>>, l)
      BY DEF a, l, c, e
    <3>11. at[j - 1] <= at[j]
      BY <3>3, <3>4, <3>5, <3>6
    <3> HIDE DEF pos, all, p
    <3> QED BY <3>5, <3>6, <3>8, <3>9, <3>10, <3>11, Zenon
  <2>6. at[0] <= Len(all)
    <3>1. 1 \in 1 .. q /\ 1 - 1 = 0
      BY <2>1
    <3>2. at[1 - 1] <= at[1] /\ at[1] <= Len(all) /\ at[1] \in Nat /\ at[0] \in Nat
      <4>1. 1 \in 0 .. q /\ 0 \in 0 .. q
        BY <2>1
      <4> HIDE DEF at, p, q
      <4> QED BY <2>3, <2>5, <3>1, <4>1
    <3> HIDE DEF at, all
    <3> QED BY <1>6, <3>1, <3>2
  <2> HIDE DEF at, all, p, q
  <2>7. FlattenSeq([j \in 1 .. q |-> p[j]]) = SubSeq(all, at[0] + 1, at[q])
    <3>1. \A j \in 1 .. q : at[j - 1] <= at[j] /\ at[j] <= Len(all)
      BY <2>5
    <3>2. \A j \in 1 .. q : p[j] = SubSeq(all, at[j - 1] + 1, at[j])
      BY <2>5
    <3> QED BY <1>4, <1>6, <2>3, <2>6, <3>1, <3>2, PiecesJoin
  <2>8. [j \in 1 .. q |-> p[j]] = p
    BY DEF p
  <2> QED BY <1>2, <1>5, <1>7, <2>4, <2>7, <2>8
<1> QED BY <1>8, <1>9
\* The two lists that a cipher gets.
LEMMA ReversedIs == ASSUME NEW list \in Seq(Entry) PROVE Reverse(list) \in Seq(Entry)
<1> DEFINE n == Len(list)
<1>1. n \in Nat /\ list \in [1 .. n -> Entry]
  OBVIOUS
<1>2. Reverse(list) = [i \in 1 .. n |-> list[(n - i) + 1]]
  BY Zenon DEF Reverse
<1>3. \A i \in 1 .. n : (n - i) + 1 \in 1 .. n
  BY <1>1
<1> HIDE DEF n
<1>4. Reverse(list) \in [1 .. n -> Entry]
  BY <1>1, <1>2, <1>3
<1> QED BY <1>1, <1>4, SeqDef
LEMMA ConvertHolds ==
    ASSUME SgHolds(sg), NEW assoclen \in Nat, NEW inplace, crypto_backport_convert(assoclen, inplace)
    PROVE  SgHolds(sg')
<1> DEFINE n == sg'
           dst == Reverse(sg.list)
           d == IF inplace THEN sg.list ELSE dst
           src_part == scatterwalk_ffwd(sg.list, assoclen)
           dst_part == IF inplace THEN src_part ELSE scatterwalk_ffwd(dst, assoclen)
           w == <<Behind(sg.list, assoclen), Behind(d, assoclen)>>
           g == <<BytesOf(src_part), BytesOf(dst_part)>>
<1>1. sg.pc = "idle" /\ sg \in Sgs /\ sg.list \in Seq(Entry) /\ sg.moved = <<>> /\ sg.miter.addr = <<>> /\ sg.miter \in Miters
  BY DEF SgHolds, Sgs, MovedHolds, EndHolds, crypto_backport_convert
<1>2. n = ConvertedTo(sg, w, g)
  BY Zenon DEF crypto_backport_convert, ConvertedTo
<1>3. d \in Seq(Entry) /\ dst \in Seq(Entry)
  BY <1>1, ReversedIs
<1>4. BytesOf(dst_part) = Behind(d, assoclen)
  <2> HIDE DEF dst
  <2>1. CASE inplace
    BY <1>1, <2>1, FfwdBehind, Zenon
  <2>2. CASE ~inplace
    BY <1>3, <2>2, FfwdBehind, Zenon
  <2> QED BY <2>1, <2>2, Zenon
<1>5. BytesOf(src_part) = Behind(sg.list, assoclen)
  BY <1>1, FfwdBehind, Zenon
<1>6. g = w
  BY <1>4, <1>5, Zenon
<1>7. w \in Wants
  <2>1. Behind(sg.list, assoclen) \in Bytes /\ Behind(d, assoclen) \in Bytes
    <3> HIDE DEF d
    <3> QED BY <1>1, <1>3, BehindIs
  <2> HIDE DEF d
  <2> QED BY <2>1, Zenon DEF Wants
<1> HIDE DEF n, w, g
<1>8. AsSg(n, sg, sg.miter, "returned", sg.moved, sg.skip, sg.buf, w, g)
  BY <1>1, <1>2, <1>6, <1>7, ConvertedAs, Zenon
<1>9. "returned" \notin {"idle", "free", "freed"}
  OBVIOUS
<1>10. n \in Sgs /\ n.bad = FALSE /\ IdleHolds(n) /\ TablesHold(n)
  BY <1>8, <1>9, SgKept
<1>11. n.miter = sg.miter /\ n.pc = "returned" /\ n.moved = <<>> /\ n.want = n.got
  BY <1>1, <1>6, <1>8, Zenon DEF AsSg
<1>12. IterateHolds(n) /\ SkipHolds(n) /\ CopyHolds(n) /\ MovedHolds(n) /\ EndHolds(n)
  BY <1>1, <1>11 DEF IterateHolds, SkipHolds, CopyHolds, MovedHolds, EndHolds
<1> QED BY <1>10, <1>12, Zenon DEF SgHolds, n

\* The invariant holds at the start and after each step.
LEMMA SgStarts == ASSUME NEW list \in Seq(Entry), NEW nents \in Nat PROVE SgHolds(SgStart(list, nents))
<1> DEFINE z == SgStart(list, nents)
           m == Start(nents)
           p == [i \in DOMAIN list |-> 0]
           l == Len(list)
<1>1. m \in Miters /\ m.addr = <<>>
  BY StartInHand
<1>2. p \in Seq(Nat) /\ l \in Nat
  <2>1. DOMAIN list = 1 .. Len(list) /\ Len(list) \in Nat
    OBVIOUS
  <2>2. p \in [1 .. Len(list) -> Nat]
    BY <2>1
  <2> QED BY <2>1, <2>2, SeqDef
<1>3. <<>> \in Bytes /\ <<>> \in Wants
  BY DEF Bytes, Wants
<1> HIDE DEF m, p, l
<1>4. z = [list |-> list, nents |-> nents, miter |-> m, pc |-> "idle", moved |-> <<>>, skip |-> 0, buf |-> <<>>, buflen |-> 0,
           want |-> <<>>, got |-> <<>>, pages |-> p, cut |-> l, alive |-> {}, iter |-> <<1, 1>>, delete_iter |-> 1, bad |-> FALSE]
  BY Zenon DEF SgStart, m, p, l
<1> HIDE DEF z
<1>5. z \in Sgs
  BY <1>1, <1>2, <1>3, <1>4 DEF Sgs, SgPcs
<1>6. /\ z.pc = "idle" /\ z.miter = m /\ z.nents = nents /\ z.buf = <<>> /\ z.want = <<>> /\ z.pages = p /\ z.list = list
      /\ z.iter = <<1, 1>> /\ z.delete_iter = 1 /\ z.moved = <<>> /\ z.bad = FALSE
  BY <1>4
<1>7. IdleHolds(z)
  BY <1>6, Zenon DEF IdleHolds, m, p
<1>8. IterateHolds(z) /\ SkipHolds(z) /\ CopyHolds(z) /\ MovedHolds(z) /\ EndHolds(z) /\ TablesHold(z)
  BY <1>1, <1>6 DEF IterateHolds, SkipHolds, CopyHolds, MovedHolds, EndHolds, TablesHold
<1> QED BY <1>5, <1>6, <1>7, <1>8, Zenon DEF SgHolds, z
LEMMA SgInits == SgInit => SgHolds(sg)
<1> SUFFICES ASSUME SgInit PROVE SgHolds(sg)
  OBVIOUS
<1>1. PICK list \in SgLists : \E nents \in 0 .. Len(list) + 1 : sg = SgStart(list, nents)
  BY DEF SgInit
<1>2. list \in Seq(Entry)
  BY ScatterAssumption DEF Entry
<1>3. PICK nents \in 0 .. Len(list) + 1 : sg = SgStart(list, nents)
  BY <1>1
<1>4. nents \in Nat
  BY <1>2
<1>5. SgHolds(SgStart(list, nents))
  BY <1>2, <1>4, SgStarts
<1> QED BY <1>3, <1>5, Zenon
LEMMA SgSteps == SgHolds(sg) /\ SgNext => SgHolds(sg')
<1> SUFFICES ASSUME SgHolds(sg), SgNext PROVE SgHolds(sg')
  OBVIOUS
<1>1. ASSUME backport_sg_miter_start \/ Iterate \/ ConsumeLess \/ Stop PROVE SgHolds(sg')
  BY <1>1, StartHolds, IterateHolds1, ConsumeLessHolds, StopHolds, Zenon
<1>2. ASSUME NEW skip \in BufLens, NEW len \in BufLens,
             sg_pcopy_to_buffer(len, skip) \/ sg_pcopy_from_buffer(len, skip) \/ devcd_read_from_sgtable(skip, len)
      PROVE  SgHolds(sg')
  BY <1>2, PcopyHolds, ReadHolds, Zenon
<1>3. ASSUME sg_miter_skip \/ Copy \/ FreePages \/ devcd_free_sgtable PROVE SgHolds(sg')
  BY <1>3, SkipsHolds, CopyGoes, FreePagesHolds, FreeHolds, Zenon
<1>4. ASSUME NEW assoclen \in 0 .. data_len, NEW inplace \in BOOLEAN, crypto_backport_convert(assoclen, inplace)
      PROVE  SgHolds(sg')
  <2>1. assoclen \in Nat
    OBVIOUS
  <2> QED BY <1>4, <2>1, ConvertHolds, Zenon
<1> QED BY <1>1, <1>2, <1>3, <1>4, Zenon DEF SgNext

-----------------------------------------------------------------------------
(* A row of a dump.                                                        *)
RowOf(len, group, size, overflow, hex, all) ==
    CASE size = 0 -> [ret |-> overflow, text |-> 0, end |-> 0]
      [] size > 0 /\ len = 0 -> [ret |-> 0, text |-> 0, end |-> 0]
      [] size > 0 /\ len > 0 /\ group > 1 /\ hex >= size -> [ret |-> overflow, text |-> size - 1, end |-> size - 1]
      [] size > 0 /\ len > 0 /\ group = 1 /\ size < 3 * len -> [ret |-> overflow, text |-> 3 * (size \div 3), end |-> 3 * (size \div 3)]
      [] size > 0 /\ len > 0 /\ hex < size /\ (group = 1 => size >= 3 * len) ->
            IF all < size THEN [ret |-> all, text |-> all, end |-> all]
            ELSE [ret |-> overflow, text |-> size - 1, end |-> size - 1]
Row(len, row, group, size, ascii) ==
    LET ascii_column == row * 2 + row \div group + 1
    IN  RowOf(len, group, size, IF ascii THEN ascii_column + len ELSE (group * 2 + 1) * (len \div group) - 1, HexText(len, group),
              IF ascii THEN ascii_column + len ELSE HexText(len, group))
\* What a row answers and leaves in its buffer: all characters it has, if they fit.
RowAll(len, row, group, ascii) == IF ascii THEN row * 2 + row \div group + 1 + len ELSE HexText(len, group)
RowTold(r, all, size) ==
    /\ r \in [ret : {all}, text : 0 .. size, end : 0 .. size]
    /\ size > all => r.text = all
RowOk(len, row, group) == len \in 1 .. 32 /\ row \in {16, 32} /\ len <= row /\ group \in {1, 2, 4, 8} /\ len % group = 0
RowIs(len, row, group, size, ascii) ==
    RowTold(Row(len, row, group, size, ascii), RowAll(len, row, group, ascii), size) /\ RowAll(len, row, group, ascii) \in 0 .. 200
LEMMA RowOverflow ==
    ASSUME NEW len \in 1 .. 32, NEW row \in {16, 32}, len <= row, NEW group \in {1, 2, 4, 8}, len % group = 0
    PROVE  HexText(len, group) = (group * 2 + 1) * (len \div group) - 1 /\ HexText(len, group) \in 0 .. 100 /\ (row \div group) \in 2 .. 32
           /\ (group = 1 => HexText(len, group) = 3 * len - 1) 
  BY DEF HexText

LEMMA RowHolds ==
    ASSUME NEW len \in 1 .. 32, NEW row \in {16, 32}, len <= row, NEW group \in {1, 2, 4, 8}, len % group = 0,
           NEW size \in Nat, NEW ascii \in BOOLEAN
    PROVE  RowIs(len, row, group, size, ascii)
<1> DEFINE hex == HexText(len, group)
           cols == row \div group
           c == row * 2 + cols + 1
           all == IF ascii THEN c + len ELSE hex
           over == IF ascii THEN c + len ELSE (group * 2 + 1) * (len \div group) - 1
           third == size \div 3
<1>1. hex = (group * 2 + 1) * (len \div group) - 1 /\ hex \in 0 .. 100 /\ cols \in 2 .. 32 /\ (group = 1 => hex = 3 * len - 1 /\ cols = row)
  <2>1. group = 1 => cols = row
    OBVIOUS
  <2> HIDE DEF cols
  <2> QED BY <2>1, RowOverflow DEF cols
<1>2. third \in Nat /\ 3 * third <= size
  OBVIOUS
<1> DEFINE row1 == RowOf(len, group, size, over, hex, all)
<1>3. Row(len, row, group, size, ascii) = row1
  BY Zenon DEF Row
<1>7. over = all
  BY <1>1
<1>4. RowAll(len, row, group, ascii) = all
  BY DEF RowAll
<1> HIDE DEF hex, cols, third, over, row1
<1>5. c \in 0 .. 97 /\ all \in 0 .. 200 /\ (group = 1 => 3 * len - 1 <= all) /\ hex <= all
  <2>1. CASE ascii
    BY <1>1, <2>1
  <2>2. CASE ~ascii
    BY <1>1, <2>2
  <2> QED BY <2>1, <2>2
<1> HIDE DEF all
<1>8. over \in 0 .. 200 /\ hex \in Nat /\ (group = 1 => hex = 3 * len - 1)
  BY <1>1, <1>5, <1>7
<1> HIDE DEF hex, over, all
<1>6. RowTold(RowOf(len, group, size, over, hex, all), all, size)
  <2>1. CASE size = 0
    BY <2>1, <1>5, <1>7 DEF RowOf, RowTold
  <2>2. CASE size > 0 /\ group > 1 /\ hex >= size
    BY <2>2, <1>5, <1>7, <1>8 DEF RowOf, RowTold
  <2>3. CASE size > 0 /\ group = 1 /\ size < 3 * len
    BY <2>3, <1>2, <1>5, <1>7, <1>8 DEF RowOf, RowTold, third
  <2>4. CASE size > 0 /\ hex < size /\ (group = 1 => size >= 3 * len)
    BY <2>4, <1>5, <1>7, <1>8 DEF RowOf, RowTold
  <2>5. (group = 1 \/ (group \in Nat /\ group > 1)) /\ hex \in Nat /\ size \in Nat
    BY <1>8
  <2>7. group = 1 => hex = 3 * len - 1 /\ len \in Nat
    BY <1>8
  <2>6. \/ size = 0
        \/ size > 0 /\ group > 1 /\ hex >= size
        \/ size > 0 /\ group = 1 /\ size < 3 * len
        \/ size > 0 /\ hex < size /\ (group = 1 => size >= 3 * len)
    BY ONLY <2>5, <2>7
  <2> QED BY <2>1, <2>2, <2>3, <2>4, <2>6, Zenon
<1> QED BY <1>3, <1>4, <1>5, <1>6 DEF row1, RowIs
LEMMA RowFits ==
    ASSUME NEW len, NEW row, NEW group, RowOk(len, row, group), NEW size \in Nat, NEW ascii \in BOOLEAN
    PROVE  RowIs(len, row, group, size, ascii)
  BY RowHolds DEF RowOk
HexTold(len, rowsize, groupsize, size, ascii) ==
    /\ \E all \in Nat : /\ RowTold(hex_dump_to_buffer(len, rowsize, groupsize, size, ascii), all, size)
                        /\ RowTold(hex_dump_to_buffer(len, rowsize, groupsize, 1000, ascii), all, 1000)
                        /\ all < 1000
    /\ hex_dump_to_buffer(len, RowSize(rowsize), groupsize, size, ascii) = hex_dump_to_buffer(len, rowsize, groupsize, size, ascii)
LEMMA HexDump ==
    ASSUME NEW rowsize, NEW len \in Nat, 0 < len, len <= RowSize(rowsize), NEW groupsize \in Nat, NEW size \in Nat, NEW ascii \in BOOLEAN
    PROVE  HexTold(len, rowsize, groupsize, size, ascii)
<1> DEFINE row == RowSize(rowsize)
           group == GroupSize(groupsize, len)
           many == 1000
           all == RowAll(len, row, group, ascii)
<1>1. row \in {16, 32} /\ RowSize(row) = row
  BY DEF RowSize
<1>2. group \in {1, 2, 4, 8} /\ len % group = 0
  <2>1. CASE groupsize \in {1, 2, 4, 8} /\ len % groupsize = 0
    BY <2>1 DEF GroupSize
  <2>2. CASE ~(groupsize \in {1, 2, 4, 8} /\ len % groupsize = 0)
    BY <2>2 DEF GroupSize
  <2> QED BY <2>1, <2>2
<1>3. Lesser(len, row) = len /\ len \in 1 .. 32
  <2> HIDE DEF row
  <2>1. len <= row
    BY DEF row
  <2> QED BY <1>1, <2>1 DEF Lesser
<1>4. ASSUME NEW n PROVE hex_dump_to_buffer(len, rowsize, groupsize, n, ascii) = Row(len, row, group, n, ascii)
                         /\ hex_dump_to_buffer(len, row, groupsize, n, ascii) = Row(len, row, group, n, ascii)
  BY <1>1, <1>3, Zenon DEF hex_dump_to_buffer, Row, RowOf
<1>5. len <= row
  BY DEF row
<1> HIDE DEF row, group, many
<1>6. all \in 0 .. 200 /\ RowTold(Row(len, row, group, size, ascii), all, size) /\ RowTold(Row(len, row, group, many, ascii), all, many)
  <2>1. many \in Nat
    BY DEF many
  <2>2. row \in {16, 32} /\ group \in {1, 2, 4, 8} /\ len % group = 0 /\ len \in 1 .. 32 /\ len <= row
    BY <1>1, <1>2, <1>3, <1>5
  <2>3. RowIs(len, row, group, size, ascii) /\ RowIs(len, row, group, many, ascii)
    <3>1. RowOk(len, row, group)
      BY <2>2, Zenon DEF RowOk
    <3> QED BY <2>1, <3>1, RowFits, Zenon
  <2> QED BY <2>3, Zenon DEF RowIs
<1>7. all \in Nat /\ all < 1000
  BY <1>6
<1> HIDE DEF all
<1>9. hex_dump_to_buffer(len, rowsize, groupsize, size, ascii) = Row(len, row, group, size, ascii)
      /\ hex_dump_to_buffer(len, rowsize, groupsize, many, ascii) = Row(len, row, group, many, ascii)
      /\ hex_dump_to_buffer(len, RowSize(rowsize), groupsize, size, ascii) = Row(len, row, group, size, ascii)
  BY <1>4 DEF row
<1> DEFINE r == hex_dump_to_buffer(len, rowsize, groupsize, size, ascii)
           free == hex_dump_to_buffer(len, rowsize, groupsize, many, ascii)
<1>10. RowTold(r, all, size) /\ RowTold(free, all, many)
  BY <1>6, <1>9, Zenon
<1>11. hex_dump_to_buffer(len, RowSize(rowsize), groupsize, size, ascii) = r
  BY <1>9, Zenon
<1> HIDE DEF r, free
<1>12. \E x \in Nat : RowTold(r, x, size) /\ RowTold(free, x, many) /\ x < 1000
  BY <1>7, <1>10
<1> QED BY <1>11, <1>12 DEF r, free, many, HexTold
-----------------------------------------------------------------------------
(* A dump: the rows so far are whole, one behind the other.                *)
Dump == [len : Nat, rowsize : Nat, groupsize : Nat, ascii : BOOLEAN, prefix : Nat, size : Nat]
DumpAt(d, size, count, i, remaining, rows, last, pc) ==
    [job |-> "dump", d |-> d, size |-> size, count |-> count, i |-> i, remaining |-> remaining, rows |-> rows, last |-> last, pc |-> pc]
RowOfDump(d, len, size) == hex_dump_to_buffer(len, d.rowsize, d.groupsize, size, d.ascii)
LastIs(d, last) ==
    last = <<>> \/ \E len \in Nat, size \in Nat : 0 < len /\ len <= RowSize(d.rowsize) /\ last = <<len, size, RowOfDump(d, len, size)>>
RowsAre(d, rows) ==
    \A k \in 1 .. Len(rows) :
        rows[k][1] = (k - 1) * RowSize(d.rowsize) /\ rows[k][2] = Lesser(RowSize(d.rowsize), d.len - (k - 1) * RowSize(d.rowsize))
RowsUpto(d, i, remaining, rows, pc) ==
    /\ i = Len(rows) * RowSize(d.rowsize) /\ remaining = d.len - i
    /\ rows # <<>> => i - RowSize(d.rowsize) < d.len
    /\ pc # "rows" => i >= d.len
DumpOk(d, size, count, i, remaining, rows, last, pc) ==
    /\ d \in Dump /\ size \in Nat /\ count \in Nat /\ count <= size /\ i \in Nat /\ remaining \in Int
    /\ rows \in Seq(Nat \X Nat \X Nat) /\ pc \in {"rows", "returned", "shown"}
    /\ RowsAre(d, rows) /\ LastIs(d, last)
    /\ count # size => RowsUpto(d, i, remaining, rows, pc)
    /\ pc = "shown" => count # size
DumpHolds(j) ==
    \E d, size, count, i, remaining, rows, last, pc :
        DumpOk(d, size, count, i, remaining, rows, last, pc) /\ j = DumpAt(d, size, count, i, remaining, rows, last, pc)
LastWhole(d, last) ==
    LET len == last[1]
        size == last[2]
        r == last[3]
        free == hex_dump_to_buffer(len, d.rowsize, d.groupsize, 1000, d.ascii)
    IN  /\ r.ret = free.ret /\ free.text = free.ret /\ r.end <= size
        /\ IF size > r.ret THEN r.text = r.ret ELSE r.text <= size
RowsWhole(d, rows) ==
    LET rowsize == RowSize(d.rowsize)
    IN  /\ Len(rows) = (d.len + rowsize - 1) \div rowsize
        /\ \A k \in DOMAIN rows : rows[k][1] = (k - 1) * rowsize /\ rows[k][2] = Lesser(rowsize, d.len - rows[k][1])
LEMMA LastWholeIs == ASSUME NEW d \in Dump, NEW last, LastIs(d, last), last # <<>> PROVE LastWhole(d, last)
<1>1. PICK len \in Nat, size \in Nat : 0 < len /\ len <= RowSize(d.rowsize) /\ last = <<len, size, RowOfDump(d, len, size)>>
  BY Zenon DEF LastIs
<1> DEFINE many == 1000
           r == RowOfDump(d, len, size)
           free == hex_dump_to_buffer(len, d.rowsize, d.groupsize, many, d.ascii)
<1>2. PICK all \in Nat : RowTold(r, all, size) /\ RowTold(free, all, many) /\ all < many
  <2>1. d.rowsize \in Nat /\ d.groupsize \in Nat /\ d.ascii \in BOOLEAN
    BY DEF Dump
  <2> DEFINE rs == d.rowsize
             gs == d.groupsize
             as == d.ascii
  <2>2. rs \in Nat /\ gs \in Nat /\ as \in BOOLEAN /\ len <= RowSize(rs)
    BY <2>1, <1>1
  <2> HIDE DEF rs, gs, as
  <2>3. HexTold(len, rs, gs, size, as)
    BY <1>1, <2>2, HexDump, Zenon
  <2> QED BY <2>3, ZenonT(60) DEF rs, gs, as, RowOfDump, HexTold
<1>3. r.ret = all /\ free.ret = all /\ free.text = all /\ r.end <= size /\ (size > all => r.text = all) /\ r.text <= size
  <2> HIDE DEF r, free
  <2>1. all < 1000
    BY <1>2
  <2> QED BY <1>2, <2>1 DEF RowTold
<1>4. last[1] = len /\ last[2] = size /\ last[3] = r
  BY <1>1
<1> HIDE DEF r
<1>5. free = hex_dump_to_buffer(last[1], d.rowsize, d.groupsize, 1000, d.ascii)
  BY <1>4
<1> HIDE DEF free
<1> QED BY <1>3, <1>4, <1>5 DEF LastWhole
LEMMA RowsWholeIs ==
    ASSUME NEW d \in Dump, NEW i, NEW remaining, NEW rows \in Seq(Nat \X Nat \X Nat), RowsAre(d, rows), RowsUpto(d, i, remaining, rows, "shown")
    PROVE  RowsWhole(d, rows)
<1> DEFINE row == RowSize(d.rowsize)
           len == d.len
           l == Len(rows)
<1>1. row \in {16, 32} /\ len \in Nat /\ l \in Nat /\ (l = 0 <=> rows = <<>>)
  BY DEF RowSize, Dump
<1>2. i = l * row /\ (rows # <<>> => i - row < len) /\ i >= len
  BY Zenon DEF RowsUpto
<1> HIDE DEF row, len, l
<1>3. l = (len + row - 1) \div row
  <2>1. CASE row = 16
    BY <1>1, <1>2, <2>1
  <2>2. CASE row = 32
    BY <1>1, <1>2, <2>2
  <2> QED BY <1>1, <2>1, <2>2
<1>4. ASSUME NEW k \in DOMAIN rows PROVE rows[k][1] = (k - 1) * row /\ rows[k][2] = Lesser(row, len - rows[k][1])
  <2>1. k \in 1 .. Len(rows)
    OBVIOUS
  <2> QED BY <2>1, Zenon DEF RowsAre, row, len
<1> QED BY <1>3, <1>4, Zenon DEF RowsWhole, row, len, l
LEMMA DumpSent == ASSUME NEW j, DumpHolds(j)
                  PROVE  (j.pc = "shown" => RowsWhole(j.d, j.rows)) /\ (j.last # <<>> => LastWhole(j.d, j.last))
<1>1. PICK d, size, count, i, remaining, rows, last, pc :
        DumpOk(d, size, count, i, remaining, rows, last, pc) /\ j = DumpAt(d, size, count, i, remaining, rows, last, pc)
  BY Zenon DEF DumpHolds
<1>2. j.pc = pc /\ j.d = d /\ j.rows = rows /\ j.last = last
  BY <1>1 DEF DumpAt
<1>3. d \in Dump /\ rows \in Seq(Nat \X Nat \X Nat) /\ RowsAre(d, rows) /\ LastIs(d, last)
      /\ (pc = "shown" => RowsUpto(d, i, remaining, rows, "shown"))
  BY <1>1, Zenon DEF DumpOk
<1>4. pc = "shown" => RowsWhole(d, rows)
  BY <1>3, RowsWholeIs, Zenon
<1>5. last # <<>> => LastWhole(d, last)
  BY <1>3, LastWholeIs, Zenon
<1> QED BY <1>2, <1>4, <1>5, Zenon
LEMMA DumpStarts == ASSUME NEW d \in Dump PROVE DumpHolds(DumpStart(d))
<1> DEFINE none == <<>>
           size == d.size
           len == d.len
<1>1. DumpStart(d) = DumpAt(d, size, 0, 0, len, none, none, "rows")
  BY DEF DumpStart, DumpAt
<1>2. none \in Seq(Nat \X Nat \X Nat) /\ Len(none) = 0 /\ size \in Nat /\ len \in Nat /\ RowSize(d.rowsize) \in {16, 32}
  BY DEF Dump, RowSize
<1>6. LastIs(d, none)
  BY Zenon DEF LastIs
<1>3. RowsAre(d, none)
  BY <1>2 DEF RowsAre
<1>4. RowsUpto(d, 0, len, none, "rows")
  BY <1>2 DEF RowsUpto
<1> HIDE DEF none, size, len
<1>5. DumpOk(d, size, 0, 0, len, none, none, "rows")
  BY <1>2, <1>3, <1>4, <1>6 DEF DumpOk
<1> QED BY <1>1, <1>5, Zenon DEF DumpHolds
LEMMA RowsGrow ==
    ASSUME NEW d \in Dump, NEW i, NEW remaining, NEW rows \in Seq(Nat \X Nat \X Nat), RowsAre(d, rows),
           RowsUpto(d, i, remaining, rows, "rows"), i < d.len,
           NEW text \in Nat
    PROVE  LET row == RowSize(d.rowsize)
               more == Append(rows, <<i, Lesser(remaining, row), text>>)
           IN  RowsAre(d, more) /\ RowsUpto(d, i + row, remaining - row, more, "rows") /\ more \in Seq(Nat \X Nat \X Nat)
<1> DEFINE row == RowSize(d.rowsize)
           len == d.len
           linelen == Lesser(remaining, row)
           new == <<i, linelen, text>>
           more == Append(rows, new)
           l == Len(rows)
<1>1. row \in {16, 32} /\ len \in Nat /\ l \in Nat
  BY DEF RowSize, Dump
<1>2. i = l * row /\ remaining = len - i /\ i < len
  BY Zenon DEF RowsUpto
<1>3. more \in Seq(Nat \X Nat \X Nat) /\ Len(more) = l + 1 /\ more[l + 1] = new /\ (\A k \in 1 .. l : more[k] = rows[k])
  <2>1. i \in Nat /\ linelen \in Nat
    <3> HIDE DEF row, len, l
    <3> QED BY <1>1, <1>2 DEF Lesser
  <2> HIDE DEF linelen
  <2>2. new \in Nat \X Nat \X Nat
    BY <2>1
  <2> HIDE DEF new
  <2> QED BY <2>2
<1>4. RowsAre(d, more)
  <2> SUFFICES ASSUME NEW k \in 1 .. Len(more)
               PROVE  more[k][1] = (k - 1) * row /\ more[k][2] = Lesser(row, len - (k - 1) * row)
    BY Zenon DEF RowsAre
  <2>1. CASE k \in 1 .. l
    <3>1. more[k] = rows[k]
      BY <1>3, <2>1
    <3> QED BY <2>1, <3>1, Zenon DEF RowsAre
  <2>2. CASE k = l + 1
    <3>1. more[k] = new /\ k - 1 = l
      BY <1>1, <1>3, <2>2
    <3>2. new[1] = i /\ new[2] = linelen
      OBVIOUS
    <3>3. linelen = Lesser(row, len - l * row)
      <4> HIDE DEF row, len, l
      <4>1. CASE row = 16
        BY <1>1, <1>2, <4>1 DEF Lesser
      <4>2. CASE row = 32
        BY <1>1, <1>2, <4>2 DEF Lesser
      <4> QED BY <1>1, <4>1, <4>2
    <3> HIDE DEF more, new, linelen, row, len, l
    <3> QED BY <1>2, <3>1, <3>2, <3>3
  <2> HIDE DEF l, more
  <2> QED BY <1>1, <1>3, <2>1, <2>2
<1>5. RowsUpto(d, i + row, remaining - row, more, "rows")
  <2> HIDE DEF row, len, l, more
  <2>1. i + row = (l + 1) * row /\ remaining - row = len - (i + row) /\ (i + row) - row < len
    <3>1. CASE row = 16
      BY <1>1, <1>2, <3>1
    <3>2. CASE row = 32
      BY <1>1, <1>2, <3>2
    <3> QED BY <1>1, <3>1, <3>2
  <2> QED BY <1>3, <2>1 DEF RowsUpto, row, len
<1> QED BY <1>3, <1>4, <1>5, Zenon
LEMMA ToldNats == ASSUME NEW r, NEW all \in Nat, NEW size \in Nat, RowTold(r, all, size) PROVE r.text \in Nat /\ r.ret \in Nat
  BY DEF RowTold
DumpMoved(z, i, remaining, last) == [z EXCEPT !.i = i, !.remaining = remaining, !.last = last]
MovesTo(d, size, count, i, remaining, rows, last, pc, i2, remaining2, last2) ==
    DumpMoved(DumpAt(d, size, count, i, remaining, rows, last, pc), i2, remaining2, last2) =
    DumpAt(d, size, count, i2, remaining2, rows, last2, pc)
LEMMA DumpMoves ==
    ASSUME NEW d, NEW size, NEW count, NEW i, NEW remaining, NEW rows, NEW last, NEW pc, NEW i2, NEW remaining2, NEW last2
    PROVE  MovesTo(d, size, count, i, remaining, rows, last, pc, i2, remaining2, last2)
<1> DEFINE a == DumpAt(d, size, count, i, remaining, rows, last, pc)
           b == DumpAt(d, size, count, i2, remaining, rows, last, pc)
           c == DumpAt(d, size, count, i2, remaining2, rows, last, pc)
<1>1. [a EXCEPT !.i = i2] = b
  BY DEF DumpAt
<1>2. [b EXCEPT !.remaining = remaining2] = c
  BY DEF DumpAt
<1>3. [c EXCEPT !.last = last2] = DumpAt(d, size, count, i2, remaining2, rows, last2, pc)
  BY DEF DumpAt
<1> HIDE DEF a, b, c
<1>4. DumpMoved(a, i2, remaining2, last2) = [[[a EXCEPT !.i = i2] EXCEPT !.remaining = remaining2] EXCEPT !.last = last2]
  BY DEF DumpMoved
<1> QED BY <1>1, <1>2, <1>3, <1>4, Zenon DEF a, MovesTo
Written(z, count, rows) == [z EXCEPT !.count = count, !.rows = rows]
WritesTo(d, size, count, i, remaining, rows, last, pc, count2, rows2) ==
    Written(DumpAt(d, size, count, i, remaining, rows, last, pc), count2, rows2) =
    DumpAt(d, size, count2, i, remaining, rows2, last, pc)
LEMMA DumpWrites ==
    ASSUME NEW d, NEW size, NEW count, NEW i, NEW remaining, NEW rows, NEW last, NEW pc, NEW count2, NEW rows2
    PROVE  WritesTo(d, size, count, i, remaining, rows, last, pc, count2, rows2)
<1> DEFINE a == DumpAt(d, size, count, i, remaining, rows, last, pc)
           b == DumpAt(d, size, count2, i, remaining, rows, last, pc)
<1>1. [a EXCEPT !.count = count2] = b
  BY DEF DumpAt
<1>2. [b EXCEPT !.rows = rows2] = DumpAt(d, size, count2, i, remaining, rows2, last, pc)
  BY DEF DumpAt
<1> HIDE DEF a, b
<1>3. Written(a, count2, rows2) = [[a EXCEPT !.count = count2] EXCEPT !.rows = rows2]
  BY DEF Written
<1> QED BY <1>1, <1>2, <1>3, Zenon DEF a, WritesTo
LEMMA DumpGoes == ASSUME DumpHolds(job), seq_hex_dump PROVE DumpHolds(job')
<1>1. PICK d, size, count, i, remaining, rows, last, pc :
        DumpOk(d, size, count, i, remaining, rows, last, pc) /\ job = DumpAt(d, size, count, i, remaining, rows, last, pc)
  BY Zenon DEF DumpHolds
<1>2. pc = "rows" /\ job.i = i /\ job.d = d /\ job.remaining = remaining /\ (Overflowed(job) <=> count = size)
  BY <1>1 DEF DumpAt, seq_hex_dump, Overflowed
<1>3. d \in Dump /\ size \in Nat /\ count \in Nat /\ count <= size /\ i \in Nat /\ remaining \in Int /\ rows \in Seq(Nat \X Nat \X Nat)
      /\ RowsAre(d, rows) /\ LastIs(d, last) /\ (count # size => RowsUpto(d, i, remaining, rows, "rows"))
  BY <1>1, <1>2, Zenon DEF DumpOk
<1>4. CASE i >= d.len \/ count = size
  <2>1. job' = [job EXCEPT !.pc = "returned"]
    BY <1>2, <1>4, Zenon DEF seq_hex_dump
  <2>2. job' = DumpAt(d, size, count, i, remaining, rows, last, "returned")
    BY <1>1, <2>1 DEF DumpAt
  <2>3. count # size => RowsUpto(d, i, remaining, rows, "returned")
    BY <1>3, <1>4 DEF RowsUpto
  <2>4. DumpOk(d, size, count, i, remaining, rows, last, "returned")
    BY <1>3, <2>3 DEF DumpOk
  <2> QED BY <2>2, <2>4, Zenon DEF DumpHolds
<1>5. CASE ~(i >= d.len \/ count = size)
  <2> DEFINE row == RowSize(d.rowsize)
             linelen == Lesser(remaining, row)
             prefix == d.prefix
             printed == IF count + prefix < size THEN count + prefix ELSE size
             left == size - printed
             z == DumpAt(d, size, printed, i, remaining, rows, last, "rows")
             r == hex_dump_to_buffer(linelen, row, d.groupsize, left, d.ascii)
             ret == r.ret
             ended == printed + ret
             put == IF ended < size THEN ended + 1 ELSE ended
             i2 == i + row
             left2 == remaining - row
             last2 == <<linelen, left, r>>
             more == Append(rows, <<i, linelen, r.text>>)
  <2>1. RowsUpto(d, i, remaining, rows, "rows") /\ i < d.len /\ d.len \in Nat /\ prefix \in Nat /\ row \in {16, 32}
        /\ d.groupsize \in Nat /\ d.ascii \in BOOLEAN
    BY <1>3, <1>5 DEF RowSize, Dump
  <2>2. linelen \in Nat /\ 0 < linelen /\ linelen <= row
    <3>1. remaining = d.len - i /\ remaining > 0
      BY <1>3, <2>1 DEF RowsUpto
    <3> HIDE DEF row
    <3> QED BY <1>3, <2>1, <3>1 DEF Lesser
  <2>3. printed \in Nat /\ printed <= size /\ left \in Nat
    BY <1>3, <2>1
  <2>4. Print1(job, prefix) = z
    BY <1>1, <1>2 DEF DumpAt, Print1
  <2>5. z.size - z.count = left
    BY DEF DumpAt
  <2> HIDE DEF row, linelen, prefix, printed, left
  <2>6. r = RowOfDump(d, linelen, left) /\ r.text \in Nat /\ ret \in Nat
    <3> DEFINE gs == d.groupsize
               as == d.ascii
               rs == d.rowsize
    <3>1. gs \in Nat /\ as \in BOOLEAN /\ linelen <= RowSize(rs)
      BY <2>1, <2>2 DEF row
    <3> HIDE DEF gs, as, rs
    <3>2. HexTold(linelen, rs, gs, left, as)
      BY <2>2, <2>3, <3>1, HexDump, Zenon
    <3>3. r = hex_dump_to_buffer(linelen, rs, gs, left, as)
      BY <3>2, ZenonT(60) DEF HexTold, rs, gs, as, row
    <3>4. PICK all \in Nat : RowTold(hex_dump_to_buffer(linelen, rs, gs, left, as), all, left)
      BY <3>2, ZenonT(60) DEF HexTold
    <3> HIDE DEF r
    <3>5. r.text \in Nat /\ r.ret \in Nat
      <4> DEFINE x == hex_dump_to_buffer(linelen, rs, gs, left, as)
      <4>1. RowTold(x, all, left)
        BY <3>4
      <4> HIDE DEF x
      <4>2. x.text \in Nat /\ x.ret \in Nat
        BY <2>3, <4>1, ToldNats, Zenon
      <4> QED BY <3>3, <4>2, Zenon DEF x
    <3> QED BY <3>3, <3>5, Zenon DEF RowOfDump, rs, gs, as
  <2> HIDE DEF z, r
  <2>7. RowsAre(d, more) /\ RowsUpto(d, i2, left2, more, "rows") /\ more \in Seq(Nat \X Nat \X Nat)
    BY <1>3, <2>1, <2>6, RowsGrow DEF row, linelen
  <2>8. LastIs(d, last2)
    BY <2>2, <2>3, <2>6, Zenon DEF LastIs, row
  <2>9. i2 \in Nat /\ left2 \in Int
    BY <1>3, <2>1
  <2> DEFINE next == [z EXCEPT !.i = @ + row, !.remaining = @ - row, !.last = last2]
  <2>10. job' = IF ret >= left THEN [next EXCEPT !.count = z.size]
                ELSE Putc([next EXCEPT !.count = @ + ret, !.rows = Append(@, <<job.i, linelen, r.text>>)])
    <3>1. ~(job.i >= job.d.len \/ Overflowed(job))
      BY <1>2, <1>5, Zenon
    <3> QED BY <1>2, <2>4, <2>5, <3>1 DEF seq_hex_dump, row, linelen, prefix, r
  <2> HIDE DEF ret, last2
  <2>11. next = DumpAt(d, size, printed, i2, left2, rows, last2, "rows") /\ z.size = size
    <3>1. z.size = size
      BY DEF DumpAt, z
    <3>2. z.i = i /\ z.remaining = remaining
      BY DEF DumpAt, z
    <3>3. next = DumpMoved(z, i2, left2, last2)
      BY <3>2, Zenon DEF DumpMoved
    <3> HIDE DEF next, i2, left2
    <3>4. MovesTo(d, size, printed, i, remaining, rows, last, "rows", i2, left2, last2)
      BY DumpMoves, Zenon
    <3> QED BY <3>1, <3>3, <3>4, Zenon DEF z, MovesTo
  <2> HIDE DEF i2, left2, next
  <2>12. CASE ret >= left
    <3>1. job' = DumpAt(d, size, size, i2, left2, rows, last2, "rows")
      BY <2>10, <2>11, <2>12 DEF DumpAt
    <3>2. DumpOk(d, size, size, i2, left2, rows, last2, "rows")
      BY <1>3, <2>8, <2>9 DEF DumpOk
    <3> QED BY <3>1, <3>2, Zenon DEF DumpHolds
  <2>13. CASE ~(ret >= left)
    <3> DEFINE text == <<i, linelen, r.text>>
               written == [next EXCEPT !.count = @ + ret, !.rows = Append(@, text)]
    <3>1. job' = Putc(written)
      BY <1>2, <2>10, <2>13, Zenon
    <3>2. written = DumpAt(d, size, ended, i2, left2, more, last2, "rows")
      <4>1. next.count = printed /\ next.rows = rows
        BY <2>11 DEF DumpAt
      <4>2. written = Written(next, ended, more)
        BY <4>1, Zenon DEF Written
      <4> HIDE DEF written, more, ended
      <4>3. WritesTo(d, size, printed, i2, left2, rows, last2, "rows", ended, more)
        BY DumpWrites, Zenon
      <4> QED BY <2>11, <4>2, <4>3, Zenon DEF WritesTo
    <3> HIDE DEF written, more, ended
    <3>3. job' = DumpAt(d, size, put, i2, left2, more, last2, "rows")
      BY <3>1, <3>2 DEF DumpAt, Putc
    <3>4. put \in Nat /\ put <= size
      BY <1>3, <2>3, <2>6, <2>13 DEF ended, left
    <3> HIDE DEF put
    <3>5. DumpOk(d, size, put, i2, left2, more, last2, "rows")
      BY <1>3, <2>7, <2>8, <2>9, <3>4 DEF DumpOk
    <3> QED BY <3>3, <3>5, Zenon DEF DumpHolds
  <2> QED BY <2>12, <2>13
<1> QED BY <1>4, <1>5
LEMMA DumpRead == ASSUME DumpHolds(job), SeqRead PROVE DumpHolds(job')
<1>1. PICK d, size, count, i, remaining, rows, last, pc :
        DumpOk(d, size, count, i, remaining, rows, last, pc) /\ job = DumpAt(d, size, count, i, remaining, rows, last, pc)
  BY Zenon DEF DumpHolds
<1>2. pc = "returned" /\ job.d = d /\ job.size = size /\ (Overflowed(job) <=> count = size)
  BY <1>1 DEF DumpAt, SeqRead, Overflowed
<1>3. d \in Dump /\ size \in Nat
  BY <1>1, Zenon DEF DumpOk
<1>4. CASE count = size
  <2> DEFINE d2 == [d EXCEPT !.size = 2 * size]
  <2>1. job' = DumpStart(d2)
    BY <1>2, <1>4, Zenon DEF SeqRead
  <2>2. d2 \in Dump
    BY <1>3 DEF Dump
  <2> HIDE DEF d2
  <2> QED BY <2>1, <2>2, DumpStarts, Zenon
<1>5. CASE count # size
  <2>1. job' = [job EXCEPT !.pc = "shown"]
    BY <1>2, <1>5, Zenon DEF SeqRead
  <2>2. job' = DumpAt(d, size, count, i, remaining, rows, last, "shown")
    BY <1>1, <2>1 DEF DumpAt
  <2>3. RowsUpto(d, i, remaining, rows, "shown")
    BY <1>1, <1>2, <1>5 DEF DumpOk, RowsUpto
  <2>4. DumpOk(d, size, count, i, remaining, rows, last, "shown")
    BY <1>1, <1>5, <2>3 DEF DumpOk
  <2> QED BY <2>2, <2>4, Zenon DEF DumpHolds
<1> QED BY <1>4, <1>5
-----------------------------------------------------------------------------
(* A text: its first characters, and a copy that ends within its buffer.   *)
Copied(copy, s, n) ==
    /\ Len(copy.dest) <= n /\ (n > 0 => Last(copy.dest) = "NUL")
    /\ IsPrefix(SubSeq(copy.dest, 1, Len(copy.dest) - 1), s)
    /\ copy.ret >= 0 <=> Front(Append(s, "NUL")) = SubSeq(copy.dest, 1, Len(copy.dest) - 1) /\ n > 0
LEMMA SubSeqOf ==
    ASSUME NEW V, NEW s \in Seq(V), NEW m \in Nat, m <= Len(s)
    PROVE  SubSeq(s, 1, m) \in Seq(V) /\ Len(SubSeq(s, 1, m)) = m /\ \A i \in 1 .. m : SubSeq(s, 1, m)[i] = s[i]
  OBVIOUS
LEMMA AppendFront ==
    ASSUME NEW V, NEW s \in Seq(V), NEW x \in V
    PROVE  /\ Append(s, x) \in Seq(V) /\ Len(Append(s, x)) = Len(s) + 1 /\ Last(Append(s, x)) = x
           /\ SubSeq(Append(s, x), 1, Len(s)) = s /\ Front(Append(s, x)) = s
<1> DEFINE t == Append(s, x)
           l == Len(s)
<1>1. t \in Seq(V) /\ Len(t) = l + 1 /\ t[l + 1] = x /\ l \in Nat /\ \A i \in 1 .. l : t[i] = s[i]
  OBVIOUS
<1> HIDE DEF t
<1>2. Last(t) = x
  BY <1>1 DEF Last
<1>3. SubSeq(t, 1, l) \in Seq(V) /\ Len(SubSeq(t, 1, l)) = l /\ \A i \in 1 .. l : SubSeq(t, 1, l)[i] = t[i]
  <2> HIDE DEF l
  <2>1. l <= Len(t)
    BY <1>1
  <2> QED BY <1>1, <2>1, SubSeqOf
<1>4. SubSeq(t, 1, l) = s
  <2> DEFINE u == SubSeq(t, 1, l)
  <2> HIDE DEF u
  <2>1. u \in Seq(V) /\ Len(u) = l /\ \A i \in 1 .. l : u[i] = s[i]
    BY <1>1, <1>3 DEF u
  <2>2. u = s
    BY <2>1
  <2> QED BY <2>2 DEF u
<1>5. Front(t) = s
  <2>1. Len(t) - 1 = l
    BY <1>1
  <2> QED BY <1>4, <2>1, Zenon DEF Front
<1> QED BY <1>1, <1>2, <1>4, <1>5 DEF t
LEMMA StrscpyHolds == ASSUME NEW V, NEW s \in Seq(V), "NUL" \in V, NEW n \in Nat PROVE Copied(strscpy(s, n), s, n)
<1> DEFINE nul == "NUL"
           l == Len(s)
<1>1. l \in Nat /\ nul \in V
  OBVIOUS
<1> HIDE DEF nul
<1>2. Append(s, nul) \in Seq(V) /\ Len(Append(s, nul)) = l + 1 /\ Last(Append(s, nul)) = nul
      /\ SubSeq(Append(s, nul), 1, l) = s /\ Front(Append(s, nul)) = s
  BY <1>1, AppendFront
<1>3. \A m \in 0 .. l : IsPrefix(SubSeq(s, 1, m), s)
  BY SubSeqOf DEF IsPrefix
<1> DEFINE c == strscpy(s, n)
           d == c.dest
           k == Len(d) - 1
           p == SubSeq(d, 1, k)
           f == Front(Append(s, nul))
<1>7. ASSUME Len(d) <= n, n > 0 => Last(d) = nul, IsPrefix(p, s), c.ret >= 0 <=> (f = p /\ n > 0) PROVE Copied(c, s, n)
  BY <1>7, Zenon DEF Copied, nul
<1> HIDE DEF f
<1>8. f = s
  BY <1>2 DEF f
<1>4. CASE n = 0
  <2> DEFINE none == <<>>
  <2>1. c.ret = -7 /\ d = none
    BY <1>1, <1>4 DEF strscpy, E2BIG
  <2>2. Len(none) = 0 /\ SubSeq(none, 1, -1) = none /\ IsPrefix(none, s)
    <3>1. SubSeq(s, 1, 0) = none
      OBVIOUS
    <3>2. 0 \in 0 .. l
      BY <1>1
    <3>3. IsPrefix(none, s)
      BY <1>3, <3>1, <3>2
    <3>4. Len(none) = 0 /\ SubSeq(none, 1, -1) = none
      OBVIOUS
    <3> QED BY <3>3, <3>4
  <2> HIDE DEF c, none, d
  <2>3. k = -1 /\ Len(d) <= n
    BY <1>4, <2>1, <2>2
  <2>4. p = none
    BY <2>1, <2>2, <2>3
  <2>5. ~(c.ret >= 0) /\ ~(n > 0)
    BY <1>4, <2>1
  <2> HIDE DEF p
  <2>20. (c.ret >= 0) <=> (f = p /\ n > 0)
    BY <2>2, <2>3, <2>4, <2>5, <1>8, <1>4
  <2>21. n > 0 => Last(d) = nul
    BY <2>2, <2>3, <2>4, <2>5, <1>4
  <2>22. Len(d) <= n /\ IsPrefix(p, s)
    BY <2>2, <2>3, <2>4, <2>5
  <2> HIDE DEF f, c
  <2>23. Copied(c, s, n)
    BY <1>7, <2>20, <2>21, <2>22
  <2> QED BY <2>23 DEF c
<1>5. CASE n > 0 /\ l < n
  <2>1. c.ret = l /\ d = Append(s, nul)
    BY <1>1, <1>5 DEF strscpy, nul
  <2>2. IsPrefix(s, s)
    BY DEF IsPrefix
  <2> HIDE DEF c, l, d
  <2>3. k = l /\ Len(d) <= n
    BY <1>1, <1>2, <1>5, <2>1
  <2>4. p = s
    BY <1>2, <2>1, <2>3
  <2>5. c.ret >= 0
    BY <1>1, <2>1
  <2>6. Last(d) = nul
    BY <1>2, <2>1
  <2> HIDE DEF p
  <2>20. (c.ret >= 0) <=> (f = p /\ n > 0)
    BY <1>5, <1>8, <2>2, <2>3, <2>4, <2>5, <2>6, <1>8, <1>5
  <2>21. n > 0 => Last(d) = nul
    BY <1>5, <1>8, <2>2, <2>3, <2>4, <2>5, <2>6, <1>5
  <2>22. Len(d) <= n /\ IsPrefix(p, s)
    BY <1>5, <1>8, <2>2, <2>3, <2>4, <2>5, <2>6
  <2> HIDE DEF f, c
  <2>23. Copied(c, s, n)
    BY <1>7, <2>20, <2>21, <2>22
  <2> QED BY <2>23 DEF c
<1>6. CASE n > 0 /\ l >= n
  <2> DEFINE m == n - 1
             t == SubSeq(s, 1, m)
  <2>1. c.ret = -7 /\ d = Append(t, nul)
    BY <1>1, <1>6 DEF strscpy, E2BIG, nul
  <2>2. m \in 0 .. l /\ m < l /\ m \in Nat
    BY <1>1, <1>6
  <2>3. t \in Seq(V) /\ Len(t) = m /\ IsPrefix(t, s)
    BY <1>3, <2>2, SubSeqOf
  <2> HIDE DEF t, c, d
  <2>4. Len(Append(t, nul)) = m + 1 /\ Last(Append(t, nul)) = nul /\ SubSeq(Append(t, nul), 1, Len(t)) = t
    BY <1>1, <2>3, AppendFront
  <2>5. t # s
    BY <2>2, <2>3
  <2>6. k = m /\ Len(d) <= n
    BY <2>1, <2>2, <2>4
  <2>7. p = t
    BY <2>1, <2>3, <2>4, <2>6
  <2>8. ~(c.ret >= 0)
    BY <2>1
  <2>9. Last(d) = nul
    BY <2>1, <2>4
  <2> HIDE DEF p, k
  <2>20. (c.ret >= 0) <=> (f = p /\ n > 0)
    BY <1>8, <2>3, <2>5, <2>6, <2>7, <2>8, <2>9, <1>8, <1>6
  <2>21. n > 0 => Last(d) = nul
    BY <1>8, <2>3, <2>5, <2>6, <2>7, <2>8, <2>9, <1>6
  <2>22. Len(d) <= n /\ IsPrefix(p, s)
    BY <1>8, <2>3, <2>5, <2>6, <2>7, <2>8, <2>9
  <2> HIDE DEF f, c
  <2>23. Copied(c, s, n)
    BY <1>7, <2>20, <2>21, <2>22
  <2> QED BY <2>23 DEF c
<1> QED BY <1>1, <1>4, <1>5, <1>6
TextDone(j) ==
    j.flags[2] \in {j.flags[1], "EFAULT"} /\ j.flags[3] \in {j.flags[1], "EINVAL"} /\ Copied(j.copy, j.s, j.n)
TextHolds(j) ==
    \/ \E s \in Seq(STRING), n \in Nat : j = TextStart(s, n)
    \/ j.job = "text" /\ j.pc # "start" /\ (j.pc = "done" => TextDone(j))
LEMMA FlagHolds ==
    ASSUME NEW s \in Seq(STRING), s # NoText, NEW fault
    PROVE  kstrtobool_from_user(s, Len(s), fault) \in {kstrtobool(s), "EFAULT"} /\ strtobool(s) \in {kstrtobool(s), "EINVAL"}
<1>1. strtobool(s) \in {kstrtobool(s), "EINVAL"}
  <2>1. CASE Char(s, 1) \in Yes \/ Char(s, 1) \in No
    BY <2>1 DEF strtobool, kstrtobool, Yes, No
  <2>2. CASE ~(Char(s, 1) \in Yes \/ Char(s, 1) \in No)
    BY <2>2 DEF strtobool
  <2> QED BY <2>1, <2>2
<1> DEFINE l == Len(s)
           m == Lesser(l, BoolBuf - 1)
           p == SubSeq(s, 1, m)
<1>2. l \in Nat /\ m \in Nat /\ m <= l /\ (m = l \/ (m = 3 /\ l > 3))
  <2>1. l \in Nat
    OBVIOUS
  <2> HIDE DEF l
  <2> QED BY <2>1 DEF Lesser, BoolBuf
<1>3. p \in Seq(STRING) /\ Len(p) = m /\ \A i \in 1 .. m : p[i] = s[i]
  BY <1>2, SubSeqOf
<1> HIDE DEF p, m
<1>4. Char(p, 1) = Char(s, 1) /\ Char(p, 2) = Char(s, 2)
  <2>1. CASE m = l
    BY <1>2, <1>3, <2>1 DEF Char
  <2>2. CASE m = 3 /\ l > 3
    <3>1. 1 \in 1 .. m /\ 2 \in 1 .. m
      BY <2>2
    <3> QED BY <1>2, <1>3, <2>2, <3>1 DEF Char
  <2> QED BY <1>2, <2>1, <2>2
<1>5. p # NoText
  <2>1. CASE m = l
    <3>1. p = s
      BY <1>2, <1>3, <2>1
    <3> QED BY <3>1
  <2>2. CASE m = 3
    BY <1>3, <2>2 DEF NoText
  <2> QED BY <1>2, <2>1, <2>2
<1>6. kstrtobool(p) = kstrtobool(s)
  BY <1>4, <1>5 DEF kstrtobool
<1>7. kstrtobool_from_user(s, Len(s), fault) = IF fault THEN "EFAULT" ELSE kstrtobool(p)
  BY Zenon DEF kstrtobool_from_user, p, m, l
<1> QED BY <1>1, <1>6, <1>7
LEMMA TextGoes == ASSUME TextHolds(job), NEW fault, UseText(fault) PROVE TextHolds(job')
<1>1. job.pc = "start"
  BY DEF UseText
<1>2. PICK s \in Seq(STRING), n \in Nat : job = TextStart(s, n)
  BY <1>1, Zenon DEF TextHolds
<1>3. job = [job |-> "text", s |-> s, n |-> n, pc |-> "start", flags |-> <<>>, copy |-> <<>>]
  BY <1>2, Zenon DEF TextStart
<1>4. job.s = s /\ job.n = n
  BY <1>3
<1>5. CASE s = NoText
  <2> DEFINE flags == <<kstrtobool(s)>>
  <2>1. job' = [job EXCEPT !.pc = "null", !.flags = flags]
    BY <1>4, <1>5, Zenon DEF UseText
  <2> HIDE DEF flags
  <2>2. job'.job = "text" /\ job'.pc = "null"
    BY <1>3, <2>1
  <2> QED BY <2>2 DEF TextHolds
<1>6. CASE s # NoText
  <2> DEFINE flags == <<kstrtobool(s), kstrtobool_from_user(s, Len(s), fault), strtobool(s)>>
             copy == strscpy(s, n)
  <2>1. job' = [job EXCEPT !.pc = "done", !.copy = copy, !.flags = flags]
    BY <1>4, <1>6, Zenon DEF UseText
  <2>2. Copied(copy, s, n)
    <3> DEFINE V == STRING \cup {"NUL"}
    <3>1. "NUL" \in V /\ s \in Seq(V)
      OBVIOUS
    <3> HIDE DEF V, copy
    <3>2. Copied(strscpy(s, n), s, n)
      BY <3>1, StrscpyHolds
    <3> QED BY <3>2 DEF copy
  <2>3. flags[1] = kstrtobool(s) /\ flags[2] = kstrtobool_from_user(s, Len(s), fault) /\ flags[3] = strtobool(s)
    OBVIOUS
  <2>4. flags[2] \in {flags[1], "EFAULT"} /\ flags[3] \in {flags[1], "EINVAL"}
    <3> HIDE DEF flags
    <3> QED BY <1>6, <2>3, FlagHolds
  <2> HIDE DEF flags, copy
  <2>5. job'.job = "text" /\ job'.pc = "done" /\ job'.s = s /\ job'.n = n /\ job'.flags = flags /\ job'.copy = copy
    BY <1>3, <2>1
  <2>6. TextDone(job')
    BY <2>2, <2>4, <2>5, Zenon DEF TextDone
  <2> QED BY <2>5, <2>6, Zenon DEF TextHolds
<1> QED BY <1>5, <1>6
-----------------------------------------------------------------------------
(* A frame: each of its layers, case by case.                              *)
Frame == [vlan : BOOLEAN, proto : {"ip", "ipv6", "fcoe", "arp"}, ihl : Nat, frag : BOOLEAN, l4 : {"tcp", "udp", "icmp"}, doff : Nat, max_len : Nat]
FrameFound(f, ret) ==
    (f.max_len >= L3["ipv6"] => ret <= f.max_len) /\ (WellFormed(f) => ret = Lesser(TrueHeaders(f), f.max_len))
FrameHolds(j) ==
    /\ j.job = "frame" /\ j.f \in Frame /\ DOMAIN j = {"job", "f", "pc", "ret"}
    /\ j.pc \in {"start", "done"} /\ (j.pc = "done" => FrameFound(j.f, j.ret))
LEMMA LayerIs == /\ L3["ip"] = 20 /\ L3["ipv6"] = 40 /\ L3["fcoe"] = 38 /\ DOMAIN L3 = {"ip", "ipv6", "fcoe"}
                 /\ L4["tcp"] = 20 /\ L4["udp"] = 8 /\ DOMAIN L4 = {"tcp", "udp"}
  BY DEF L3, L4
LEMMA HeadlenHolds == ASSUME NEW f \in Frame PROVE FrameFound(f, eth_get_headlen(f))
<1>1. /\ f.vlan \in BOOLEAN /\ f.proto \in {"ip", "ipv6", "fcoe", "arp"} /\ f.ihl \in Nat /\ f.frag \in BOOLEAN
      /\ f.l4 \in {"tcp", "udp", "icmp"} /\ f.doff \in Nat /\ f.max_len \in Nat
  BY DEF Frame
<1>2. CASE f.proto = "arp"
  BY <1>1, <1>2, LayerIs DEF FrameFound, eth_get_headlen, TrueHeaders, WellFormed, Lesser, Beyond, ETH, VLAN
<1>3. CASE f.proto = "fcoe"
  BY <1>1, <1>3, LayerIs DEF FrameFound, eth_get_headlen, TrueHeaders, WellFormed, Lesser, Beyond, ETH, VLAN
<1>4. CASE f.proto = "ipv6"
  BY <1>1, <1>4, LayerIs DEF FrameFound, eth_get_headlen, TrueHeaders, WellFormed, Lesser, Beyond, ETH, VLAN
<1>5. CASE f.proto = "ip"
  BY <1>1, <1>5, LayerIs DEF FrameFound, eth_get_headlen, TrueHeaders, WellFormed, Lesser, Beyond, ETH, VLAN
<1> QED BY <1>1, <1>2, <1>3, <1>4, <1>5
LEMMA FrameGoes == ASSUME FrameHolds(job), GetHeadlen PROVE FrameHolds(job')
<1> DEFINE ret == eth_get_headlen(job.f)
<1>1. job' = [job EXCEPT !.pc = "done", !.ret = ret] /\ job.f \in Frame
  BY Zenon DEF GetHeadlen, FrameHolds
<1>2. FrameFound(job.f, ret)
  BY <1>1, HeadlenHolds, Zenon
<1> HIDE DEF ret
<1>3. DOMAIN job = {"job", "f", "pc", "ret"} /\ job.job = "frame"
  BY DEF FrameHolds
<1>4. DOMAIN job' = DOMAIN job /\ job'.job = "frame" /\ job'.f = job.f /\ job'.pc = "done" /\ job'.ret = ret
  BY <1>1, <1>3
<1> QED BY <1>1, <1>2, <1>3, <1>4 DEF FrameHolds
-----------------------------------------------------------------------------
(* A MAC address: no property before the one looked at has one.            *)
PropertyStates == {"missing", "empty", "short", "invalid", "address"}
MacAt(props, alen, at, addr, ret, pc, res) ==
    [job |-> "mac", props |-> props, alen |-> alen, at |-> at, addr |-> addr, ret |-> ret, pc |-> pc, res |-> res]
MacOk(props, alen, at, addr, pc, res) ==
    /\ props \in [1 .. 3 -> PropertyStates] /\ at \in 1 .. 3
    /\ pc = "look" => ~res /\ (alen = ETH_ALEN => \A i \in 1 .. at - 1 : props[i] # "address")
    /\ pc # "look" =>
          /\ res <=> alen = ETH_ALEN /\ \E i \in 1 .. 3 : props[i] = "address"
          /\ res => addr[1] = "address" /\ \A i \in 1 .. addr[2] - 1 : props[i] # "address"
MacHolds(j) ==
    \E props, alen, at, addr, ret, pc, res : MacOk(props, alen, at, addr, pc, res) /\ j = MacAt(props, alen, at, addr, ret, pc, res)
LEMMA MacStarts == ASSUME NEW props \in [1 .. 3 -> PropertyStates], NEW alen PROVE MacHolds(MacStart(props, alen))
<1> DEFINE none == <<>>
<1>1. MacOk(props, alen, 1, none, "look", FALSE)
  BY DEF MacOk
<1>2. MacStart(props, alen) = MacAt(props, alen, 1, none, "0", "look", FALSE)
  BY DEF MacStart, MacAt
<1> QED BY <1>1, <1>2, Zenon DEF MacHolds
LEMMA MacGoes == ASSUME MacHolds(job), device_get_mac_address PROVE MacHolds(job')
<1>1. PICK props, alen, at, addr, ret, pc, res : MacOk(props, alen, at, addr, pc, res) /\ job = MacAt(props, alen, at, addr, ret, pc, res)
  BY Zenon DEF MacHolds
<1>2. job.pc = pc /\ job.props = props /\ job.at = at /\ job.alen = alen /\ pc = "look"
  BY <1>1 DEF MacAt, device_get_mac_address
<1>3. props \in [1 .. 3 -> PropertyStates] /\ at \in 1 .. 3 /\ ~res /\ (alen = ETH_ALEN => \A i \in 1 .. at - 1 : props[i] # "address")
  BY <1>1, <1>2 DEF MacOk
<1> DEFINE p == props[at]
           told == of_find_property_value_of_size(p)
           addr2 == IF told = "0" THEN <<p, at>> ELSE addr
           res2 == told = "0" /\ alen = ETH_ALEN /\ p = "address"
           z == MacAt(props, alen, at, addr2, told, "look", res2)
<1>4. p \in PropertyStates /\ (p = "address" => told = "0")
  BY <1>3 DEF PropertyStates, of_find_property_value_of_size
<1>5. device_get_mac_addr(job) = z
  <2> DEFINE read == of_property_read_u8_array(job)
             a == MacAt(props, alen, at, addr2, told, "look", res)
  <2>1. read = a
    BY <1>1, <1>2 DEF MacAt, of_property_read_u8_array
  <2>2. a.ret = told /\ a.alen = alen /\ a.addr = addr2
    BY DEF MacAt
  <2>3. (read.ret = "0" /\ read.alen = ETH_ALEN /\ read.addr[1] = "address") = res2
    <3> HIDE DEF told, p, read, a
    <3>1. told = "0" => addr2[1] = p
      OBVIOUS
    <3> QED BY <2>1, <2>2, <3>1
  <2>4. device_get_mac_addr(job) = [read EXCEPT !.res = res2]
    BY <2>3, Zenon DEF device_get_mac_addr
  <2> HIDE DEF read, res2
  <2> QED BY <2>1, <2>4 DEF MacAt
<1> HIDE DEF told, p
<1>6. z.res = res2 /\ z.at = at /\ Len(MacNames) = 3
  BY DEF MacAt, MacNames
<1>7. CASE res2 \/ at = 3
  <2>1. job' = [z EXCEPT !.pc = "done"]
    BY <1>5, <1>6, <1>7, Zenon DEF device_get_mac_address
  <2>2. job' = MacAt(props, alen, at, addr2, told, "done", res2)
    BY <2>1 DEF MacAt
  <2>3. res2 <=> alen = ETH_ALEN /\ \E i \in 1 .. 3 : props[i] = "address"
    BY <1>3, <1>4, <1>7 DEF p
  <2>4. res2 => addr2[1] = "address" /\ \A i \in 1 .. addr2[2] - 1 : props[i] # "address"
    <3>1. res2 => addr2[1] = p /\ addr2[2] = at
      OBVIOUS
    <3> QED BY <1>3, <3>1
  <2> HIDE DEF res2, addr2
  <2>5. MacOk(props, alen, at, addr2, "done", res2)
    BY <1>3, <2>3, <2>4 DEF MacOk
  <2> QED BY <2>2, <2>5, Zenon DEF MacHolds
<1>8. CASE ~(res2 \/ at = 3)
  <2> DEFINE on == at + 1
  <2>1. job' = [z EXCEPT !.at = @ + 1]
    BY <1>5, <1>6, <1>8, Zenon DEF device_get_mac_address
  <2>2. job' = MacAt(props, alen, on, addr2, told, "look", res2)
    <3>1. job' = [z EXCEPT !.at = on]
      BY <1>6, <2>1, Zenon
    <3> HIDE DEF on, addr2, res2
    <3> QED BY <3>1 DEF MacAt
  <2>3. on \in 1 .. 3 /\ (alen = ETH_ALEN => \A i \in 1 .. on - 1 : props[i] # "address")
    <3>1. alen = ETH_ALEN => p # "address"
      BY <1>4, <1>8
    <3> QED BY <1>3, <1>8, <3>1 DEF p
  <2>4. MacOk(props, alen, on, addr2, "look", res2)
    BY <1>3, <1>8, <2>3 DEF MacOk
  <2> QED BY <2>2, <2>4, Zenon DEF MacHolds
<1> QED BY <1>7, <1>8
LEMMA MacSent == ASSUME NEW j, MacHolds(j)
                 PROVE  j.pc = "done" =>
                           /\ j.res <=> j.alen = ETH_ALEN /\ \E i \in DOMAIN j.props : j.props[i] = "address"
                           /\ j.res => j.addr[1] = "address" /\ \A i \in 1 .. j.addr[2] - 1 : j.props[i] # "address"
<1>1. PICK props, alen, at, addr, ret, pc, res : MacOk(props, alen, at, addr, pc, res) /\ j = MacAt(props, alen, at, addr, ret, pc, res)
  BY Zenon DEF MacHolds
<1>2. j.pc = pc /\ j.props = props /\ j.alen = alen /\ j.res = res /\ j.addr = addr
  BY <1>1 DEF MacAt
<1>3. DOMAIN props = 1 .. 3
  BY <1>1 DEF MacOk
<1> QED BY <1>1, <1>2, <1>3, Zenon DEF MacOk
-----------------------------------------------------------------------------
(* Descriptors: the first and the last good one of a type so far.          *)
GoodAt(b, t, i) == i \in DOMAIN b /\ Known1(b[i]) /\ b[i].type = t /\ LongEnough(b[i])
FirstGood(b, t, at, x) ==
    \/ x = 0 /\ \A i \in Nat : GoodAt(b, t, i) => i >= at
    \/ GoodAt(b, t, x) /\ x < at /\ \A i \in Nat : GoodAt(b, t, i) /\ i < at => x <= i /\ (t \in OnlyOnce => i = x)
LastGood(b, t, at, x) ==
    \/ x = 0 /\ \A i \in Nat : GoodAt(b, t, i) => i >= at
    \/ GoodAt(b, t, x) /\ x < at /\ \A i \in Nat : GoodAt(b, t, i) /\ i < at => i <= x
LEMMA GoodSkips ==
    ASSUME NEW b, NEW t, NEW at \in Nat, ~GoodAt(b, t, at), NEW x \in Nat
    PROVE  (FirstGood(b, t, at, x) => FirstGood(b, t, at + 1, x)) /\ (LastGood(b, t, at, x) => LastGood(b, t, at + 1, x))
<1>1. FirstGood(b, t, at, x) => FirstGood(b, t, at + 1, x)
  BY DEF FirstGood
<1>2. LastGood(b, t, at, x) => LastGood(b, t, at + 1, x)
  BY DEF LastGood
<1> QED BY <1>1, <1>2
LEMMA FirstFound ==
    ASSUME NEW b, NEW t, NEW at \in Nat, GoodAt(b, t, at), FirstGood(b, t, at, 0), ~GoodAt(b, t, 0)
    PROVE  FirstGood(b, t, at + 1, at)
  BY DEF FirstGood
LEMMA FirstStays ==
    ASSUME NEW b, NEW t, NEW at \in Nat, NEW x \in Nat, x # 0, FirstGood(b, t, at, x), t \notin OnlyOnce
    PROVE  FirstGood(b, t, at + 1, x)
  BY DEF FirstGood
LEMMA LastFound ==
    ASSUME NEW b, NEW t, NEW at \in Nat, GoodAt(b, t, at)
    PROVE  LastGood(b, t, at + 1, at)
  BY DEF LastGood
Desc == [elength : Nat, cs : BOOLEAN, type : STRING]
CdcAt(b, at, found, cnt, pc, ret, hdr) ==
    [job |-> "cdc", buffer |-> b, at |-> at, found |-> found, cnt |-> cnt, pc |-> pc, ret |-> ret, hdr |-> hdr]
FoundUpto(b, at, found) == \A t \in DOMAIN Sizes : IF t \in AtTheEnd THEN FirstGood(b, t, at, found[t]) ELSE found[t] = 0
HdrUpto(b, at, hdr) == \A t \in DOMAIN Sizes : IF t \in AtTheEnd THEN hdr[t] = 0 ELSE LastGood(b, t, at, hdr[t])
CdcDone(b, ret, hdr) ==
    \A t \in DOMAIN Sizes :
        LET good == {i \in DOMAIN b : LET d == b[i] IN Known1(d) /\ d.type = t /\ LongEnough(d)}
        IN  IF ret < 0
            THEN hdr[t] \in {0} \cup IF t \in AtTheEnd THEN {} ELSE good
            ELSE /\ t \in OnlyOnce => Cardinality(good) <= 1
                 /\ hdr[t] \in IF good = {} THEN {0} ELSE good
                 /\ \A i \in good : IF t \in AtTheEnd THEN hdr[t] <= i ELSE hdr[t] >= i
CdcOk(b, at, found, cnt, pc, ret, hdr) ==
    /\ b \in Seq(Desc) /\ at \in Nat \ {0} /\ cnt \in Nat /\ found \in [DOMAIN Sizes -> Nat] /\ hdr \in [DOMAIN Sizes -> Nat]
    /\ pc \in {"loop", "done"}
    /\ pc = "loop" => FoundUpto(b, at, found) /\ HdrUpto(b, at, hdr)
    /\ pc = "done" => CdcDone(b, ret, hdr)
CdcHolds(j) ==
    \E b, at, found, cnt, pc, ret, hdr : CdcOk(b, at, found, cnt, pc, ret, hdr) /\ j = CdcAt(b, at, found, cnt, pc, ret, hdr)
LEMMA NoneAt0 == ASSUME NEW b \in Seq(Desc), NEW t PROVE ~GoodAt(b, t, 0)
  BY DEF GoodAt
LEMMA CdcStarts == ASSUME NEW b \in Seq(Desc) PROVE CdcHolds(CdcStart(b))
<1> DEFINE none == [t \in DOMAIN Sizes |-> 0]
<1>1. CdcStart(b) = CdcAt(b, 1, none, 0, "loop", 0, none)
  BY Zenon DEF CdcStart, CdcAt
<1>2. ASSUME NEW t \in DOMAIN Sizes PROVE FirstGood(b, t, 1, 0) /\ LastGood(b, t, 1, 0)
  <2>1. \A i \in Nat : GoodAt(b, t, i) => i >= 1
    BY DEF GoodAt
  <2> QED BY <2>1, Zenon DEF FirstGood, LastGood
<1>3. FoundUpto(b, 1, none) /\ HdrUpto(b, 1, none)
  BY <1>2, Zenon DEF FoundUpto, HdrUpto
<1>4. none \in [DOMAIN Sizes -> Nat]
  OBVIOUS
<1> HIDE DEF none
<1>5. CdcOk(b, 1, none, 0, "loop", 0, none)
  BY <1>3, <1>4 DEF CdcOk
<1> QED BY <1>1, <1>5, Zenon DEF CdcHolds
LEMMA NotGood == ASSUME NEW b, NEW at, NEW t, ~(Known1(b[at]) /\ LongEnough(b[at]) /\ b[at].type = t) PROVE ~GoodAt(b, t, at)
  BY Zenon DEF GoodAt
\* The descriptor is none of those looked for.
LEMMA CdcSkips ==
    ASSUME NEW b, NEW at \in Nat, NEW found \in [DOMAIN Sizes -> Nat], NEW hdr \in [DOMAIN Sizes -> Nat],
           FoundUpto(b, at, found), HdrUpto(b, at, hdr), ~(Known1(b[at]) /\ LongEnough(b[at]))
    PROVE  FoundUpto(b, at + 1, found) /\ HdrUpto(b, at + 1, hdr)
<1>1. ASSUME NEW t \in DOMAIN Sizes
      PROVE  /\ IF t \in AtTheEnd THEN FirstGood(b, t, at + 1, found[t]) ELSE found[t] = 0
             /\ IF t \in AtTheEnd THEN hdr[t] = 0 ELSE LastGood(b, t, at + 1, hdr[t])
  <2>1. ~GoodAt(b, t, at)
    BY NotGood, Zenon
  <2>2. found[t] \in Nat /\ hdr[t] \in Nat
    OBVIOUS
  <2>3. (FirstGood(b, t, at, found[t]) => FirstGood(b, t, at + 1, found[t])) /\ (LastGood(b, t, at, hdr[t]) => LastGood(b, t, at + 1, hdr[t]))
    BY <2>1, <2>2, GoodSkips
  <2> QED BY <2>3, Zenon DEF FoundUpto, HdrUpto
<1> QED BY <1>1, Zenon DEF FoundUpto, HdrUpto
\* It is the first of its type that is stored behind the loop, or any other.
LEMMA CdcTakes ==
    ASSUME NEW b \in Seq(Desc), NEW at \in Nat, NEW found \in [DOMAIN Sizes -> Nat], NEW hdr \in [DOMAIN Sizes -> Nat], at \in DOMAIN b,
           FoundUpto(b, at, found), HdrUpto(b, at, hdr), NEW t0, t0 = b[at].type, Known1(b[at]), LongEnough(b[at])
    PROVE  /\ t0 \in AtTheEnd /\ found[t0] = 0 => FoundUpto(b, at + 1, [found EXCEPT ![t0] = at]) /\ HdrUpto(b, at + 1, hdr)
           /\ t0 \notin AtTheEnd => FoundUpto(b, at + 1, found) /\ HdrUpto(b, at + 1, [hdr EXCEPT ![t0] = at])
           /\ t0 \in AtTheEnd /\ found[t0] # 0 /\ t0 \notin OnlyOnce => FoundUpto(b, at + 1, found) /\ HdrUpto(b, at + 1, hdr)
<1>1. GoodAt(b, t0, at)
  BY Zenon DEF GoodAt
<1>2. ~GoodAt(b, t0, 0)
  BY NoneAt0
<1>3. ASSUME NEW t \in DOMAIN Sizes, t # t0
      PROVE  /\ IF t \in AtTheEnd THEN FirstGood(b, t, at + 1, found[t]) ELSE found[t] = 0
             /\ IF t \in AtTheEnd THEN hdr[t] = 0 ELSE LastGood(b, t, at + 1, hdr[t])
  <2>1. ~GoodAt(b, t, at)
    BY <1>3, NotGood, Zenon
  <2>2. found[t] \in Nat /\ hdr[t] \in Nat
    OBVIOUS
  <2>3. (FirstGood(b, t, at, found[t]) => FirstGood(b, t, at + 1, found[t])) /\ (LastGood(b, t, at, hdr[t]) => LastGood(b, t, at + 1, hdr[t]))
    BY <2>1, <2>2, GoodSkips
  <2> QED BY <2>3, Zenon DEF FoundUpto, HdrUpto
<1> DEFINE f2 == [found EXCEPT ![t0] = at]
           h2 == [hdr EXCEPT ![t0] = at]
<1>4. t0 \in DOMAIN Sizes
  BY Zenon DEF Known1
<1>5. f2[t0] = at /\ h2[t0] = at /\ \A t \in DOMAIN Sizes : t # t0 => f2[t] = found[t] /\ h2[t] = hdr[t]
  BY <1>4
<1> HIDE DEF f2, h2
<1>6. found[t0] \in Nat
  BY <1>4
<1>7. ASSUME t0 \in AtTheEnd
      PROVE  /\ hdr[t0] = 0
             /\ found[t0] = 0 => FirstGood(b, t0, at + 1, f2[t0])
             /\ found[t0] # 0 /\ t0 \notin OnlyOnce => FirstGood(b, t0, at + 1, found[t0])
  <2>1. hdr[t0] = 0 /\ FirstGood(b, t0, at, found[t0])
    BY <1>4, <1>7, Zenon DEF HdrUpto, FoundUpto
  <2>2. found[t0] = 0 => FirstGood(b, t0, at + 1, at)
    BY <1>1, <1>2, <2>1, FirstFound
  <2>3. found[t0] # 0 /\ t0 \notin OnlyOnce => FirstGood(b, t0, at + 1, found[t0])
    <3> DEFINE x == found[t0]
    <3>1. x \in Nat /\ FirstGood(b, t0, at, x)
      BY <1>6, <2>1
    <3> HIDE DEF x
    <3>2. x # 0 /\ t0 \notin OnlyOnce => FirstGood(b, t0, at + 1, x)
      BY <3>1, FirstStays
    <3> QED BY <3>2 DEF x
  <2> QED BY <1>5, <2>1, <2>2, <2>3, Zenon
<1>8. ASSUME t0 \notin AtTheEnd PROVE found[t0] = 0 /\ LastGood(b, t0, at + 1, h2[t0])
  <2>1. found[t0] = 0
    BY <1>4, <1>8, Zenon DEF FoundUpto
  <2>2. LastGood(b, t0, at + 1, at)
    BY <1>1, LastFound
  <2> QED BY <1>5, <2>1, <2>2, Zenon
<1>9. ASSUME t0 \in AtTheEnd, found[t0] = 0 PROVE FoundUpto(b, at + 1, f2) /\ HdrUpto(b, at + 1, hdr)
  BY <1>3, <1>5, <1>7, <1>9, Zenon DEF FoundUpto, HdrUpto
<1>10. ASSUME t0 \notin AtTheEnd PROVE FoundUpto(b, at + 1, found) /\ HdrUpto(b, at + 1, h2)
  BY <1>3, <1>5, <1>8, <1>10, Zenon DEF FoundUpto, HdrUpto
<1>11. ASSUME t0 \in AtTheEnd, found[t0] # 0, t0 \notin OnlyOnce PROVE FoundUpto(b, at + 1, found) /\ HdrUpto(b, at + 1, hdr)
  BY <1>3, <1>7, <1>11, Zenon DEF FoundUpto, HdrUpto
<1> QED BY <1>9, <1>10, <1>11, Zenon DEF f2, h2
\* The records of a step.
CdcChanged(n, b, at, found, cnt, pc, ret, hdr) == n = CdcAt(b, at, found, cnt, pc, ret, hdr)
LEMMA SkipIs ==
    ASSUME NEW b, NEW at \in Nat, NEW found, NEW cnt, NEW pc, NEW ret, NEW hdr
    PROVE  CdcChanged(Skip(CdcAt(b, at, found, cnt, pc, ret, hdr)), b, at + 1, found, cnt, pc, ret, hdr)
  BY DEF CdcChanged, Skip, CdcAt
Counted1(z) == [z EXCEPT !.cnt = @ + 1]
LEMMA CountedIs ==
    ASSUME NEW b, NEW at, NEW found, NEW cnt \in Nat, NEW pc, NEW ret, NEW hdr
    PROVE  CdcChanged(Counted1(CdcAt(b, at, found, cnt, pc, ret, hdr)), b, at, found, cnt + 1, pc, ret, hdr)
  BY DEF CdcChanged, Counted1, CdcAt
FoundSet(z, t, x) == [z EXCEPT !.found[t] = x]
LEMMA FoundSetIs ==
    ASSUME NEW b, NEW at, NEW found, NEW cnt, NEW pc, NEW ret, NEW hdr, NEW t, NEW x
    PROVE  CdcChanged(FoundSet(CdcAt(b, at, found, cnt, pc, ret, hdr), t, x), b, at, [found EXCEPT ![t] = x], cnt, pc, ret, hdr)
  BY DEF CdcChanged, FoundSet, CdcAt
HdrSet(z, t, x) == [z EXCEPT !.hdr[t] = x]
LEMMA HdrSetIs ==
    ASSUME NEW b, NEW at, NEW found, NEW cnt, NEW pc, NEW ret, NEW hdr, NEW t, NEW x
    PROVE  CdcChanged(HdrSet(CdcAt(b, at, found, cnt, pc, ret, hdr), t, x), b, at, found, cnt, pc, ret, [hdr EXCEPT ![t] = x])
  BY DEF CdcChanged, HdrSet, CdcAt
LEMMA TakeIs == ASSUME NEW z, NEW d PROVE Take(z, d) = IF d.type \in AtTheEnd THEN Counted1(FoundSet(Skip(z), d.type, z.at))
                                                       ELSE Counted1(HdrSet(Skip(z), d.type, z.at))
<1> DEFINE s == Skip(z)
           x == z.at
<1> HIDE DEF s, x
<1>1. [s EXCEPT !.found[d.type] = x, !.cnt = @ + 1] = Counted1(FoundSet(s, d.type, x))
  BY DEF Counted1, FoundSet
<1>2. [s EXCEPT !.hdr[d.type] = x, !.cnt = @ + 1] = Counted1(HdrSet(s, d.type, x))
  BY DEF Counted1, HdrSet
<1> QED BY <1>1, <1>2, Zenon DEF Take, s, x
LEMMA CdcGoes == ASSUME CdcHolds(job), cdc_parse_descriptor PROVE CdcHolds(job')
<1>1. PICK b, at, found, cnt, pc, ret, hdr : CdcOk(b, at, found, cnt, pc, ret, hdr) /\ job = CdcAt(b, at, found, cnt, pc, ret, hdr)
  BY Zenon DEF CdcHolds
<1>2. job.pc = pc /\ job.at = at /\ job.buffer = b /\ job.found = found /\ pc = "loop" /\ at <= Len(b)
  BY <1>1 DEF CdcAt, cdc_parse_descriptor
<1>3. b \in Seq(Desc) /\ at \in Nat \ {0} /\ at \in Nat /\ cnt \in Nat /\ found \in [DOMAIN Sizes -> Nat] /\ hdr \in [DOMAIN Sizes -> Nat]
      /\ FoundUpto(b, at, found) /\ HdrUpto(b, at, hdr) /\ at \in DOMAIN b
  BY <1>1, <1>2 DEF CdcOk
<1> DEFINE d == b[at]
           t == d.type
           on == at + 1
           more == cnt + 1
           f2 == [found EXCEPT ![t] = at]
           h2 == [hdr EXCEPT ![t] = at]
           s == CdcAt(b, on, found, cnt, "loop", ret, hdr)
<1>4. Skip(job) = s
  <2>1. CdcChanged(Skip(CdcAt(b, at, found, cnt, pc, ret, hdr)), b, at + 1, found, cnt, pc, ret, hdr)
    BY <1>3, SkipIs, Zenon
  <2> QED BY <1>1, <1>2, <2>1, Zenon DEF CdcChanged
<1>5. on \in Nat \ {0} /\ more \in Nat
  BY <1>3
<1>6. t \in DOMAIN Sizes => f2 \in [DOMAIN Sizes -> Nat] /\ h2 \in [DOMAIN Sizes -> Nat]
  <2>1. at \in Nat
    BY <1>3
  <2> HIDE DEF d
  <2> QED BY <1>3, <2>1
<1>7. ASSUME NEW f \in [DOMAIN Sizes -> Nat], NEW h \in [DOMAIN Sizes -> Nat], NEW c \in Nat, FoundUpto(b, on, f), HdrUpto(b, on, h),
             job' = CdcAt(b, on, f, c, "loop", ret, h)
      PROVE  CdcHolds(job')
  <2> HIDE DEF on
  <2>1. CdcOk(b, on, f, c, "loop", ret, h)
    BY <1>3, <1>5, <1>7 DEF CdcOk
  <2> QED BY <1>7, <2>1, Zenon DEF CdcHolds
<1>8. job' = IF ~Known1(d) THEN s
             ELSE IF ~LongEnough(d)
             THEN IF t = "mbim_ext" THEN Counted1(s) ELSE s
             ELSE IF found[t] = 0 THEN Take(job, d)
             ELSE IF t \in FirstOfMany THEN s
             ELSE [job EXCEPT !.pc = "done", !.ret = -1]
  BY <1>2, <1>4 DEF cdc_parse_descriptor, Counted1
<1>9. Counted1(s) = CdcAt(b, on, found, more, "loop", ret, hdr)
  <2> HIDE DEF on, d, t
  <2>1. CdcChanged(Counted1(CdcAt(b, on, found, cnt, "loop", ret, hdr)), b, on, found, cnt + 1, "loop", ret, hdr)
    BY <1>3, CountedIs, Zenon
  <2> QED BY <2>1, Zenon DEF CdcChanged
<1> HIDE DEF s
<1>10. CASE ~Known1(d) \/ ~LongEnough(d)
  <2>1. FoundUpto(b, on, found) /\ HdrUpto(b, on, hdr)
    BY <1>3, <1>10, CdcSkips, Zenon
  <2>2. CASE job' = s
    BY <1>3, <1>7, <2>1, <2>2, Zenon DEF s
  <2>3. CASE job' = Counted1(s)
    BY <1>3, <1>5, <1>7, <1>9, <2>1, <2>3, Zenon
  <2> HIDE DEF d, t
  <2>4. job' = s \/ job' = Counted1(s)
    BY <1>8, <1>10, Zenon
  <2> QED BY <2>2, <2>3, <2>4, Zenon
<1>11. CASE Known1(d) /\ LongEnough(d)
  <2>1. t \in DOMAIN Sizes
    BY <1>11, Zenon DEF Known1
  <2>2. /\ t \in AtTheEnd /\ found[t] = 0 => FoundUpto(b, on, f2) /\ HdrUpto(b, on, hdr)
        /\ t \notin AtTheEnd => FoundUpto(b, on, found) /\ HdrUpto(b, on, h2)
        /\ t \in AtTheEnd /\ found[t] # 0 /\ t \notin OnlyOnce => FoundUpto(b, on, found) /\ HdrUpto(b, on, hdr)
    BY <1>3, <1>11, CdcTakes
  <2>3. f2 \in [DOMAIN Sizes -> Nat] /\ h2 \in [DOMAIN Sizes -> Nat]
    BY <1>6, <2>1
  <2>4. t \notin AtTheEnd => found[t] = 0
    BY <1>3, <2>1, Zenon DEF FoundUpto
  <2> HIDE DEF f2, h2, d, t, on
  <2>5. CASE found[t] = 0 /\ t \in AtTheEnd
    <3>1. job' = Counted1(FoundSet(s, t, at))
      BY <1>2, <1>4, <1>8, <1>11, <2>5, TakeIs, Zenon DEF t
    <3>2. FoundSet(s, t, at) = CdcAt(b, on, f2, cnt, "loop", ret, hdr)
      <4>1. CdcChanged(FoundSet(CdcAt(b, on, found, cnt, "loop", ret, hdr), t, at), b, on, [found EXCEPT ![t] = at], cnt, "loop", ret, hdr)
        BY FoundSetIs, Zenon
      <4> QED BY <4>1, Zenon DEF CdcChanged, s, f2
    <3>3. CdcChanged(Counted1(CdcAt(b, on, f2, cnt, "loop", ret, hdr)), b, on, f2, cnt + 1, "loop", ret, hdr)
      BY <1>3, CountedIs, Zenon
    <3>4. job' = CdcAt(b, on, f2, more, "loop", ret, hdr)
      BY <3>1, <3>2, <3>3, Zenon DEF CdcChanged
    <3> QED BY <1>3, <1>5, <1>7, <2>2, <2>3, <2>5, <3>4, Zenon
  <2>6. CASE found[t] = 0 /\ t \notin AtTheEnd
    <3>1. job' = Counted1(HdrSet(s, t, at))
      BY <1>2, <1>4, <1>8, <1>11, <2>6, TakeIs, Zenon DEF t
    <3>2. HdrSet(s, t, at) = CdcAt(b, on, found, cnt, "loop", ret, h2)
      <4>1. CdcChanged(HdrSet(CdcAt(b, on, found, cnt, "loop", ret, hdr), t, at), b, on, found, cnt, "loop", ret, [hdr EXCEPT ![t] = at])
        BY HdrSetIs, Zenon
      <4> QED BY <4>1, Zenon DEF CdcChanged, s, h2
    <3>3. CdcChanged(Counted1(CdcAt(b, on, found, cnt, "loop", ret, h2)), b, on, found, cnt + 1, "loop", ret, h2)
      BY <1>3, CountedIs, Zenon
    <3>4. job' = CdcAt(b, on, found, more, "loop", ret, h2)
      BY <3>1, <3>2, <3>3, Zenon DEF CdcChanged
    <3> QED BY <1>3, <1>5, <1>7, <2>2, <2>3, <2>6, <3>4, Zenon
  <2>7. CASE found[t] # 0 /\ t \in FirstOfMany
    <3>1. t \in AtTheEnd /\ t \notin OnlyOnce
      BY <2>7 DEF FirstOfMany, AtTheEnd, OnlyOnce
    <3>2. job' = s
      BY <1>8, <1>11, <2>7, Zenon
    <3> QED BY <1>3, <1>7, <2>2, <2>7, <3>1, <3>2, Zenon DEF s
  <2>8. CASE found[t] # 0 /\ t \notin FirstOfMany
    <3>1. job' = [job EXCEPT !.pc = "done", !.ret = -1]
      BY <1>8, <1>11, <2>8, Zenon
    <3>2. job' = CdcAt(b, at, found, cnt, "done", -1, hdr)
      BY <1>1, <3>1 DEF CdcAt
    <3> DEFINE no == -1
    <3>3. CdcDone(b, no, hdr)
      <4> SUFFICES ASSUME NEW u \in DOMAIN Sizes
                   PROVE  hdr[u] \in {0} \cup IF u \in AtTheEnd THEN {}
                                     ELSE {i \in DOMAIN b : LET e == b[i] IN Known1(e) /\ e.type = u /\ LongEnough(e)}
        BY DEF CdcDone
      <4>1. IF u \in AtTheEnd THEN hdr[u] = 0 ELSE LastGood(b, u, at, hdr[u])
        BY <1>3, Zenon DEF HdrUpto
      <4> QED BY <4>1, Zenon DEF LastGood, GoodAt
    <3> HIDE DEF no
    <3>4. CdcOk(b, at, found, cnt, "done", no, hdr)
      BY <1>3, <3>3 DEF CdcOk
    <3> QED BY <3>2, <3>4, Zenon DEF CdcHolds, no
  <2> QED BY <2>5, <2>6, <2>7, <2>8, Zenon
<1> QED BY <1>10, <1>11
LEMMA OneGood == ASSUME NEW S, NEW x, \A i \in S : i = x PROVE Cardinality(S) <= 1
<1>1. IsFiniteSet({x}) /\ Cardinality({x}) = 1
  BY FS_Singleton
<1>2. S \subseteq {x}
  OBVIOUS
<1>3. Cardinality(S) <= Cardinality({x})
  BY <1>1, <1>2, FS_Subset
<1> QED BY <1>1, <1>3
LEMMA CdcEnds == ASSUME CdcHolds(job), cdc_parse_cdc_header PROVE CdcHolds(job')
<1>1. PICK b, at, found, cnt, pc, ret, hdr : CdcOk(b, at, found, cnt, pc, ret, hdr) /\ job = CdcAt(b, at, found, cnt, pc, ret, hdr)
  BY Zenon DEF CdcHolds
<1>2. job.pc = pc /\ job.at = at /\ job.buffer = b /\ job.found = found /\ job.cnt = cnt /\ job.hdr = hdr /\ pc = "loop" /\ at > Len(b)
  BY <1>1 DEF CdcAt, cdc_parse_cdc_header
<1>3. b \in Seq(Desc) /\ at \in Nat \ {0} /\ cnt \in Nat /\ found \in [DOMAIN Sizes -> Nat] /\ hdr \in [DOMAIN Sizes -> Nat]
      /\ FoundUpto(b, at, found) /\ HdrUpto(b, at, hdr)
  BY <1>1, <1>2 DEF CdcOk
<1> DEFINE h2 == [t \in DOMAIN Sizes |-> IF t \in AtTheEnd THEN found[t] ELSE hdr[t]]
<1>4. job' = [job EXCEPT !.pc = "done", !.ret = cnt, !.hdr = h2]
  <2>1. DOMAIN hdr = DOMAIN Sizes
    BY <1>3
  <2>2. job' = [job EXCEPT !.pc = "done", !.ret = job.cnt, !.hdr = [t \in DOMAIN job.hdr |-> IF t \in AtTheEnd THEN job.found[t] ELSE job.hdr[t]]]
    BY Zenon DEF cdc_parse_cdc_header
  <2> QED BY <1>2, <2>1, <2>2, Zenon
<1>5. \A t \in DOMAIN Sizes : h2[t] = IF t \in AtTheEnd THEN found[t] ELSE hdr[t]
  OBVIOUS
<1>6. h2 \in [DOMAIN Sizes -> Nat]
  BY <1>3
<1> HIDE DEF h2
<1>7. job' = CdcAt(b, at, found, cnt, "done", cnt, h2)
  <2> DEFINE s == [job EXCEPT !.pc = "done"]
             r == [s EXCEPT !.ret = cnt]
             u == [r EXCEPT !.hdr = h2]
  <2>1. job' = u
    BY <1>4
  <2>2. s = CdcAt(b, at, found, cnt, "done", ret, hdr)
    BY <1>1 DEF CdcAt
  <2> HIDE DEF s
  <2>3. r = CdcAt(b, at, found, cnt, "done", cnt, hdr)
    BY <2>2 DEF CdcAt
  <2> HIDE DEF r
  <2>4. u = CdcAt(b, at, found, cnt, "done", cnt, h2)
    BY <2>3 DEF CdcAt
  <2> QED BY <2>1, <2>4
<1>8. \A t, i : GoodAt(b, t, i) => i \in Nat /\ i < at
  BY <1>2, <1>3 DEF GoodAt
<1>9. CdcDone(b, cnt, h2)
  <2> SUFFICES ASSUME NEW t \in DOMAIN Sizes
               PROVE  LET good == {i \in DOMAIN b : LET d == b[i] IN Known1(d) /\ d.type = t /\ LongEnough(d)}
                      IN  /\ t \in OnlyOnce => Cardinality(good) <= 1
                          /\ h2[t] \in IF good = {} THEN {0} ELSE good
                          /\ \A i \in good : IF t \in AtTheEnd THEN h2[t] <= i ELSE h2[t] >= i
    <3>1. ~(cnt < 0)
      BY <1>3
    <3> QED BY <3>1, Zenon DEF CdcDone
  <2> DEFINE good == {i \in DOMAIN b : LET d == b[i] IN Known1(d) /\ d.type = t /\ LongEnough(d)}
             x == h2[t]
  <2>1. \A i : i \in good <=> GoodAt(b, t, i)
    BY DEF GoodAt
  <2> HIDE DEF good
  <2>2. x \in Nat
    BY <1>6
  <2>3. t \in OnlyOnce => t \in AtTheEnd
    BY DEF AtTheEnd
  <2>4. CASE t \in AtTheEnd
    <3>1. FirstGood(b, t, at, x)
      BY <1>3, <1>5, <2>4, Zenon DEF FoundUpto
    <3> HIDE DEF x
    <3>2. CASE x = 0 /\ \A i \in Nat : GoodAt(b, t, i) => i >= at
      <4>1. good = {}
        <5>1. \A i : ~GoodAt(b, t, i)
          BY <1>3, <1>8, <3>2
        <5> QED BY <2>1, <5>1
      <4>2. Cardinality(good) <= 1
        BY <4>1, OneGood
      <4> QED BY <2>4, <3>2, <4>1, <4>2 DEF x, good
    <3>3. CASE GoodAt(b, t, x) /\ x < at /\ \A i \in Nat : GoodAt(b, t, i) /\ i < at => x <= i /\ (t \in OnlyOnce => i = x)
      <4>1. \A i \in good : x <= i /\ (t \in OnlyOnce => i = x)
        BY <1>8, <2>1, <3>3
      <4>2. x \in good /\ good # {}
        BY <2>1, <3>3
      <4>3. t \in OnlyOnce => Cardinality(good) <= 1
        BY <4>1, OneGood
      <4> QED BY <2>4, <4>1, <4>2, <4>3, Zenon DEF x, good
    <3> QED BY <3>1, <3>2, <3>3, Zenon DEF FirstGood
  <2>5. CASE t \notin AtTheEnd
    <3>1. LastGood(b, t, at, x)
      BY <1>3, <1>5, <2>5, Zenon DEF HdrUpto
    <3> HIDE DEF x
    <3>2. CASE x = 0 /\ \A i \in Nat : GoodAt(b, t, i) => i >= at
      <4>1. good = {}
        <5>1. \A i : ~GoodAt(b, t, i)
          BY <1>3, <1>8, <3>2
        <5> QED BY <2>1, <5>1
      <4> QED BY <2>3, <2>5, <3>2, <4>1 DEF x, good
    <3>3. CASE GoodAt(b, t, x) /\ x < at /\ \A i \in Nat : GoodAt(b, t, i) /\ i < at => i <= x
      <4>1. \A i \in good : x >= i
        BY <1>8, <2>1, <2>2, <3>3 DEF x
      <4>2. x \in good /\ good # {}
        BY <2>1, <3>3
      <4> QED BY <2>3, <2>5, <4>1, <4>2, Zenon DEF x, good
    <3> QED BY <3>1, <3>2, <3>3, Zenon DEF LastGood
  <2> QED BY <2>4, <2>5
<1>10. CdcOk(b, at, found, cnt, "done", cnt, h2)
  BY <1>3, <1>6, <1>9 DEF CdcOk
<1> QED BY <1>7, <1>10, Zenon DEF CdcHolds
LEMMA CdcSent == ASSUME NEW j, CdcHolds(j), j.pc = "done" PROVE CdcDone(j.buffer, j.ret, j.hdr)
<1>1. PICK b, at, found, cnt, pc, ret, hdr : CdcOk(b, at, found, cnt, pc, ret, hdr) /\ j = CdcAt(b, at, found, cnt, pc, ret, hdr)
  BY Zenon DEF CdcHolds
<1>2. j.pc = pc /\ j.buffer = b /\ j.ret = ret /\ j.hdr = hdr
  BY <1>1 DEF CdcAt
<1> QED BY <1>1, <1>2, Zenon DEF CdcOk
-----------------------------------------------------------------------------
(* All of them together.                                                   *)
BufHolds(j) == DumpHolds(j) \/ TextHolds(j) \/ CdcHolds(j) \/ FrameHolds(j) \/ MacHolds(j)
LEMMA JobIs ==
    ASSUME NEW j
    PROVE  /\ DumpHolds(j) => j.job = "dump"
           /\ TextHolds(j) => j.job = "text"
           /\ CdcHolds(j) => j.job = "cdc"
           /\ FrameHolds(j) => j.job = "frame"
           /\ MacHolds(j) => j.job = "mac"
<1>1. DumpHolds(j) => j.job = "dump"
  BY DEF DumpHolds, DumpAt
<1>2. TextHolds(j) => j.job = "text"
  BY DEF TextHolds, TextStart
<1>3. CdcHolds(j) => j.job = "cdc"
  BY DEF CdcHolds, CdcAt
<1>4. FrameHolds(j) => j.job = "frame"
  BY DEF FrameHolds
<1>5. MacHolds(j) => j.job = "mac"
  BY DEF MacHolds, MacAt
<1> QED BY <1>1, <1>2, <1>3, <1>4, <1>5
LEMMA BufInits == ASSUME BufInit PROVE BufHolds(job)
<1>1. ASSUME NEW d \in Dumps, job = DumpStart(d) PROVE BufHolds(job)
  <2>1. d \in Dump
    BY BuffersAssumption DEF Dump
  <2> QED BY <1>1, <2>1, DumpStarts, Zenon DEF BufHolds
<1>2. ASSUME NEW b \in CdcBuffers, job = CdcStart(b) PROVE BufHolds(job)
  <2>1. b \in Seq(Desc)
    BY BuffersAssumption DEF Desc
  <2> QED BY <1>2, <2>1, CdcStarts, Zenon DEF BufHolds
<1>3. ASSUME NEW s \in BoolTexts, NEW n \in 0 .. 4, job = TextStart(s, n) PROVE BufHolds(job)
  <2>1. s \in Seq(STRING) /\ n \in Nat
    BY BuffersAssumption
  <2> QED BY <1>3, <2>1, Zenon DEF BufHolds, TextHolds
<1>4. ASSUME NEW f \in Frames, job = FrameStart(f) PROVE BufHolds(job)
  <2>1. f \in Frame
    BY BuffersAssumption DEF Frame
  <2>2. FrameHolds(job)
    BY <1>4, <2>1 DEF FrameHolds, FrameStart
  <2> QED BY <2>2, Zenon DEF BufHolds
<1>5. ASSUME NEW props \in Properties, NEW alen, job = MacStart(props, alen) PROVE BufHolds(job)
  <2>1. props \in [1 .. 3 -> PropertyStates]
    BY DEF Properties, PropertyStates
  <2> QED BY <1>5, <2>1, MacStarts, Zenon DEF BufHolds
<1> QED BY <1>1, <1>2, <1>3, <1>4, <1>5, Zenon DEF BufInit
LEMMA BufSteps == ASSUME BufHolds(job), BufNext PROVE BufHolds(job')
<1>1. ASSUME seq_hex_dump \/ SeqRead PROVE BufHolds(job')
  <2>1. job.job = "dump"
    BY <1>1, Zenon DEF seq_hex_dump, SeqRead
  <2>2. DumpHolds(job)
    BY <2>1, JobIs DEF BufHolds
  <2> QED BY <1>1, <2>2, DumpGoes, DumpRead, Zenon DEF BufHolds
<1>2. ASSUME NEW fault, UseText(fault) PROVE BufHolds(job')
  <2>1. job.job = "text"
    BY <1>2, Zenon DEF UseText
  <2>2. TextHolds(job)
    BY <2>1, JobIs DEF BufHolds
  <2> QED BY <1>2, <2>2, TextGoes, Zenon DEF BufHolds
<1>3. ASSUME cdc_parse_descriptor \/ cdc_parse_cdc_header PROVE BufHolds(job')
  <2>1. job.job = "cdc"
    BY <1>3, Zenon DEF cdc_parse_descriptor, cdc_parse_cdc_header
  <2>2. CdcHolds(job)
    BY <2>1, JobIs DEF BufHolds
  <2> QED BY <1>3, <2>2, CdcGoes, CdcEnds, Zenon DEF BufHolds
<1>4. ASSUME GetHeadlen PROVE BufHolds(job')
  <2>1. job.job = "frame"
    BY <1>4, Zenon DEF GetHeadlen
  <2>2. FrameHolds(job)
    BY <2>1, JobIs DEF BufHolds
  <2> QED BY <1>4, <2>2, FrameGoes, Zenon DEF BufHolds
<1>5. ASSUME device_get_mac_address PROVE BufHolds(job')
  <2>1. job.job = "mac"
    BY <1>5, Zenon DEF device_get_mac_address
  <2>2. MacHolds(job)
    BY <2>1, JobIs DEF BufHolds
  <2> QED BY <1>5, <2>2, MacGoes, Zenon DEF BufHolds
<1> QED BY <1>1, <1>2, <1>3, <1>4, <1>5, Zenon DEF BufNext
LEMMA BufSent == ASSUME BufHolds(job) PROVE BuffersAsSized
<1>1. DumpsAreWhole
  <2> SUFFICES ASSUME job.job = "dump"
               PROVE  (job.pc = "shown" => RowsWhole(job.d, job.rows)) /\ (job.last # <<>> => LastWhole(job.d, job.last))
    BY Zenon DEF DumpsAreWhole, RowsWhole, LastWhole
  <2>1. DumpHolds(job)
    BY JobIs DEF BufHolds
  <2> QED BY <2>1, DumpSent, Zenon
<1>2. TextsKeepTheirMeaning
  <2> SUFFICES ASSUME job.job = "text", job.pc = "done" PROVE TextDone(job)
    BY Zenon DEF TextsKeepTheirMeaning, TextDone, Copied
  <2>1. TextHolds(job)
    BY JobIs DEF BufHolds
  <2> QED BY <2>1 DEF TextHolds, TextStart
<1>3. DescriptorsFound
  <2> SUFFICES ASSUME job.job = "cdc", job.pc = "done" PROVE CdcDone(job.buffer, job.ret, job.hdr)
    BY Zenon DEF DescriptorsFound, CdcDone
  <2>1. CdcHolds(job)
    BY JobIs DEF BufHolds
  <2> QED BY <2>1, CdcSent, Zenon
<1>4. HeadersFound
  <2> SUFFICES ASSUME job.job = "frame", job.pc = "done" PROVE FrameFound(job.f, job.ret)
    BY Zenon DEF HeadersFound, FrameFound
  <2>1. FrameHolds(job)
    BY JobIs DEF BufHolds
  <2> QED BY <2>1 DEF FrameHolds
<1>5. MacFound
  <2> SUFFICES ASSUME job.job = "mac", job.pc = "done"
               PROVE  /\ job.res <=> job.alen = ETH_ALEN /\ \E i \in DOMAIN job.props : job.props[i] = "address"
                      /\ job.res => job.addr[1] = "address" /\ \A i \in 1 .. job.addr[2] - 1 : job.props[i] # "address"
    BY Zenon DEF MacFound
  <2>1. MacHolds(job)
    BY JobIs DEF BufHolds
  <2> QED BY <2>1, MacSent, Zenon
<1> QED BY <1>1, <1>2, <1>3, <1>4, <1>5, Zenon DEF BuffersAsSized
=============================================================================
