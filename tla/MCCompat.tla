----------------------------- MODULE MCCompat ------------------------------
(***************************************************************************)
(* The compat functions on small instances.  They share no state; part     *)
(* says which of them runs, the others stay in one of their first states.  *)
(***************************************************************************)
EXTENDS IdaSimple, Registers, Lifetimes, Net, Scatter, Buffers

CONSTANTS Tasks, Addrs, Names, Null
VARIABLES heap, key, list, wqs, users, wqpc, n, wq, part

WQ == INSTANCE WqNames WITH pc <- wqpc
wqvars == <<heap, key, list, wqs, users, wqpc, n, wq>>
regvars == <<mii, pcie, irq, vf, i2c>>
netvars == <<tso, once, stats, sk, skb>>
devvars == <<regvars, netvars, zone, res, sg, job>>
ASSUME CompatAssumption == Null \notin Addrs \union Names

\* Three ranges over the ids 0..1: no limit, a single id, and an empty one.
MCRanges == {<<0, 0>>, <<0, 1>>, <<1, 1>>}

\* Forced settings, those to negotiate, and some that are refused.
LinkCmd(autoneg, speed, duplex, port, phy, advertising) ==
    [autoneg |-> autoneg, speed |-> speed, duplex |-> duplex, port |-> port, phy_address |-> phy, advertising |-> advertising]
MCLinkCmds ==
    {LinkCmd("DISABLE", speed, duplex, "PORT_MII", "phy_id", {}) : speed \in {10, 100, 1000, 2500}, duplex \in {"HALF", "FULL"}}
    \union {LinkCmd("ENABLE", 100, "HALF", "PORT_MII", "phy_id", adv \union pause) : pause \in {{}, {"ADVERTISED_Pause"}},
              adv \in {PastBit31, {"ADVERTISED_1000baseT_Full"} \union PastBit31,
                       {"ADVERTISED_100baseT_Full", "ADVERTISED_10baseT_Half"}, DOMAIN Modes}}
    \union {LinkCmd("UNKNOWN", 10, "HALF", "PORT_MII", "phy_id", {}), LinkCmd("DISABLE", 10, "UNKNOWN", "PORT_MII", "phy_id", {}),
            LinkCmd("DISABLE", 10, "HALF", "PORT_TP", "phy_id", {}), LinkCmd("DISABLE", 10, "HALF", "PORT_MII", "other", {})}
MCAbilities ==
    {slow \union fast : slow \in {{}, {"ADVERTISED_10baseT_Half", "ADVERTISED_100baseT_Half"}, SlowModes},
                       fast \in {{}, {"ADVERTISED_1000baseT_Half"}}}
\* Registers of each kind, and an offset that is none.
MCPciTargets == {{7, DEVCTL}, {LNKCTL}, {SLTCTL, SLTSTA}, {RTCTL}}
MCI2cValues == {<<0, 1>>, <<1, 0>>}

\* Lists of up to two entries of any alignment, and some with an empty one
\* between two others.
SgEntries == [offset : 0 .. 1, length : 0 .. 5]
MCSgLists ==
    [1 .. 1 -> SgEntries] \union [1 .. 2 -> SgEntries]
    \union {<<[offset |-> 1, length |-> 4], [offset |-> o, length |-> 0], [offset |-> 0, length |-> l]>> :
                o \in 0 .. 1, l \in 1 .. 4}

\* Dumps of part of a row, of one and of several, in groups of each size, with
\* and without characters, into buffers that take them and that do not.
MCDumps ==
    [len : {1, 8, 16, 20, 36}, rowsize : {16, 32, 5}, groupsize : {1, 2, 3, 8}, ascii : BOOLEAN, prefix : {0, 10}, size : {3, 16, 17, 24, 47, 48, 57}]
\* All pairs of descriptors, and triples of those that must not come twice.
CdcLengths(t) == {Sizes[t] - 1, Sizes[t], Sizes[t] + 1} \ {-1}
CdcDescs(types) ==
    UNION {{[elength |-> l, cs |-> TRUE, type |-> t] : l \in CdcLengths(t)} : t \in types}
CdcOdd == {[elength |-> 0, cs |-> TRUE, type |-> "acm"], [elength |-> 9, cs |-> FALSE, type |-> "acm"], [elength |-> 9, cs |-> TRUE, type |-> "else"]}
MCCdcBuffers ==
    [1 .. 2 -> CdcDescs(DOMAIN Sizes) \union CdcOdd]
    \union [1 .. 3 -> CdcDescs({"union", "header", "country"}) \union CdcOdd]
MCTexts == {NoText} \union UNION {[1 .. k -> {"y", "0", "o", "n", "f", "x"}] : k \in 0 .. 4}
MCFrames ==
    [vlan : BOOLEAN, proto : {"ip", "ipv6", "fcoe", "arp"}, ihl : {16, 20, 24}, frag : BOOLEAN, l4 : {"tcp", "udp", "icmp"}, doff : {16, 20, 32},
     max_len : {13, 14, 17, 18, 33, 34, 41, 42, 54, 57, 58, 100}]
MCDevm ==
    {<<"devm_gpio_release", 1>>, <<"devm_gpio_release", 2>>, <<"devm_regmap_release", 1>>, <<"devm_led_trigger_release", 1>>,
     <<"devm_hwmon_release", 1>>, <<"devm_action_release", 1>>}

MiiIdle == mii = MiiStart(FALSE)
PciIdle == pcie = PciStart("none", 1, FALSE, FALSE, {})
IrqIdle == irq = IrqStart([msix |-> 0, msi |-> 0], 1, 1, {})
VfIdle == vf = VfStart(<<>>, FALSE)
I2cIdle == i2c = I2cStart(TRUE)
TsoIdle == tso = tso_start([head |-> 1, frags |-> <<>>, mss |-> 1, seq |-> 0, id |-> 0, ipv6 |-> FALSE])
StatsIdle == stats = StatsStart("smp64", FALSE, FALSE)
OnceIdle == once = OnceStart(TRUE)
SkIdle == sk = SkStart(TRUE)
SkbIdle == skb = SkbStart(TRUE, {}, 1, FALSE)
SgIdle == sg = SgStart(<<[offset |-> 0, length |-> 0]>>, 0)
BufIdle == job = MacStart(<<"missing", "missing", "missing">>, ETH_ALEN)
CompatInit ==
    /\ part \in {"ids", "names", "link", "registers", "vectors", "functions", "i2c", "segments",
                 "key", "stats", "status", "copy", "thermal", "managed", "pages", "buffers"}
    /\ Init /\ WQ!Init /\ (part # "ids" => \A c \in Callers : range[c] = <<0, 0>>)
    /\ IF part = "link" THEN MiiInit ELSE MiiIdle
    /\ IF part = "registers" THEN PciInit ELSE PciIdle
    /\ IF part = "vectors" THEN IrqInit ELSE IrqIdle
    /\ IF part = "functions" THEN VfInit ELSE VfIdle
    /\ IF part = "i2c" THEN I2cInit ELSE I2cIdle
    /\ IF part = "segments" THEN TsoInit ELSE TsoIdle
    /\ IF part = "key" THEN OnceInit ELSE OnceIdle
    /\ IF part = "stats" THEN StatsInit ELSE StatsIdle
    /\ IF part = "status" THEN SkInit ELSE SkIdle
    /\ IF part = "copy" THEN SkbInit ELSE SkbIdle
    /\ ThermalInit /\ ResInit
    /\ IF part = "pages" THEN SgInit ELSE SgIdle
    /\ IF part = "buffers" THEN BufInit ELSE BufIdle

Allocations == part = "ids" /\ Next /\ UNCHANGED <<wqvars, devvars, part>>
QueueNames == part = "names" /\ WQ!Next /\ UNCHANGED <<ivars, devvars, part>>
Link == part = "link" /\ MiiNext /\ UNCHANGED <<ivars, wqvars, pcie, irq, vf, i2c, netvars, zone, res, sg, job, part>>
Capability == part = "registers" /\ PciNext /\ UNCHANGED <<ivars, wqvars, mii, irq, vf, i2c, netvars, zone, res, sg, job, part>>
Vectors == part = "vectors" /\ IrqNext /\ UNCHANGED <<ivars, wqvars, mii, pcie, vf, i2c, netvars, zone, res, sg, job, part>>
VirtualFunctions == part = "functions" /\ VfNext /\ UNCHANGED <<ivars, wqvars, mii, pcie, irq, i2c, netvars, zone, res, sg, job, part>>
I2cBus == part = "i2c" /\ I2cNext /\ UNCHANGED <<ivars, wqvars, mii, pcie, irq, vf, netvars, zone, res, sg, job, part>>
Segments == part = "segments" /\ TsoNext /\ UNCHANGED <<ivars, wqvars, regvars, once, stats, sk, skb, zone, res, sg, job, part>>
RandomKey == part = "key" /\ OnceNext /\ UNCHANGED <<ivars, wqvars, regvars, tso, stats, sk, skb, zone, res, sg, job, part>>
Statistics == part = "stats" /\ StatsNext /\ UNCHANGED <<ivars, wqvars, regvars, tso, once, sk, skb, zone, res, sg, job, part>>
Status == part = "status" /\ SkNext /\ UNCHANGED <<ivars, wqvars, regvars, tso, once, stats, skb, zone, res, sg, job, part>>
CopySkb == part = "copy" /\ SkbNext /\ UNCHANGED <<ivars, wqvars, regvars, tso, once, stats, sk, zone, res, sg, job, part>>
Zones == part = "thermal" /\ ThermalNext /\ UNCHANGED <<ivars, wqvars, regvars, netvars, res, sg, job, part>>
Managed == part = "managed" /\ ResNext /\ UNCHANGED <<ivars, wqvars, regvars, netvars, zone, sg, job, part>>
Pages == part = "pages" /\ SgNext /\ UNCHANGED <<ivars, wqvars, regvars, netvars, zone, res, job, part>>
BufferJobs == part = "buffers" /\ BufNext /\ UNCHANGED <<ivars, wqvars, regvars, netvars, zone, res, sg, part>>
CompatNext ==
    \/ Allocations \/ QueueNames \/ Link \/ Capability \/ Vectors \/ VirtualFunctions \/ I2cBus \/ Segments
    \/ RandomKey \/ Statistics \/ Status \/ CopySkb \/ Zones \/ Managed \/ Pages \/ BufferJobs
CompatSpec == CompatInit /\ [][CompatNext]_<<ivars, wqvars, devvars, part>>

\* Bytes that lie in pieces are handled once each and in order, in whatever
\* portions: the payload of an skb and the entries of a scatterlist
\* (backport-4.4.c, compat-3.9.c, backport-3.11.c, backport-4.2.c), and what goes
\* into or comes out of a buffer is neither cut unsaid nor misread
\* (backport-4.0.c, backport-4.3.c, backport-4.6.c, backport-4.8.c,
\* backport-3.18.c).
EveryByteOnce == TsoSendsAll /\ SgBytesOnce /\ BuffersAsSized

\* The registers of a device hold what the callers of the accessors asked for
\* and were told: the link settings of a PHY, the bits of a PCI Express
\* capability, interrupt vectors, virtual functions and register maps
\* (backport-4.10.c, compat-3.7.c, backport-4.8.c, backport-3.14.c,
\* backport-3.10.c, compat-3.4.c).
RegistersAsAsked == MiiSettingsComeBack /\ PcieBitsAsAsked /\ VectorsAsAnswered /\ VfsCounted /\ I2cDoneIfOk

\* What is registered or referenced outlives its users and is released once,
\* when the last of them is gone: thermal zones, managed resources, sockets,
\* copied buffers and the names of workqueues, of which each destroy finds one
\* to free, even when the address was reused meanwhile (backport-4.3.c,
\* compat-3.5.c and the other devm_ functions, backport-3.18.c, compat-3.3.c).
ReleasedOnceUnused ==
    /\ WQ!OneEntryPerQueue /\ WQ!NoNameLeaks
    /\ WrapperOutlivesCalls /\ DevresReleasedOnce /\ SocketOutlivesStatus /\ CopiesStandAlone

\* Tasks that share a value read it whole and the same: the random key of all
\* devices and the two words of a counter (backport-3.13.c, backport-3.19.c,
\* u64_stats_sync.h).
SharedValuesWhole == OneKeyForAll /\ WholeCounts
=============================================================================
