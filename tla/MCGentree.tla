----------------------------- MODULE MCGentree -----------------------------
(***************************************************************************)
(* Small source trees for Gentree: a driver directory with three options   *)
(* and a subdirectory, any of its files missing, an option X of the kernel *)
(* that compat/ can backport, an option K that it cannot.                  *)
(***************************************************************************)
EXTENDS Gentree

S(n) == <<"", n>>
File(f) == <<"file", f>>

CompatKconfig(type) ==
    << L("config", <<"BUILD", "X">>), L(type, NoSym), L("c-file", File("x.c")), L("blank", NoSym),
       L("config", <<"BPAUTO", "X">>), L("bool", NoSym) >>

RootKconfig == << L("source", File("compat/Kconfig")), L("source", File("drv/Kconfig")),
                  L("source", File("Kconfig.local")) >>

DrvKconfig(selA, selB) ==
    << L("config", S("A")), L("tristate", NoSym), selA, L("blank", NoSym),
       L("config", S("B")), L("bool", NoSym), selB,
       L("source", File("drv/sub/Kconfig")) >>

SubKconfig(selC) == << L("config", S("C")), L("tristate", NoSym), selC >>

Sels == {L("select", S("X")), L("select", S("K")), L("select", S("B")),
         L("select-if", S("X")), L("depends", S("K"))}

MkBlank == <<M("blank", "", NoSym, "")>>
MkRoot == <<M("obj", "y", NoSym, "compat")>> \o MkBlank \o <<M("obj", "CPTCFG", S("A"), "drv")>>
MkDrv == << M("obj", "CONFIG", S("A"), "a"), M("objs", "", NoSym, "a") >> \o MkBlank
         \o << M("obj", "CONFIG", S("B"), "b"), M("obj", "CONFIG", S("K"), "k"),
               M("obj", "CONFIG", S("C"), "sub") >>
MkSub == <<M("obj", "CONFIG", S("C"), "c")>>

Keep(f, ds) == [d \in ds |-> f[d]]

MCInputs ==
    {[kconfig |-> Keep([f \in {"Kconfig", "compat/Kconfig", "drv/Kconfig", "drv/sub/Kconfig"} |->
                          CASE f = "Kconfig" -> RootKconfig
                            [] f = "compat/Kconfig" -> CompatKconfig(type)
                            [] f = "drv/Kconfig" -> DrvKconfig(sels[1], sels[2])
                            [] OTHER -> SubKconfig(sels[3])],
                       {"Kconfig", "compat/Kconfig"} \union ks),
      make |-> Keep([d \in {".", "compat", "drv", "sub"} |->
                          CASE d = "." -> MkRoot [] d = "drv" -> MkDrv [] d = "sub" -> MkSub
                            [] OTHER -> <<>>],
                    {".", "compat"} \union ms),
      code |-> cs, deps |-> {<<S("B"), <<"kernel", "3.5">>>>}] :
        type \in {"bool", "tristate"}, sels \in {t \in Sels \X Sels \X Sels : t[2] # t[3] \/ t[1] = t[2]},
        ks \in SUBSET {"drv/Kconfig", "drv/sub/Kconfig"}, ms \in SUBSET {"drv", "sub"},
        cs \in SUBSET {"b", "k", "c"}}
=============================================================================
