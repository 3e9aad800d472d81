------------------------------ MODULE Gentree ------------------------------
(***************************************************************************)
(* gentree.py process(), building a package: the kernel files on the copy  *)
(* list become an output tree whose Kconfig files and Makefiles fit the    *)
(* code that was copied.  One action per stage, in the order of process(). *)
(* The tree is every input of Inputs in turn.                              *)
(*                                                                         *)
(* A symbol is a pair <<scheme, name>>: <<"", n>> for n, <<"BPAUTO", n>>    *)
(* for BPAUTO_n, <<"BUILD", n>> for BPAUTO_BUILD_n.  A line of a Kconfig   *)
(* file is [k |-> kind, v |-> argument]; a line of a Makefile is           *)
(* [k |-> kind, pre |-> prefix, sym |-> symbol, tgt |-> target], its kind  *)
(* "off" when it is commented out.                                         *)
(***************************************************************************)
EXTENDS Naturals, Sequences, FiniteSets, SequencesExt

CONSTANTS Inputs    \* the source trees

\* Strings; the ones that the stages write are named.
Word == STRING \union {"", "n", "m", "#", "depends", "select", "BPAUTO",
                       "obj", "objs", "compat", "off", "CPTCFG"}
Symbol == Word \X Word
Line == [k : Word, v : Symbol]
MakeLine == [k : Word, pre : Word, sym : Symbol, tgt : Word]

\* A file never ends in a config line, and the shipped files are there.
ASSUME GentreeAssumption ==
    \A t \in Inputs :
        /\ {"Kconfig", "compat/Kconfig"} \subseteq DOMAIN t.kconfig
        /\ {".", "compat"} \subseteq DOMAIN t.make
        /\ \A f \in DOMAIN t.kconfig :
              t.kconfig[f] # <<>> => t.kconfig[f][Len(t.kconfig[f])].k # "config"
        /\ IsFiniteSet(DOMAIN t.kconfig) /\ IsFiniteSet(DOMAIN t.make) /\ IsFiniteSet(t.deps)
        /\ t.kconfig \in [DOMAIN t.kconfig -> Seq(Line)] /\ t.make \in [DOMAIN t.make -> Seq(MakeLine)]
        /\ t.deps \subseteq Symbol \X Symbol

\* The names of the package are its own: BPAUTO_BUILD_ options are declared in
\* compat/Kconfig only, what is selected as BPAUTO_FOO outright has no
\* BPAUTO_BUILD_FOO, and compat/Makefile has no obj line for one.  Neither
\* compat/Kconfig nor the file "dependencies" says "n".
ASSUME NamesAssumption ==
    \A t \in Inputs :
        LET All == UNION {Range(t.kconfig[f]) : f \in DOMAIN t.kconfig}
            Others == UNION {Range(t.kconfig[f]) : f \in DOMAIN t.kconfig \ {"compat/Kconfig"}}
        IN  /\ \A l \in Others : l.k = "config" => l.v[1] # "BUILD"
            /\ \A l, m \in All : l.k = "select" /\ l.v[1] = "BPAUTO" /\ m.k = "config" => m.v # <<"BUILD", l.v[2]>>
            /\ \A l \in Range(t.kconfig["compat/Kconfig"]) : l.v # <<"", "n">>
            /\ \A e \in t.deps : e[2] # <<"", "n">>
            /\ \A d \in DOMAIN t.make : \A l \in Range(t.make[d]) :
                  /\ l.k # "off" /\ (l.k = "obj" => l.sym[1] # "BUILD")
                  /\ l.k = "blank" => l = [k |-> "blank", pre |-> "", sym |-> <<"", "">>, tgt |-> ""]

VARIABLES
    input,      \* the source tree, fixed
    stage,      \* the next stage of process()
    kc,         \* Kconfig files of the output tree
    mk,         \* Makefiles of the output tree, per directory
    code,       \* C files of the output tree
    disable,    \* disable_list, later disable_kconfig
    orig,       \* orig_symbols
    locals      \* the symbols of local-symbols and Kconfig.local

gvars == <<input, stage, kc, mk, code, disable, orig, locals>>

Root == "Kconfig"
Ignored == {"Kconfig.kernel", "Kconfig.versions", "Kconfig.local"}
NoSym == <<"", "">>

L(kind, arg) == [k |-> kind, v |-> arg]
M(kind, p, s, t) == [k |-> kind, pre |-> p, sym |-> s, tgt |-> t]

\* Inputs: Kconfig files and Makefiles by name, C files that were copied, C
\* files of the kernel that compat/Kconfig may ask for, and (symbol,
\* dependency) pairs of the file "dependencies".
Init ==
    /\ input \in Inputs
    /\ stage = "copy"
    /\ kc = <<>> /\ mk = <<>> /\ code = {}
    /\ disable = {} /\ orig = {} /\ locals = {}

Goto(from, to) == stage = from /\ stage' = to /\ input' = input

-----------------------------------------------------------------------------
(* lib/kconfig.py                                                          *)

Lines(s) == Range(s)
Sourced(s) == {l.v[2] : l \in {m \in Lines(s) : m.k = "source"}}

\* _walk(): the files reached from the root through source lines whose file
\* exists, at most one level further with each step.
Walk(t) ==
    LET R[i \in 0..Cardinality(DOMAIN t)] ==
            IF i = 0 THEN {Root}
            ELSE R[i - 1] \union UNION {Sourced(t[f]) \intersect DOMAIN t : f \in R[i - 1]}
    IN  R[Cardinality(DOMAIN t)]

\* The rewriting loop that the methods share: each line of each walked file is
\* replaced by the lines Edit gives for it.
Rewrite(t, Edit(_)) ==
    [f \in DOMAIN t |-> IF f \in Walk(t) THEN FlattenSeq([i \in DOMAIN t[f] |-> Edit(t[f][i])])
                        ELSE t[f]]

Declared(s) == {l.v : l \in {m \in Lines(s) : m.k = "config"}}
symbols(t) == UNION {Declared(t[f]) : f \in Walk(t)}

\* sel_line matches "select SYM" at the end of the line only.
Selected(s) == {l.v : l \in {m \in Lines(s) : m.k = "select"}}

\* Only the root file is searched.
all_selectsRootOnly(t) == Selected(t[Root])

all_selects(t) == UNION {Selected(t[f]) : f \in Walk(t)}

\* Only the root file is pruned.
prune_sourcesRootOnly(t) ==
    [t EXCEPT ![Root] = [i \in DOMAIN t[Root] |->
        IF t[Root][i].k = "source" /\ t[Root][i].v[2] \notin Ignored \union DOMAIN t
        THEN L("#", t[Root][i].v) ELSE t[Root][i]]]

\* A reference to a file that does not exist is commented out.
prune_sources(t) ==
    Rewrite(t, LAMBDA l : IF l.k = "source" /\ l.v[2] \notin Ignored \union DOMAIN t
                          THEN <<L("#", l.v)>> ELSE <<l>>)

force_tristate_modular(t) ==
    Rewrite(t, LAMBDA l : IF l.k = "tristate" THEN <<l, L("depends", <<"", "m">>)>> ELSE <<l>>)

\* With an empty project_prefix adjust_backported_configs() holds a config line
\* back until the next line that is not one; a config line right after another
\* replaces it.
adjust_backported_configs(t) ==
    [f \in DOMAIN t |->
        IF f \notin Walk(t) \/ f = Root THEN t[f]
        ELSE LET Lost(i) == t[f][i].k = "config" /\ t[f][i + 1].k = "config"
             IN  FlattenSeq([i \in DOMAIN t[f] |-> IF Lost(i) THEN <<>> ELSE <<t[f][i]>>])]

\* "select FOO" becomes "select BPAUTO_FOO", or "depends on FOO".
modify_selects(t) ==
    Rewrite(t, LAMBDA l :
        IF l.k # "select" \/ l.v \in symbols(t) THEN <<l>>
        ELSE IF l.v[1] = "" /\ <<"BPAUTO", l.v[2]>> \in symbols(t)
             THEN <<L("select", <<"BPAUTO", l.v[2]>>)>>
             ELSE <<L("depends", l.v)>>)

disable_symbols(t, syms) ==
    Rewrite(t, LAMBDA l : IF l.k = "config" /\ l.v \in syms
                          THEN <<l, L("depends", <<"", "n">>)>> ELSE <<l>>)

add_dependencies(t, deps) ==
    Rewrite(t, LAMBDA l :
        IF l.k = "config" THEN <<l>> \o SetToSeq({L("depends", d[2]) : d \in {e \in deps : e[1] = l.v}})
        ELSE <<l>>)

\* get_backport_info(): for each option of compat/Kconfig that has a type, the
\* C files its block asks for.  A block ends at the next config or blank line.
Block(s, i) == {j \in DOMAIN s : j > i /\ \A n \in i + 1 .. j : s[n].k \notin {"config", "blank"}}
IsTristate(s, i) == \E j \in Block(s, i) : s[j].k = "tristate"
get_backport_info(s) ==
    LET Heads == {i \in DOMAIN s : /\ s[i].k = "config"
                                   /\ \E j \in Block(s, i) : s[j].k \in {"bool", "tristate"}
                                   /\ \E j \in Block(s, i) : s[j].k = "c-file"}
    IN  [i \in Heads |-> {s[j].v[2] : j \in {n \in Block(s, i) : s[n].k = "c-file"}}]

-----------------------------------------------------------------------------
(* lib/make.py: MakeTree                                                   *)

Active(s) == {l \in Lines(s) : l.k = "obj"}

\* The Makefiles that _walk() finds: a target that is a directory with one.
Makefiles(m) ==
    LET R[i \in 0..Cardinality(DOMAIN m)] ==
            IF i = 0 THEN {"."}
            ELSE R[i - 1] \union ((UNION {{l.tgt : l \in Active(m[d])} : d \in R[i - 1]})
                                  \intersect DOMAIN m)
    IN  R[Cardinality(DOMAIN m)]

\* There is a directory, a C file, or a line "<tgt>-objs += .." of this Makefile.
Satisfied(m, c, d, l) ==
    \/ l.tgt \in DOMAIN m \union c
    \/ \E o \in Lines(m[d]) : o.k = "objs" /\ o.tgt = l.tgt

Missing(m, c) ==
    UNION {{l \in Active(m[d]) : ~Satisfied(m, c, d, l)} : d \in Makefiles(m)}

\* Only the top Makefile is looked at.
get_impossible_symbolsTop(m, c) == {l.sym : l \in {o \in Active(m["."]) : ~Satisfied(m, c, ".", o)}}

\* The symbol behind the prefix; that of obj-y is empty.
get_impossible_symbols(m, c) == {l.sym : l \in Missing(m, c)}

-----------------------------------------------------------------------------
(* The stages of process().                                                *)

\* check_output_dir(), copy_files() / copy_git_files().
Copy ==
    /\ Goto("copy", "auto")
    /\ kc' = input.kconfig /\ mk' = input.make /\ code' = input.code
    /\ UNCHANGED <<disable, orig, locals>>

\* add_automatic_backports(): a BPAUTO_BUILD_FOO that no one selects is left
\* out; the others get their C files and their lines in compat/Makefile.
\* disable_list is then disabled in compat/Kconfig.
AddAutomaticBackports ==
    LET s == kc["compat/Kconfig"]
        bpi == get_backport_info(s)
        Off == {i \in DOMAIN bpi : s[i].v[1] = "BUILD"
                                   /\ <<"", s[i].v[2]>> \notin all_selects(kc)}
        On == DOMAIN bpi \ Off
    IN  /\ Goto("auto", "patch")
        /\ disable' = {s[i].v : i \in Off}
        /\ code' = code \union UNION {bpi[i] : i \in On}
        /\ mk' = [mk EXCEPT !["compat"] = @ \o SetToSeq(
                    {M("objs", "", NoSym, s[i].v[2]) : i \in {j \in On : IsTristate(s, j)}}
                    \union {M(IF IsTristate(s, i) THEN "obj" ELSE "compat", "CPTCFG",
                              s[i].v, s[i].v[2]) : i \in On})]
        /\ kc' = [kc EXCEPT !["compat/Kconfig"] =
                    FlattenSeq([i \in DOMAIN s |-> IF s[i].k = "config" /\ s[i].v \in disable'
                                                   THEN <<s[i], L("depends", <<"", "n">>)>>
                                                   ELSE <<s[i]>>])]
        /\ UNCHANGED <<orig, locals>>

\* apply_patches(): every patch applies; it may have changed a driver's
\* Kconfig, as far as the later stages can tell by dropping a line.
ApplyPatches ==
    /\ Goto("patch", "prune")
    /\ \/ kc' = kc
       \/ \E f \in DOMAIN kc \ {Root, "compat/Kconfig"} : \E i \in DOMAIN kc[f] :
            kc[f][i].k \in {"select", "source"} /\ kc' = [kc EXCEPT ![f] = RemoveAt(@, i)]
    /\ UNCHANGED <<mk, code, disable, orig, locals>>

\* return failure
PatchFails ==
    /\ Goto("patch", "failed")
    /\ UNCHANGED <<kc, mk, code, disable, orig, locals>>

\* orig_symbols = configtree.symbols(); prune_sources().
Prune ==
    /\ Goto("prune", "modular")
    /\ orig' = symbols(kc)
    /\ kc' = prune_sources(kc)
    /\ UNCHANGED <<mk, code, disable, locals>>

Modular ==
    /\ Goto("modular", "adjust")
    /\ kc' = force_tristate_modular(kc)
    /\ UNCHANGED <<mk, code, disable, orig, locals>>

Adjust ==
    /\ Goto("adjust", "selects")
    /\ kc' = adjust_backported_configs(kc)
    /\ UNCHANGED <<mk, code, disable, orig, locals>>

Selects ==
    /\ Goto("selects", "locals")
    /\ kc' = modify_selects(kc)
    /\ UNCHANGED <<mk, code, disable, orig, locals>>

\* symbols = configtree.symbols(), written to local-symbols and, each with a
\* BACKPORTED_ symbol, to Kconfig.local.
Locals ==
    /\ Goto("locals", "rename")
    /\ locals' = symbols(kc)
    /\ UNCHANGED <<kc, mk, code, disable, orig>>

\* Only the top Makefile is renamed.
RenameTopOnly ==
    /\ Goto("rename", "impossible")
    /\ mk' = [mk EXCEPT !["."] = [i \in DOMAIN @ |->
                IF @[i].pre = "CONFIG" /\ @[i].sym \in orig THEN [@[i] EXCEPT !.pre = "CPTCFG"] ELSE @[i]]]
    /\ UNCHANGED <<kc, code, disable, orig, locals>>

\* CONFIG_ becomes CPTCFG_ for the symbols that are ours.
Rename ==
    /\ Goto("rename", "impossible")
    /\ mk' = [d \in DOMAIN mk |-> [i \in DOMAIN mk[d] |->
                IF mk[d][i].pre = "CONFIG" /\ mk[d][i].sym \in orig
                THEN [mk[d][i] EXCEPT !.pre = "CPTCFG"] ELSE mk[d][i]]]
    /\ UNCHANGED <<kc, code, disable, orig, locals>>

\* disable_kconfig = disable_makefile = the impossible symbols.
Impossible ==
    /\ Goto("impossible", "versions")
    /\ disable' = get_impossible_symbols(mk, code)
    /\ kc' = disable_symbols(kc, disable')
    /\ UNCHANGED <<mk, code, orig, locals>>

Versions ==
    /\ Goto("versions", "makefiles")
    /\ kc' = add_dependencies(kc, input.deps)
    /\ UNCHANGED <<mk, code, disable, orig, locals>>

\* "^(([^#].*((CPTCFG_|CONFIG_)(A|B)))\W)" -> "#\1": [^#] also matches the end
\* of an empty line, so after one the "#" lands on the empty line.
Commented(s) ==
    LET Hit(i) == s[i].k \in {"obj", "compat"} /\ s[i].pre # "y" /\ s[i].sym \in disable
    IN  [i \in DOMAIN s |->
            IF Hit(i) /\ (i = 1 \/ s[i - 1].k # "blank") THEN [s[i] EXCEPT !.k = "off"]
            ELSE IF s[i].k = "blank" /\ i < Len(s) /\ Hit(i + 1) THEN [s[i] EXCEPT !.k = "off"]
            ELSE s[i]]

DisableMakefiles ==
    /\ Goto("makefiles", "done")
    /\ mk' = [d \in DOMAIN mk |-> IF d \in Makefiles(mk) THEN Commented(mk[d]) ELSE mk[d]]
    /\ UNCHANGED <<kc, code, disable, orig, locals>>

Next ==
    \/ Copy \/ AddAutomaticBackports \/ ApplyPatches \/ PatchFails \/ Prune \/ Modular
    \/ Adjust \/ Selects \/ Locals \/ Rename \/ Impossible \/ Versions \/ DisableMakefiles

Spec == Init /\ [][Next]_gvars

-----------------------------------------------------------------------------
Done == stage = "done"

\* The lines of a symbol's option in the walked files.
Options(s) ==
    UNION {{<<f, i>> : i \in {j \in DOMAIN kc[f] : kc[f][j] = L("config", s)}} : f \in Walk(kc)}
HasLine(o, l) == \E j \in Block(kc[o[1]], o[2]) : kc[o[1]][j] = l

\* An option that a user can select on some kernel.
Selectable(s) == Options(s) # {} /\ \A o \in Options(s) : ~HasLine(o, L("depends", <<"", "n">>))

\* No Kconfig file of the output refers to a file that does not exist, except
\* the ones that the build generates.
NoDanglingSource ==
    Done => \A f \in Walk(kc) : Sourced(kc[f]) \subseteq DOMAIN kc \union Ignored

\* Every "select FOO" of the output names an option of the output, and the
\* backported code of an option that a driver selects can be built: the
\* decision what to copy, made before the patches, agrees with the rewriting
\* of the selects after them.
SelectsAreServed ==
    Done => \A s \in UNION {Selected(kc[f]) : f \in Walk(kc)} :
        /\ s \in symbols(kc)
        /\ s[1] = "BPAUTO" /\ <<"BUILD", s[2]>> \in symbols(kc) => Selectable(<<"BUILD", s[2]>>)

\* What can be selected can be built: an option whose directory or C file was
\* not copied ends up with "depends on n".
SelectableIsBuildable ==
    Done => \A d \in Makefiles(mk) : \A l \in Lines(mk[d]) :
        l.k \in {"obj", "off"} /\ l.pre = "CPTCFG" /\ Selectable(l.sym) => Satisfied(mk, code, d, l)

\* The symbols that the build treats as its own (local-symbols) are the ones
\* its Kconfig files declare, and no Makefile refers to one of them by CONFIG_:
\* a kernel option of the same name cannot leak into the build.
NoKernelLeak ==
    Done => /\ locals = symbols(kc)
            /\ \A d \in Makefiles(mk) : \A l \in Lines(mk[d]) : l.pre = "CONFIG" => l.sym \notin locals

\* A Makefile line whose code is missing no longer recurses, unless it comes
\* right after an empty line: then the "#" is on that line.
RecursionDisabled ==
    Done => \A d \in Makefiles(mk) : \A i \in DOMAIN mk[d] :
        mk[d][i] \in Active(mk[d]) /\ mk[d][i].pre # "y" /\ ~Satisfied(mk, code, d, mk[d][i])
            => i > 1 /\ mk[d][i - 1] = M("off", "", NoSym, "")

\* The Kconfig files of the output are closed: what they source and what they
\* select exists, at every depth (kconfig.py:87-100, gentree.py:880-910).
NothingDangles == NoDanglingSource /\ SelectsAreServed

\* Kconfig and Makefiles of the output agree: what can be selected can be built,
\* with the options of the package and not those of the kernel, and the build
\* does not recurse into what is missing (gentree.py:980-1109).
BuildsWhatItOffers == SelectableIsBuildable /\ NoKernelLeak /\ RecursionDisabled
=============================================================================
