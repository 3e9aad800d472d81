--------------------------- MODULE AutoconfProofs ---------------------------
(***************************************************************************)
(* For any number of programs, any symbols and any configurations: the     *)
(* configuration that was saved last survives the programs that die, and   *)
(* no object is left that was compiled with other values.                  *)
(***************************************************************************)
EXTENDS Autoconf, TLAPS

Places == {"idle", "write", "rename old", "rename new", "split", "rename"}
AutoFiles == {AutoConf(v) : v \in Configs}
Headers == {Header(v) : v \in Configs}
Tristates == {Tristate(v) : v \in Configs}
Files == Configs \union {NoFile, Cut}
Lists == {<<>>, <<"header", "tristate", "auto">>, <<"tristate", "auto">>, <<"auto">>}
Compiled == {<<header_print_symbol(v[s]), tristate_print_symbol(s, v[s])>> : s \in Opts, v \in Configs}
Prog == [at : Places, vals : Configs \union {NoFile}, todo : SUBSET Opts, files : Lists]
Disk == [config : Files, old : Files, tmp : [Procs -> Files], auto : AutoFiles \union {NoFile},
         header : Headers \union {NoFile}, tristate : Tristates \union {NoFile}]

AutoTypeOK ==
    /\ disk \in Disk
    /\ progs \in [Procs -> Prog]
    /\ build.touched \in SUBSET Opts /\ build.fresh \in BOOLEAN
    /\ build = [touched |-> build.touched, obj |-> build.obj, fresh |-> build.fresh]
    /\ build.obj = [s \in Opts |-> build.obj[s]]

\* What is renamed to .config is complete, and is what is saved then.
TmpInv ==
    \A p \in Procs : progs[p].at \in {"rename old", "rename new"} => disk.tmp[p] = progs[p].vals

\* Once a symbol was looked at, it is touched if it differs from auto.conf; no
\* file is up to date as long as make's program is at work.
SplitInv ==
    progs[Maker].at \in {"split", "rename"} =>
        /\ ~build.fresh /\ progs[Maker].vals \in Configs
        /\ \A s \in Opts \ progs[Maker].todo : Differs(s, progs[Maker].vals[s]) => s \in build.touched
\* The files that were replaced are those of the configuration in memory.
RenameInv ==
    progs[Maker].at = "rename" =>
        /\ progs[Maker].todo = {} /\ progs[Maker].files # <<>>
        /\ Len(progs[Maker].files) < 3 => disk.header = Header(progs[Maker].vals)
        /\ Len(progs[Maker].files) < 2 => disk.tristate = Tristate(progs[Maker].vals)
\* An up to date auto.conf says what the headers say.
FreshInv ==
    build.fresh =>
        /\ disk.auto \in AutoFiles /\ disk.header \in Headers /\ disk.tristate \in Tristates
        /\ \A s \in Opts : /\ disk.header[s] = header_print_symbol(disk.auto[s])
                           /\ disk.tristate[s] = tristate_print_symbol(s, disk.auto[s])
\* An object that is not compiled again has the values of auto.conf, up to date
\* or not.
ObjInv ==
    \A s \in Opts : s \notin build.touched /\ build.obj[s] # <<>> =>
        /\ disk.auto \in AutoFiles
        /\ build.obj[s] = <<header_print_symbol(disk.auto[s]), tristate_print_symbol(s, disk.auto[s])>>

IInv == AutoTypeOK /\ ConfigSurvives /\ TmpInv /\ SplitInv /\ RenameInv /\ FreshInv /\ ObjInv

-----------------------------------------------------------------------------
\* auto.conf leaves out what the header and tristate.conf leave out too.
LEMMA PrintersAgree ==
    ASSUME NEW s, NEW v
    PROVE  /\ header_print_symbol(kconfig_print_symbol(v)) = header_print_symbol(v)
           /\ tristate_print_symbol(s, kconfig_print_symbol(v)) = tristate_print_symbol(s, v)
BY DEF header_print_symbol, kconfig_print_symbol, tristate_print_symbol, NONE

\* No complete auto.conf looks like a missing one.
LEMMA AutoIsAFile == ASSUME NEW v PROVE AutoConf(v) # NoFile /\ Header(v) # NoFile /\ Tristate(v) # NoFile
<1>1. DOMAIN NoFile = {"file"}
    BY DEF NoFile
<1>2. DOMAIN AutoConf(v) = Opts /\ DOMAIN Header(v) = Opts /\ DOMAIN Tristate(v) = Opts
    BY DEF AutoConf, Header, Tristate
<1>. QED
    BY <1>1, <1>2, AutoAssumption

\* A symbol that does not differ has the same line in the new auto.conf.
LEMMA SameLine ==
    ASSUME NEW s \in Opts, NEW v \in Configs, disk.auto \in AutoFiles, ~Differs(s, v[s])
    PROVE  AutoConf(v)[s] = disk.auto[s]
<1>1. PICK w \in Configs : disk.auto = AutoConf(w)
    BY DEF AutoFiles
<1>2. disk.auto # NoFile
    BY <1>1, AutoIsAFile
<1>3. disk.auto[s] = kconfig_print_symbol(w[s])
    BY <1>1 DEF AutoConf
<1>4. AutoConf(v)[s] = kconfig_print_symbol(v[s])
    BY DEF AutoConf
<1>. QED
    BY <1>2, <1>3, <1>4 DEF Differs, Old, kconfig_print_symbol, NONE

LEMMA AutoInitIInv == AutoInit => IInv
<1> SUFFICES ASSUME AutoInit PROVE IInv
    OBVIOUS
<1> USE AutoAssumption DEF AutoInit
<1>1. AutoTypeOK
    BY DEF AutoTypeOK, Disk, Prog, Files, Places, Lists, Idle
<1>2. ConfigSurvives /\ TmpInv /\ SplitInv /\ RenameInv /\ FreshInv /\ ObjInv
    BY DEF ConfigSurvives, TmpInv, SplitInv, RenameInv, FreshInv, ObjInv, Idle
<1>. QED
    BY <1>1, <1>2 DEF IInv

LEMMA WriteOpenIInv == ASSUME IInv, NEW p \in Procs, NEW vals \in Configs, WriteOpen(p, vals) PROVE IInv'
<1> USE AutoAssumption DEF IInv, WriteOpen, At, Idle
<1>1. AutoTypeOK'
    BY DEF AutoTypeOK, Disk, Prog, Files, Places, Lists
<1>2. ConfigSurvives' /\ TmpInv'
    BY DEF AutoTypeOK, Disk, Prog, ConfigSurvives, TmpInv
<1>3. SplitInv' /\ RenameInv'
    BY DEF AutoTypeOK, Disk, Prog, SplitInv, RenameInv, Differs, Old
<1>4. FreshInv' /\ ObjInv'
    BY DEF AutoTypeOK, Disk, Prog, FreshInv, ObjInv
<1>. QED
    BY <1>1, <1>2, <1>3, <1>4

LEMMA WriteLinesIInv == ASSUME IInv, NEW p \in Procs, WriteLines(p) PROVE IInv'
<1> USE AutoAssumption DEF IInv, WriteLines, At, Go
<1>1. AutoTypeOK'
    BY ZenonT(60) DEF AutoTypeOK, Disk, Prog, Files, Places
<1>2. ConfigSurvives' /\ TmpInv'
    BY ZenonT(60) DEF AutoTypeOK, Disk, Prog, ConfigSurvives, TmpInv
<1>3. SplitInv' /\ RenameInv'
    BY DEF AutoTypeOK, Disk, Prog, SplitInv, RenameInv, Differs, Old
<1>4. FreshInv' /\ ObjInv'
    BY DEF AutoTypeOK, Disk, Prog, FreshInv, ObjInv
<1>. QED
    BY <1>1, <1>2, <1>3, <1>4

LEMMA RenameOldIInv == ASSUME IInv, NEW p \in Procs, RenameOld(p) PROVE IInv'
<1> USE AutoAssumption DEF IInv, RenameOld, At, Go
<1>1. AutoTypeOK'
    BY ZenonT(60) DEF AutoTypeOK, Disk, Prog, Files, Places
<1>2. ConfigSurvives' /\ TmpInv'
    BY ZenonT(60) DEF AutoTypeOK, Disk, Prog, ConfigSurvives, TmpInv
<1>3. SplitInv' /\ RenameInv'
    BY ZenonT(60) DEF AutoTypeOK, Disk, Prog, SplitInv, RenameInv, Differs, Old
<1>4. FreshInv' /\ ObjInv'
    BY DEF AutoTypeOK, Disk, Prog, FreshInv, ObjInv
<1>. QED
    BY <1>1, <1>2, <1>3, <1>4

LEMMA RenameNewIInv == ASSUME IInv, NEW p \in Procs, RenameNew(p) PROVE IInv'
<1> USE AutoAssumption DEF IInv, RenameNew, At, Idle
<1>1. AutoTypeOK'
    BY DEF AutoTypeOK, Disk, Prog, Files, Places, Lists
<1>2. ConfigSurvives' /\ TmpInv'
    BY DEF AutoTypeOK, Disk, Prog, ConfigSurvives, TmpInv
<1>3. SplitInv' /\ RenameInv'
    BY DEF AutoTypeOK, Disk, Prog, SplitInv, RenameInv, Differs, Old
<1>4. FreshInv' /\ ObjInv'
    BY DEF AutoTypeOK, Disk, Prog, FreshInv, ObjInv
<1>. QED
    BY <1>1, <1>2, <1>3, <1>4

LEMMA SyncReadIInv == ASSUME IInv, SyncRead PROVE IInv'
<1> USE AutoAssumption DEF IInv, SyncRead, At
<1>1. AutoTypeOK'
    BY DEF AutoTypeOK, Disk, Prog, Files, Places, Lists
<1>2. ConfigSurvives' /\ TmpInv'
    BY DEF AutoTypeOK, Disk, Prog, ConfigSurvives, TmpInv
<1>3. SplitInv' /\ RenameInv'
    BY DEF AutoTypeOK, Disk, Prog, SplitInv, RenameInv, Differs, Old
<1>4. FreshInv' /\ ObjInv'
    BY DEF AutoTypeOK, Disk, Prog, FreshInv, ObjInv
<1>. QED
    BY <1>1, <1>2, <1>3, <1>4

LEMMA SplitTouchIInv == ASSUME IInv, NEW s \in Opts, SplitTouch(s) PROVE IInv'
<1> USE AutoAssumption DEF IInv, SplitTouch, At, Idle
<1>1. AutoTypeOK'
    <2>1. progs' \in [Procs -> Prog]
        <3>1. Idle \in Prog
            BY DEF Prog, Places, Lists
        <3>2. CASE progs' = [progs EXCEPT ![Maker].todo = @ \ {s}]
            <4>1. [progs[Maker] EXCEPT !.todo = @ \ {s}] \in Prog
                BY DEF AutoTypeOK, Prog
            <4>. QED
                BY <3>2, <4>1 DEF AutoTypeOK
        <3>3. CASE progs' = [progs EXCEPT ![Maker] = Idle]
            BY <3>1, <3>3 DEF AutoTypeOK
        <3>. QED
            BY <3>2, <3>3
    <2>2. build' = build \/ build' = [build EXCEPT !.touched = @ \union {s}]
        OBVIOUS
    <2>. QED
        BY <2>1, <2>2 DEF AutoTypeOK
<1>2. ConfigSurvives' /\ TmpInv'
    <2>1. \A p \in Procs : p # Maker => progs'[p] = progs[p]
        BY DEF AutoTypeOK
    <2>2. progs'[Maker].at \in {"split", "idle"}
        BY DEF AutoTypeOK, Prog
    <2>. QED
        BY <2>1, <2>2 DEF ConfigSurvives, TmpInv
<1>3. SplitInv' /\ RenameInv'
    BY DEF AutoTypeOK, Disk, Prog, SplitInv, RenameInv, Differs, Old
<1>4. FreshInv' /\ ObjInv'
    BY DEF AutoTypeOK, Disk, Prog, FreshInv, ObjInv
<1>. QED
    BY <1>1, <1>2, <1>3, <1>4

LEMMA AutoWriteIInv == ASSUME IInv, AutoWrite PROVE IInv'
<1> USE AutoAssumption DEF IInv, AutoWrite, At, RenameOrder
<1>1. AutoTypeOK'
    <2>1. [progs[Maker] EXCEPT !.at = "rename", !.files = RenameOrder] \in Prog
        BY DEF AutoTypeOK, Prog, Places, Lists
    <2>2. progs' \in [Procs -> Prog]
        BY <2>1 DEF AutoTypeOK
    <2>. QED
        BY <2>2 DEF AutoTypeOK
<1>2. ConfigSurvives' /\ TmpInv'
    <2>1. \A p \in Procs : p # Maker => progs'[p] = progs[p]
        BY DEF AutoTypeOK
    <2>2. progs'[Maker].at = "rename"
        BY DEF AutoTypeOK
    <2>. QED
        BY <2>1, <2>2 DEF ConfigSurvives, TmpInv
<1>3. SplitInv' /\ RenameInv'
    BY DEF AutoTypeOK, Disk, Prog, SplitInv, RenameInv, Differs, Old
<1>4. FreshInv' /\ ObjInv'
    BY DEF AutoTypeOK, Disk, Prog, FreshInv, ObjInv
<1>. QED
    BY <1>1, <1>2, <1>3, <1>4

LEMMA DieIInv == ASSUME IInv, NEW p \in Procs, Die(p) PROVE IInv'
<1> USE AutoAssumption DEF IInv, Die, At, Idle
<1>1. AutoTypeOK'
    BY DEF AutoTypeOK, Disk, Prog, Files, Places, Lists
<1>2. ConfigSurvives' /\ TmpInv'
    BY DEF AutoTypeOK, Disk, Prog, ConfigSurvives, TmpInv
<1>3. SplitInv' /\ RenameInv'
    BY DEF AutoTypeOK, Disk, Prog, SplitInv, RenameInv, Differs, Old
<1>4. FreshInv' /\ ObjInv'
    BY DEF AutoTypeOK, Disk, Prog, FreshInv, ObjInv
<1>. QED
    BY <1>1, <1>2, <1>3, <1>4

LEMMA CompileIInv == ASSUME IInv, NEW s \in Opts, Compile(s) PROVE IInv'
<1> USE AutoAssumption DEF IInv, Compile, At
<1>1. AutoTypeOK'
    BY DEF AutoTypeOK
<1>2. ConfigSurvives' /\ TmpInv'
    BY DEF AutoTypeOK, Disk, Prog, ConfigSurvives, TmpInv
<1>3. SplitInv' /\ RenameInv'
    BY DEF AutoTypeOK, Disk, Prog, SplitInv, RenameInv, Differs, Old
<1>4. FreshInv' /\ ObjInv'
    BY DEF AutoTypeOK, Disk, Prog, FreshInv, ObjInv
<1>. QED
    BY <1>1, <1>2, <1>3, <1>4

\* Of the three renames the last one, of auto.conf, makes it up to date: a
\* symbol that is not touched has the line it had.
LEMMA AutoRenameIInv == ASSUME IInv, AutoRename PROVE IInv'
<1> USE AutoAssumption DEF IInv, AutoRename, At, Idle
<1> DEFINE m == progs[Maker]
<1>0. /\ m.vals \in Configs /\ ~build.fresh /\ m.at = "rename"
      /\ \A s \in Opts : Differs(s, m.vals[s]) => s \in build.touched
    BY DEF SplitInv, RenameInv
<1>1. CASE m.files = <<"header", "tristate", "auto">>
    <2>1. /\ disk' = [disk EXCEPT !.header = Header(m.vals)]
          /\ build' = build
          /\ progs' = [progs EXCEPT ![Maker].files = <<"tristate", "auto">>]
          /\ saved' = saved
        <3>1. m.files[1] = "header" /\ Tail(m.files) = <<"tristate", "auto">> /\ Tail(m.files) # <<>>
            BY <1>1
        <3>. QED
            BY <3>1 DEF FileOf
    <2> HIDE DEF AutoRename
    <2>2. AutoTypeOK'
        <3>1. disk' \in Disk
            BY <1>0, <2>1 DEF AutoTypeOK, Disk, Headers
        <3>2. [progs[Maker] EXCEPT !.files = <<"tristate", "auto">>] \in Prog
            BY DEF AutoTypeOK, Prog, Lists
        <3>3. progs' \in [Procs -> Prog]
            BY <2>1, <3>2 DEF AutoTypeOK
        <3>. QED
            BY <2>1, <3>1, <3>3 DEF AutoTypeOK
    <2>3. ConfigSurvives' /\ TmpInv'
        <3>1. \A p \in Procs : p # Maker => progs'[p] = progs[p]
            BY <2>1 DEF AutoTypeOK
        <3>2. progs'[Maker].at = "rename"
            BY <1>0, <2>1 DEF AutoTypeOK, Prog
        <3>3. disk'.tmp = disk.tmp /\ disk'.config = disk.config /\ disk'.old = disk.old
            BY <2>1 DEF AutoTypeOK, Disk
        <3>. QED
            BY <2>1, <3>1, <3>2, <3>3 DEF ConfigSurvives, TmpInv
    <2>4. SplitInv' /\ RenameInv'
        <3>1. progs'[Maker] = [m EXCEPT !.files = <<"tristate", "auto">>] /\ m \in Prog
            BY <2>1 DEF AutoTypeOK
        <3>2. /\ progs'[Maker].at = "rename" /\ progs'[Maker].vals = m.vals /\ progs'[Maker].todo = m.todo
              /\ progs'[Maker].files = <<"tristate", "auto">>
            BY <1>0, <3>1 DEF Prog
        <3>3. Len(progs'[Maker].files) = 2 /\ progs'[Maker].files # <<>> /\ m.todo = {}
            BY <1>0, <3>2 DEF RenameInv
        <3>4. disk'.auto = disk.auto
            BY <2>1 DEF AutoTypeOK, Disk
        <3>5. SplitInv'
            BY <1>0, <2>1, <3>2, <3>4 DEF SplitInv, Differs, Old
        <3>6. disk'.header = Header(m.vals)
            BY <2>1 DEF AutoTypeOK, Disk
        <3>. QED
            BY <3>2, <3>5, <3>6, <3>3 DEF RenameInv
    <2>5. FreshInv' /\ ObjInv'
        <3>1. disk'.auto = disk.auto
            BY <2>1 DEF AutoTypeOK, Disk
        <3>. QED
            BY <1>0, <2>1, <3>1 DEF FreshInv, ObjInv
    <2>. QED
        BY <2>2, <2>3, <2>4, <2>5
<1>2. CASE m.files = <<"tristate", "auto">>
    <2>1. /\ disk' = [disk EXCEPT !.tristate = Tristate(m.vals)]
          /\ build' = build
          /\ progs' = [progs EXCEPT ![Maker].files = <<"auto">>]
          /\ saved' = saved
        <3>1. m.files[1] = "tristate" /\ Tail(m.files) = <<"auto">> /\ Tail(m.files) # <<>>
            BY <1>2
        <3>. QED
            BY <3>1 DEF FileOf
    <2> HIDE DEF AutoRename
    <2>2. AutoTypeOK'
        <3>1. disk' \in Disk
            BY <1>0, <2>1 DEF AutoTypeOK, Disk, Tristates
        <3>2. [progs[Maker] EXCEPT !.files = <<"auto">>] \in Prog
            BY DEF AutoTypeOK, Prog, Lists
        <3>3. progs' \in [Procs -> Prog]
            BY <2>1, <3>2 DEF AutoTypeOK
        <3>. QED
            BY <2>1, <3>1, <3>3 DEF AutoTypeOK
    <2>3. ConfigSurvives' /\ TmpInv'
        <3>1. \A p \in Procs : p # Maker => progs'[p] = progs[p]
            BY <2>1 DEF AutoTypeOK
        <3>2. progs'[Maker].at = "rename"
            BY <1>0, <2>1 DEF AutoTypeOK, Prog
        <3>3. disk'.tmp = disk.tmp /\ disk'.config = disk.config /\ disk'.old = disk.old
            BY <2>1 DEF AutoTypeOK, Disk
        <3>. QED
            BY <2>1, <3>1, <3>2, <3>3 DEF ConfigSurvives, TmpInv
    <2>4. SplitInv' /\ RenameInv'
        <3>1. progs'[Maker] = [m EXCEPT !.files = <<"auto">>] /\ m \in Prog
            BY <2>1 DEF AutoTypeOK
        <3>2. /\ progs'[Maker].at = "rename" /\ progs'[Maker].vals = m.vals /\ progs'[Maker].todo = m.todo
              /\ progs'[Maker].files = <<"auto">>
            BY <1>0, <3>1 DEF Prog
        <3>3. Len(progs'[Maker].files) = 1 /\ progs'[Maker].files # <<>> /\ m.todo = {}
            BY <1>0, <3>2 DEF RenameInv
        <3>4. disk'.auto = disk.auto
            BY <2>1 DEF AutoTypeOK, Disk
        <3>5. SplitInv'
            BY <1>0, <2>1, <3>2, <3>4 DEF SplitInv, Differs, Old
        <3>6. disk'.header = Header(m.vals) /\ disk'.tristate = Tristate(m.vals)
            BY <1>0, <1>2, <2>1 DEF AutoTypeOK, Disk, RenameInv
        <3>. QED
            BY <3>2, <3>5, <3>6, <3>3 DEF RenameInv
    <2>5. FreshInv' /\ ObjInv'
        <3>1. disk'.auto = disk.auto
            BY <2>1 DEF AutoTypeOK, Disk
        <3>. QED
            BY <1>0, <2>1, <3>1 DEF FreshInv, ObjInv
    <2>. QED
        BY <2>2, <2>3, <2>4, <2>5
<1>3. CASE m.files = <<"auto">>
    <2>1. /\ disk' = [disk EXCEPT !.auto = AutoConf(m.vals)]
          /\ build' = [build EXCEPT !.fresh = TRUE]
          /\ progs' = [progs EXCEPT ![Maker] = Idle]
        <3>1. m.files[1] = "auto" /\ Tail(m.files) = <<>>
            BY <1>3
        <3>. QED
            BY <3>1 DEF FileOf
    <2>2. AutoTypeOK'
        <3>1. disk' \in Disk
            BY <1>0, <2>1 DEF AutoTypeOK, Disk, AutoFiles
        <3>2. Idle \in Prog
            BY DEF Prog, Places, Lists
        <3>3. progs' \in [Procs -> Prog]
            BY <2>1, <3>2 DEF AutoTypeOK
        <3>. QED
            BY <2>1, <3>1, <3>3 DEF AutoTypeOK
    <2>3. ConfigSurvives' /\ TmpInv'
        <3>1. \A p \in Procs : p # Maker => progs'[p] = progs[p]
            BY <2>1 DEF AutoTypeOK
        <3>2. progs'[Maker].at = "idle"
            BY <2>1 DEF AutoTypeOK
        <3>3. disk'.tmp = disk.tmp /\ disk'.config = disk.config /\ disk'.old = disk.old
            BY <2>1 DEF AutoTypeOK, Disk
        <3>. QED
            BY <3>1, <3>2, <3>3 DEF ConfigSurvives, TmpInv
    <2>4. SplitInv' /\ RenameInv'
        BY <2>1 DEF AutoTypeOK, SplitInv, RenameInv
    <2>5. disk'.auto = AutoConf(m.vals) /\ disk'.auto \in AutoFiles
        BY <1>0, <2>1 DEF AutoTypeOK, Disk, Prog, AutoFiles
    <2>6. FreshInv'
        <3>1. disk'.header = Header(m.vals) /\ disk'.tristate = Tristate(m.vals)
            BY <1>0, <1>3, <2>1 DEF RenameInv, AutoTypeOK
        <3>2. \A s \in Opts : /\ disk'.header[s] = header_print_symbol(m.vals[s])
                              /\ disk'.tristate[s] = tristate_print_symbol(s, m.vals[s])
                              /\ disk'.auto[s] = kconfig_print_symbol(m.vals[s])
            BY <3>1, <2>5 DEF Header, Tristate, AutoConf
        <3>. QED
            BY <1>0, <2>5, <3>1, <3>2, PrintersAgree DEF FreshInv, Headers, Tristates
    <2>7. ObjInv'
        <3> SUFFICES ASSUME NEW s \in Opts, s \notin build.touched, build.obj[s] # <<>>
                     PROVE  build.obj[s] = <<header_print_symbol(disk'.auto[s]),
                                             tristate_print_symbol(s, disk'.auto[s])>>
            BY <2>1, <2>5 DEF ObjInv, AutoTypeOK
        <3>1. disk.auto \in AutoFiles /\ ~Differs(s, m.vals[s])
            BY <1>0 DEF ObjInv
        <3>2. disk'.auto[s] = disk.auto[s]
            BY <1>0, <2>5, <3>1, SameLine
        <3>. QED
            BY <3>2 DEF ObjInv
    <2>. QED
        BY <2>2, <2>3, <2>4, <2>6, <2>7
<1>. QED
    BY <1>0, <1>1, <1>2, <1>3 DEF RenameInv, AutoTypeOK, Prog, Lists

LEMMA AutoStepIInv == IInv /\ [AutoNext]_autoVars => IInv'
<1> SUFFICES ASSUME IInv, [AutoNext]_autoVars PROVE IInv'
    OBVIOUS
<1>1. CASE UNCHANGED autoVars
    <2>1. AutoTypeOK' /\ ConfigSurvives' /\ TmpInv'
        BY <1>1 DEF IInv, autoVars, AutoTypeOK, ConfigSurvives, TmpInv
    <2>2. SplitInv' /\ RenameInv' /\ FreshInv' /\ ObjInv'
        BY <1>1 DEF IInv, autoVars, SplitInv, RenameInv, FreshInv, ObjInv, Differs, Old
    <2>. QED
        BY <2>1, <2>2 DEF IInv
<1>. QED
    BY <1>1, WriteOpenIInv, WriteLinesIInv, RenameOldIInv, RenameNewIInv, SyncReadIInv, SplitTouchIInv,
       AutoWriteIInv, AutoRenameIInv, DieIInv, CompileIInv DEF AutoNext

LEMMA AutoIInv == AutoSpec => []IInv
<1>. QED
    BY AutoInitIInv, AutoStepIInv, PTL DEF AutoSpec

-----------------------------------------------------------------------------
\* Whatever programs save, and wherever they die, the configuration that was
\* saved last is in .config or, without one, in .config.old (conf_write()).
THEOREM ConfigSurvivesTheorem == AutoSpec => []ConfigSurvives
<1>1. IInv => ConfigSurvives
    BY DEF IInv
<1>. QED
    BY <1>1, AutoIInv, PTL

\* conf_split_config() and the order of the renames in conf_write_autoconf():
\* an object that is not compiled again has the values of the headers.
THEOREM NoStaleObjectTheorem == AutoSpec => []NoStaleObject
<1>1. ASSUME IInv PROVE NoStaleObject
    <2>1. build.fresh => disk.header # NoFile /\ disk.tristate # NoFile
        BY <1>1, AutoIsAFile DEF IInv, FreshInv, Headers, Tristates
    <2>. QED
        BY <1>1, <2>1 DEF IInv, FreshInv, ObjInv, NoStaleObject
<1>. QED
    BY <1>1, AutoIInv, PTL
=============================================================================
