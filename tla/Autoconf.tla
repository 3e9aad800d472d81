------------------------------ MODULE Autoconf ------------------------------
(***************************************************************************)
(* What the configuration programs leave on the disk (kconf/confdata.c):   *)
(* conf_write() saves .config by way of a temporary file and two renames;  *)
(* conf_write_autoconf() touches a file per symbol that has changed and    *)
(* replaces autoconf.h, tristate.conf and auto.conf, in this order.  Any   *)
(* program may die between two steps.  The build is external: kbuild       *)
(* compiles when auto.conf is newer than .config, and compiles what uses a *)
(* symbol again when that symbol's file was touched.                       *)
(***************************************************************************)
EXTENDS Naturals, Sequences, FiniteSets

CONSTANTS Procs,    \* programs that may run at the same time
          Tris,     \* tristate symbols
          Strs,     \* string symbols
          Configs,  \* the configurations there may be: a value of each symbol
          Maker     \* the program that make starts
Opts == Tris \union Strs
ASSUME AutoAssumption == Maker \in Procs /\ "file" \notin Opts

VARIABLES disk,     \* .config, its .old, tmp[p], auto.conf, autoconf.h, tristate.conf
          progs,    \* what each program does, and the configuration it has in memory
          build,    \* touched: the symbols touched since their objects were compiled, obj:
                    \* what each object was compiled with, fresh: auto.conf is newer than .config
          saved     \* the configuration that was last saved
autoVars == <<disk, progs, build, saved>>

NONE == "none"              \* a symbol without SYMBOL_WRITE
NoFile == [file |-> "none"]
Cut == [file |-> "cut"]     \* a file that is not completely written
Idle == [at |-> "idle", vals |-> NoFile, todo |-> {}, files |-> <<>>]

-----------------------------------------------------------------------------
(* The printers *)
\* auto.conf does not say what is unset, and the header defines nothing for it.
kconfig_print_symbol(v) == IF v = "n" THEN NONE ELSE v
header_print_symbol(v) == CASE v \in {NONE, "n"} -> NONE [] v = "m" -> "_MODULE 1" [] v = "y" -> "1" [] OTHER -> v
tristate_print_symbol(s, v) ==
    CASE s \notin Tris \/ v \in {NONE, "n"} -> NONE [] v = "m" -> "M" [] v = "y" -> "Y"
AutoConf(vals) == [s \in Opts |-> kconfig_print_symbol(vals[s])]
Header(vals) == [s \in Opts |-> header_print_symbol(vals[s])]
Tristate(vals) == [s \in Opts |-> tristate_print_symbol(s, vals[s])]
FileOf(name, vals) ==
    CASE name = "header" -> Header(vals) [] name = "tristate" -> Tristate(vals) [] name = "auto" -> AutoConf(vals)

-----------------------------------------------------------------------------
(* conf_write() *)
At(p, at) == progs[p].at = at
Go(p, at) == progs' = [progs EXCEPT ![p].at = at]

\* A program that has a configuration to save opens its temporary file.
\* Bug: it writes to .config itself.
WriteOpenDirect(p, vals) ==
    /\ At(p, "idle")
    /\ progs' = [progs EXCEPT ![p] = [Idle EXCEPT !.at = "write", !.vals = vals]]
    /\ disk' = [disk EXCEPT !.tmp[p] = Cut, !.config = Cut]
    /\ UNCHANGED <<build, saved>>
WriteOpen(p, vals) ==
    /\ At(p, "idle")
    /\ progs' = [progs EXCEPT ![p] = [Idle EXCEPT !.at = "write", !.vals = vals]]
    /\ disk' = [disk EXCEPT !.tmp[p] = Cut]
    /\ UNCHANGED <<build, saved>>
WriteLines(p) ==
    /\ At(p, "write") /\ Go(p, "rename old")
    /\ disk' = [disk EXCEPT !.tmp[p] = progs[p].vals]
    /\ UNCHANGED <<build, saved>>
RenameOld(p) ==
    /\ At(p, "rename old") /\ Go(p, "rename new")
    /\ disk' = IF disk.config = NoFile THEN disk
               ELSE [disk EXCEPT !.old = disk.config, !.config = NoFile]
    /\ UNCHANGED <<build, saved>>
RenameNew(p) ==
    /\ At(p, "rename new")
    /\ disk' = [disk EXCEPT !.config = disk.tmp[p], !.tmp[p] = NoFile]
    /\ saved' = progs[p].vals
    /\ build' = [build EXCEPT !.fresh = FALSE]
    /\ progs' = [progs EXCEPT ![p] = Idle]

-----------------------------------------------------------------------------
(* conf --syncconfig, which make runs when auto.conf is not up to date *)
SyncRead ==
    /\ At(Maker, "idle") /\ ~build.fresh /\ disk.config \in Configs
    /\ progs' = [progs EXCEPT ![Maker] = [at |-> "split", vals |-> disk.config, todo |-> Opts, files |-> <<>>]]
    /\ UNCHANGED <<disk, build, saved>>

\* conf_split_config(): whether a symbol differs from what auto.conf says.
Old(s) == IF disk.auto = NoFile THEN NONE ELSE disk.auto[s]
Differs(s, v) ==
    IF v = NONE THEN Old(s) # NONE
    ELSE IF Old(s) # NONE THEN Old(s) # v ELSE v # "n"

\* The file of each symbol that differs is touched; it may not be possible.
SplitTouch(s) ==
    /\ At(Maker, "split") /\ s \in progs[Maker].todo
    /\ \/ /\ progs' = [progs EXCEPT ![Maker].todo = @ \ {s}]
          /\ build' = IF Differs(s, progs[Maker].vals[s])
                      THEN [build EXCEPT !.touched = @ \union {s}] ELSE build
       \/ /\ Differs(s, progs[Maker].vals[s])
          /\ progs' = [progs EXCEPT ![Maker] = Idle] /\ UNCHANGED build
    /\ UNCHANGED <<disk, saved>>

\* Bug: auto.conf is not the last one.
RenameOrderAutoFirst == <<"auto", "header", "tristate">>
RenameOrder == <<"header", "tristate", "auto">>
AutoWrite ==
    /\ At(Maker, "split") /\ progs[Maker].todo = {}
    /\ progs' = [progs EXCEPT ![Maker].at = "rename", ![Maker].files = RenameOrder]
    /\ UNCHANGED <<disk, build, saved>>

\* A rename, or it fails and the program ends.
AutoRename ==
    /\ At(Maker, "rename")
    /\ LET name == progs[Maker].files[1]
           rest == Tail(progs[Maker].files)
       IN  /\ disk' = [disk EXCEPT ![name] = FileOf(name, progs[Maker].vals)]
           /\ build' = IF name = "auto" THEN [build EXCEPT !.fresh = TRUE] ELSE build
           /\ progs' = [progs EXCEPT ![Maker] = IF rest = <<>> THEN Idle ELSE [@ EXCEPT !.files = rest]]
    /\ UNCHANGED saved

\* A program dies, wherever it is.  The temporary file it leaves has its pid in
\* the name and is never read.
Die(p) ==
    /\ ~At(p, "idle")
    /\ progs' = [progs EXCEPT ![p] = Idle]
    /\ disk' = [disk EXCEPT !.tmp[p] = NoFile]
    /\ UNCHANGED <<build, saved>>

\* kbuild compiles what uses s.
Compile(s) ==
    /\ At(Maker, "idle") /\ build.fresh /\ disk.config # NoFile
    /\ s \in build.touched \/ build.obj[s] = <<>>
    /\ build' = [build EXCEPT !.obj[s] = <<disk.header[s], disk.tristate[s]>>, !.touched = @ \ {s}]
    /\ UNCHANGED <<disk, progs, saved>>

AutoInit ==
    /\ disk = [config |-> NoFile, old |-> NoFile, tmp |-> [p \in Procs |-> NoFile], auto |-> NoFile,
               header |-> NoFile, tristate |-> NoFile]
    /\ progs = [p \in Procs |-> Idle]
    /\ build = [touched |-> {}, obj |-> [s \in Opts |-> <<>>], fresh |-> FALSE]
    /\ saved = NoFile
AutoNext ==
    \/ \E p \in Procs : WriteLines(p) \/ RenameOld(p) \/ RenameNew(p) \/ Die(p)
    \/ \E p \in Procs, vals \in Configs : WriteOpen(p, vals)
    \/ SyncRead \/ AutoWrite \/ AutoRename
    \/ \E s \in Opts : SplitTouch(s) \/ Compile(s)

AutoSpec == AutoInit /\ [][AutoNext]_autoVars

-----------------------------------------------------------------------------
\* The configuration that was last saved is not lost, whoever dies where: it is
\* in .config, or in .config.old as long as there is no .config
\* (confdata.c:820-830).
ConfigSurvives ==
    \/ disk.config = saved
    \/ disk.config = NoFile /\ disk.old = saved

\* "This must be the last step, kbuild has a dependency on auto.conf and this
\* marks the successful completion of the previous steps" (confdata.c:1023):
\* once auto.conf is up to date nothing that is not going to be compiled again
\* was compiled with other values than the headers have, and these have the
\* values of the configuration that auto.conf says.
NoStaleObject ==
    build.fresh /\ At(Maker, "idle") => \A s \in Opts :
        /\ NoFile \notin {disk.header, disk.tristate}
        /\ disk.header[s] = header_print_symbol(disk.auto[s])
        /\ disk.tristate[s] = tristate_print_symbol(s, disk.auto[s])
        /\ s \notin build.touched /\ build.obj[s] # <<>> =>
              build.obj[s] = <<disk.header[s], disk.tristate[s]>>
=============================================================================
