# Formal models of the Linux backports package

This directory holds TLA+ models of the Linux backports project: the generator
that turns a kernel tree into a package of backported drivers, the tracker that
runs it over a kernel's history, the configuration programs shipped with the
package, and the compat code that is compiled into it.  TLC checks every module
on small instances (`*.cfg`); TLAPS proves the theorems of the `*Proofs` modules
for every value of the constants.

    tlc -workers 2 -config WaitWoken.cfg WaitWoken     # one run
    tlapm WaitWokenProofs.tla                          # the proofs of one module

`PROJECT.json` lists components, runs, mutants, hazards, findings, theorems and,
for every definition that stands for code, the lines it stands for.

## Inventory

| part | state | operations | what is hard |
|---|---|---|---|
| `wait_woken()` (compat/backport-3.19.c) | task state, wait entry flag | wait, wake, stop | lost wake-ups, memory order |
| git tracker (devel/git-tracker.py) | the tags of each output branch's HEAD | one run over all branches | crashes, failing generations, a moving kernel |
| `ida_simple_get()` (compat/compat-3.1.c) | an ida and its memory reserve | get, remove | retry, give-back inside the lock |
| workqueue names (compat/compat-3.3.c) | a list of names by address | alloc, destroy | address reuse |
| PHY, PCI and I2C registers (compat/backport-4.10.c, compat-3.7.c, compat-3.4.c) | registers of the device | get and set settings, read, write, clear and set | failed and short accesses, bits left by earlier settings |
| interrupt vectors, virtual functions (compat/backport-4.8.c, 3.14.c, 3.10.c) | vectors enabled, references | allocate, count | other devices and guests in between |
| thermal zones, managed resources (compat/backport-4.3.c, compat-3.5.c, ...) | a wrapper per zone, a list per device | register, call, release | calls under way while the zone goes, failures half way |
| TSO and scatterlists (compat/backport-4.4.c, compat-3.9.c, backport-4.2.c, ...) | an iterator | next segment, next page, copy, forward | borders of fragments, pages and entries; wrap |
| skbs and sockets (compat/backport-3.18.c, compat-3.3.c) | references | clone, report, copy | the socket is closed meanwhile |
| random key, counters (compat/backport-3.13.c, linux/u64_stats_sync.h) | a key and a flag; two words and a sequence | draw once, count, read | first users at the same time, torn reads |
| buffers (compat/backport-4.0.c, 4.3.c, 4.6.c, 4.8.c, 3.18.c) | none | dump, parse, copy | lengths at their limits |
| generic netlink (compat/backport-genetlink.c) | registered operations, an extack per request | register, pre_doit, doit, post_doit, multicast | two acknowledgement paths, races with registration, failing clones |
| netlink attributes (compat/backport-5.2.c, net/netlink.h) | none | validate, parse, put | malformed streams, alignment, modes of strictness |
| package generation (gentree.py, lib/kconfig.py, lib/make.py) | the output tree | the stages of `process()` | decisions of one stage that a later one must agree with |
| kconf expressions and menus (kconf/expr.c, menu.c) | expression trees, the menu tree | simplify, `menu_finalize()` | rewriting to a fix point, relinking a tree while walking it |
| kconf symbols (kconf/symbol.c, confdata.c) | user and calculated values, .config | calculate, set, read, write, minimise, check for recursion | choices, flags that a calculation changes, ranges, round trips |
| kconf files (kconf/confdata.c) | .config, auto.conf, headers, a file per option | save, sync | crashes between renames, two programs and a build |
| conf and menuconfig (kconf/conf.c, mconf.c) | calls in progress, trail, changes | ask, walk menus, search, load, save, exit | the tree changes while it is walked; unsaved changes |
| dialogs (kconf/lxdialog) | cursor, scroll, screen | keys | partial repainting, counting lines backwards |
| kconf parser (zconf.y, zconf.l) | - | parse | a generated grammar |
| signature verification (compat/verification) | numbers, RSA keys, digests, a key ring | arithmetic, sign, verify, look up | aliasing, failing allocations, blinding, lengths, references |
| other compat functions, one file per kernel release | mostly none | copies of later kernel functions | - |
| header shims (backport-include) | none | select an API by version | decided by the preprocessor |
| tools (devel/ckmake, ...), patches, Coccinelle scripts | - | wrappers and data | - |

How they interact: the tracker calls `gentree.process()` once per kernel commit
and keeps its own state in the commits it pushes.  `process()` writes a tree
with the compat code, kconf and rewritten Kconfig files and Makefiles in it.
A user of the package runs kconf over those Kconfig files; make reads what kconf
saves.  The drivers call the compat functions, concurrently, from the
kernel.  Between these parts nothing but files is shared; inside the kernel, wait
queues, the ida, the list of workqueue names, the netlink family and thermal zones
are shared by tasks.

What makes each part correct:

- waiting: no event and no stop request is missed, a wait ends;
- tracker: the tags tell what the tree was made from, the tree only advances, the
  shortlogs of successive commits leave nothing out, every branch catches up;
- ida: it behaves like one atomic allocator;
- workqueue names: one entry per workqueue, none lost, none leaked;
- registers: what was set comes back, nothing else changes, and a success means
  that it was done;
- zones, managed resources, sockets: nothing is used after it is gone, everything
  is released once;
- segments, pages and buffers: every byte once and in order, within the size given;
- keys and counters: all readers see one value, and whole;
- netlink: every request is answered once, hooks run in pairs, error paths give back all
  but the copy of a registration's operations (which the code never frees),
  a message that is accepted is what its policy promises, a multicast
  frees its message once;
- generation: what can be selected can be built, and nothing refers to
  code or options that are not there;
- kconf: rewriting keeps the meaning of dependencies, values and files
  round-trip, a choice has one value, a saved configuration survives a crash, a
  build is never made of stale objects, every symbol can be reached or is asked
  for, and what is highlighted is what is taken;
- verification: the arithmetic is exact, the halves of a key undo each other, only the
  one encoding of a digest is accepted, a digest does not depend on how
  the message was cut, a key lives as long as someone holds it.

## Modules and the code

**WaitWoken** (compat/backport-3.19.c).  One action per memory access of
`wait_woken()` and `woken_wake_function()`.  `woken`, `state`, `cond` and
`stop` are memory; `buf` and `sbuf` hold stores that have not reached it:
plain stores of the condition and the flag drain late, in the order the barriers
leave.  The wait queue's spinlock, `schedule_timeout()`, `try_to_wake_up()` and
`kthread_stop()` are external.

**GitTracker** (devel/git-tracker.py).  A run is `Start`, then for each
branch `OpenBranch` and one of `UpToDate`, `HandleHeadOnly` and the loop
(`StartLoop`, `HandleCommit`, `Push`, `Advance`), with the exits
`TooManyCommits` and `UnknownCommit`.  A commit is a record of its tags
(`rev`, `kernel`, `failed`, `last`) and of what its tree really is (`tk`, `tr`,
`from`).  The kernel moves at any time, the backports tree between runs, a
run dies between any two steps (`Crash`).  Which generations fail is an input.
The text of the messages is left out.

### compat/

**IdaSimple** (compat-3.1.c) has both functions step by step, with the lock and
the reserve of `ida_pre_get()` that another caller may use up.  **IdAllocator**
is what the comment of the functions promises: one step from request to answer.
`IdaSimple!Abs` maps one to the other: the ids held are those set in the ida but
for the ones found too large and still to be given back.

**WqNames** (compat-3.3.c): `backport_alloc_workqueue()` and
`backport_destroy_workqueue()` by tasks that share `wq_name_list`.  Addresses of
workqueues and of names are model values that are reused once freed.

**Registers**: the link settings of a PHY that negotiates by itself
(backport-4.10.c, linux/mii.h), where a register is a set of bits, bits that are not
the functions' business included; the accessors of the PCI Express
capability for two tasks (compat-3.7.c), with registers a device does not have and
accesses that fail, clear-and-set in two steps; `pci_alloc_irq_vectors()` with the loops
of `pci_enable_msix_range()` and `pci_enable_msi_range()` (backport-4.8.c,
backport-3.14.c), while other devices take vectors between the tries; the walk of
`pci_vfs_assigned()` (backport-3.10.c) while guests take and give back functions; and
register maps over I2C (compat-3.4.c) whose transfers stop anywhere.

**Lifetimes**: the wrapper of a thermal zone's operations (backport-4.3.c) from
registration to the end of unregister, while the core polls and sysfs is read, with
temperatures of the two widths of the code; and the devm_ functions for GPIOs, register
maps, LED triggers, hwmon devices and actions (compat-3.4.c, compat-3.5.c,
backport-3.10.c, backport-3.13.c, backport-4.5.c), called in any order, failing at each
step, until the device is detached.

**Net**: `tso_start()`, `tso_build_hdr()` and `tso_build_data()` (backport-4.4.c) under
the loop of a driver, sequence numbers and ids wrapping; `net_get_random_once()` and
`netdev_rss_key_fill()` (backport-3.13.c, backport-3.19.c, linux/net.h) by several
tasks; `u64_stats_sync` (linux/u64_stats_sync.h) with a writer, and readers on
another CPU or in an interrupt, one action per word read or written, for each
configuration the header tells apart; `skb_clone_sk()` and `skb_complete_wifi_ack()`
(backport-3.18.c) against the closing of the socket; and `__pskb_copy()` (compat-3.3.c).

**Scatter** (compat-3.9.c, compat-3.7.c, backport-3.11.c, backport-4.7.c,
backport-4.2.c): the page iterator, the mapping iterator with partial use,
`sg_copy_buffer()`, the tables of a device coredump, and the lists of an AEAD request
that is converted for an old kernel.

**Buffers**: hex dumps into a row and into a seq_file that starts again with more space
(backport-4.0.c, backport-4.3.c), texts that become flags and bounded copies
(backport-4.6.c, compat-3.0.c), CDC descriptors (backport-4.8.c), the length of a frame's
headers (backport-3.18.c) and the MAC address of a device (backport-4.3.c).

**Genetlink** (backport-genetlink.c): `backport_genl_register_family()` and
the wrappers of pre_doit, doit and post_doit, for three generations of kernels.
The copy of the operations that a registration allocates is `copy_ops`; no action frees
it, as no line of the file does, and `ErrorsLeaveOnlyTheCopy` allows that alone to be left.
**GenlContract** states what a family may expect of the core for each
request; `Genetlink` implements it (`ContractSpec`).  **GenlMcast**: the multicast
functions, with the walk over the namespaces under RCU one step behind, clones
that fail, and namespaces that come and go.  **NlAttr** (backport-5.2.c,
backport-4.7.c, net/netlink.h): messages are sequences of bytes; a driver puts
attributes (nested, padded for 64 bits, with too little room), or user space
sends any bytes, and one of the entry points parses them against a policy.

**Bignum** (verification/bignum.c) has the functions of mbedtls's big numbers on
sequences of limbs, as operators: every limb loop, carry and allocation of the
code is there, with the width of a limb as a constant.  **MpiCalls** is a program
that calls them on shared objects, source and destination the same or not, with
an allocator that fails after a budget.  **Rsa** (rsa.c): keys, their checks, blinding
with its cached pair, public and private operations.  **Pkcs1** (asn1parse.c, rsa.c,
md.c, oid.c): the readers of DER over every small change of some encodings; signing,
verifying, encrypting and decrypting with PKCS#1 v1.5 padding and near misses of it.  **Digest** (sha256.c, md.c, md_wrap.c): the streaming digest and HMAC
over an uninterpreted compression function.  **KeyRing** (key.c, public_key.c,
verify.c): references, the ring's list as pointers in memory that is freed, the look-up of
a key and the end of a ring key by key, and the checks around a signature.  The code
takes no lock here: callers make one call at a time.

### kconf/

**KconfExpr** (expr.c) is the expression algebra as operators.
**KconfMenu** (menu.c) is `menu_finalize()` with an explicit stack: one
frame per call, one action per phase of it.

**KconfSym** (symbol.c, confdata.c, conf.c): `mem` is the state of all symbols in
a running menuconfig, `file` is .config.  `Load`, `SetValue`, `Save` and `Quit`
are a session; `Olddefconfig`, `Savedefconfig`, `Defconfig` and
`AllConfig` are whole runs of conf.  Values are calculated for all symbols in menu
order instead of on demand; the inputs have each symbol behind the ones it
mentions, so both orders meet the same values.

**KconfCheck** (symbol.c, confdata.c, mconf.c): the values of string, int and hex
symbols as texts, with ranges that name other symbols, from the dialog to the file
and back; and `sym_check_deps()` as it searches the dependencies of all symbols,
its stack frames, and its walk through choices.

The last part of **KconfSym** (menu.c, symbol.c) is what the programs ask of the menu
tree.  **Conf** (conf.c): oldaskconfig, oldconfig, syncconfig and listnewconfig with their
recursion as a stack, since the tree changes between the questions.  **Mconf**
(mconf.c): open menus, choices, searches and file dialogs as a stack, with the
trail of titles, loading, saving and the ways out.  **Dialogs** are the dialogs with what
is painted on their rows: those that choose (menubox.c, checklist.c, yesno.c, util.c) and
those that show or take text (textbox.c, inputbox.c).  An initial text of more than
`MAX_LEN` characters overruns the buffer of the input box: it may be intact behind the
buffer, or anything may follow (`Undefined`, where `FieldShowsTheLine` says nothing).

**Autoconf** (confdata.c, conf.c): saving .config and writing auto.conf, the headers and a
file per option, rename by rename, by several programs that may die at any point, while a
build compiles what looks out of date.

### Generator

**Gentree** (gentree.py, lib/kconfig.py, lib/make.py): one action per stage of
`process()` for a package.  Lines of Kconfig files and Makefiles are records,
symbols are pairs of a prefix and a name; the regular expressions are modelled by the
lines they match.  `Copy` and `ApplyPatches` take their result from the input.

### Compositions

`MC*` modules define the inputs of a run.  `MCCompat`, `MCNetlink`, `MCVerification`,
`MCKconfPrograms` and `MCKconfFiles` hold several components that share no
state: a variable (`part`, `program`) says which of them a behaviour is about,
and the others rest in one of their initial states.  A property of such a run speaks of
one component, or is the conjunction of what they promise together.

## Runs

| run | instance | checks |
|---|---|---|
| `wait_woken` | two wakers, a stopper, a timed wait of a kthread | `NoLostWakeup`, `NoLostStop`, `WaitsEnd` |
| `git_tracker` | 2 branches, up to 5 kernel commits, 2 backports revisions, MAX_COMMITS 3, one crash, up to 2 failing generations | `TagsTellTheTree`, `TreeNeverGoesBack`, `HistoryGoesOn`, `Follows` |
| `compat` | 3 callers, ids 0..1, three ranges; 3 tasks, 2 addresses, 4 names; a PHY with and without gigabit and partners with 5 sets of modes; each type of PCIe function with two tasks of two calls on 4 sets of registers; up to 3 vectors of each kind; 3 virtual functions; a map of 2 registers; two users of a zone, int of 3 bits; 6 managed resources; skbs of up to 3 fragments of 3 bytes in segments of up to `MaxMss` = 3; lists of up to 3 entries on pages of 3 bytes; buffers of the sizes at which the code branches | `OneOwner`, `Atomic`, `RegistersAsAsked`, `ReleasedOnceUnused`, `EveryByteOnce`, `SharedValuesWhole` |
| `genetlink` | 2 requests, 2 operations, 1 group, all kernels; messages of up to two attributes and a rest, nested once; 4 namespaces | `ContractSpec`, `Answered`, `ErrorsLeaveOnlyTheCopy`, `ValidationHolds`, `SentIsParsed`, `MulticastOnce` |
| `gentree` | small source trees with each kind of missing file | `NothingDangles`, `BuildsWhatItOffers` |
| `kconf_menu` | some 5900 trees of four entries | `ConditionsKeepTheirMeaning`, `EntriesStayInView` |
| `kconf_sym` | 72 Kconfig inputs, every .config they may find, two settings per session | `SavedComesBack`, `OneChosen`, `FilesAgree` |
| `kconf_programs` | Kconfig inputs with menus, menuconfig entries and choices; dialogs of up to 6 items on up to 5 rows; texts of up to 6 characters, initial ones of up to `MaxOverrun` = 2 more than the field's `MAX_LEN` | `NothingNewIsLeft`, `MenusLeadEverywhere`, `NothingLostSilently`, `ScreenTellsTheChoice`, `WindowsShowTheText` |
| `kconf_files` | two programs, one of them started by make, three configurations; graphs of up to 3 dependencies among 5 symbols with a choice; a string, two ints and a hex with ranges | `ConfigSurvives`, `NoStaleObject`, `RecursionReported`, `ValuesSurvive` |
| `verification` | limbs of 4 bits, numbers of up to 3 limbs; keys modulo 55 and 77; blocks of 12 to 25 bytes; digest blocks of 8 bytes with a 5-bit counter; 2 keys on a ring | `MpiArithmetic`, `KeyHalvesMatch`, `OnlyTheEncoding`, `DigestOfTheWhole`, `KeysOutliveTheRing` |
| `wq_names_free` | 2 tasks, 1 address, 2 names | `NameOutlivesQueue` is violated |
| `kconf_savedefconfig` | the inputs with an optional choice | `DefconfigSkipsRedundant` is violated |

Why the bounds are enough to meet the cases that matter:

- `wait_woken`: with two wakers one can be in the lock while the other's stores
  are still on the way; the proofs cover any number.
- `git_tracker`: five commits exceed MAX_COMMITS, two failures make a failure
  followed by a failure and by a success, the second branch shows what
  an early exit does to the next one; the proofs cover all numbers.
- `compat`: three callers of the ida take each other's reserve, and the ranges are an
  unlimited one, one of a single id below the top, and an empty one.  Reuse of
  a workqueue's address needs one destroyer and one creator.  Two tasks lose each
  other's PCIe update.  Three fragments put a whole fragment into a segment
  and a segment into a fragment; sequence numbers start two below the wrap.
  An entry of five bytes at offset one covers three pages of three.  Two managed GPIOs
  are freed in the order they were requested and in the other one.  The sizes of dumps,
  descriptors and frames are those of the structures and one less and more.
- `genetlink`: a second request and a second operation let a request run while
  the registration of the next operation fails.  One attribute in front
  of another one, or of bytes that are none, is what the loops of validation tell
  apart; all types of policies occur.  Four namespaces let one go and one come behind the
  walk.
- `kconf_menu`: four entries give a block in a block with entries before and
  behind it, and two dependencies that are joined.
- `kconf_sym`: a select, an imply or a default each meets every dependency; a choice
  has two values, of which one may be hidden; two settings undo or overtake each other.
- `kconf_programs`: three open menus are a menu, one below it and a search in it; six
  items on three rows scroll twice; hot keys occur once and several times.
- `kconf_files`: two programs meet between any two of their renames; the proofs
  cover any number.  Three dependencies close a cycle through a choice and one
  of its values.
- `verification`: three limbs of four bits have a middle limb, carries into a new
  limb, and the cases of the division's estimate; digests cross one and
  two blocks, with the length in the same and in the next one, and wrap the counter.

`CHECK_DEADLOCK FALSE` is set where the system ends: a program that has
returned, a family that has been unregistered with all requests answered, a
finished `process()`.

### Fairness

- `WaitWoken`: weak fairness of the running waiter, of each waker once it is in
  `wake_up()`, and of stores reaching memory (a store buffer drains); strong
  fairness of taking the spinlock, which is a ticket lock on the kernels
  concerned.  No fairness of the timer and none of a waker starting: the waits end
  by their wake-ups.
- `GitTracker`: weak fairness of the tracker's steps, as it is a periodic job.
  Crashes are bounded, so a run finally completes.
- `Genetlink`: weak fairness of a registration and of each request in progress: they
  are straight-line code.

## What the runs found

- `wq_names_free`: `backport_destroy_workqueue()` frees the workqueue before it
  looks for its name; a workqueue created at the same address in between loses
  its name.
- `kconf_savedefconfig`: `savedefconfig` on a .config that lacks a value of an
  optional choice loses the choice, since calculating a choice changes the flag
  that the next calculation starts from.  `DefconfigComesBack` (in `FilesAgree`), the
  same property for a .config that is up to date, holds.

Seen while modelling; the properties except these cases, or the inputs leave them out:

Tracker and generator
- git-tracker.py:60 compares a lower-cased line with an upper-case `I`: a message
  with a Change-Id gets a second one.
- git-tracker.py:105: after two failures of a new branch, `-last-success` names a
  revision that no tree was generated from.
- git-tracker.py:274: a branch that is more than MAX_COMMITS behind is never
  updated again, and `sys.exit()` keeps later branches from their turn; `Follows`
  excepts the branches from the first such one on.
- gentree.py:1100: `[^#]` also matches the newline of an empty line, so a
  Makefile line with missing code behind an empty line stays active
  (`RecursionDisabled` says which).  `sym + '='` matches longer symbols in a
  defconfig (1011); `obj-y` of a missing directory is not disabled; `select FOO
  if BAR` is not seen as a select (lib/kconfig.py:11).

compat
- backport-genetlink.c:229: the copy of the operations is never freed: not when the real
  registration fails (282-283), not at the label for errors (302-304), and not
  when the family is unregistered (309).  `Genetlink` has this leak as it is, and
  `ErrorsLeaveOnlyTheCopy` excepts it by name.
- backport-genetlink.c:279: from 3.13 on, a request can be handled before
  `family->id` has been copied back.  `genlmsg_multicast*()` and
  `genl_notify()` with an invalid group leave the message to the caller.
- backport-5.2.c: a negative minimum against a 64-bit value refuses everything, a
  maximum above 32767 does not fit its s16; strict `nla_validate_nested()`
  does not look at the outer NLA_F_NESTED; `nlmsg_parse()` does not check the
  header's length.
- backport-4.10.c: settings keep the pause bits; a PHY without gigabit that is
  asked for gigabit modes only accepts, and advertises nothing.
- compat-3.7.c: the case label for the flags register is the mask of the type,
  so that register reads as 0; in a dword the PDS bit is not shifted;
  clear-and-set is not atomic, so of two concurrent ones one can be lost.
- compat-3.9.c:26: `devm_ioremap_resource()` is renamed on both sides by device.h:53
  and calls itself.
- backport-4.3.c:161: an error pointer from the old registration leaks the
  wrapper.
- backport-4.0.c:115: `linebuflen < lx + 3` lets the blank behind a byte be the last
  character of the buffer; when the next byte does not fit, the NUL goes to
  `linebuf[linebuflen]`.  `DumpsAreWhole` allows that one character.
- backport-3.18.c:57: `max_len` minus the size of a header is unsigned, so a frame that is
  shorter than a header passes the test; `HeadersFound` bounds the answer for
  frames of 40 bytes and more.
- backport-3.13.c:130: an error of `hwmon_device_register()` is written through
  before the caller tests it.
- backport-4.8.c: a short MBIM extended descriptor is counted.
- compat-3.3.c: where header positions are pointers `copy_skb_header()` moves them with
  the data; where they are offsets from the head they are right only
  with the headroom of the original.
- backport-4.7.c: `devcd_free_sgtable()` frees the first page of an entry only.
- key.c: `find_asymmetric_key()` compares `id_0` with the second id of a key;
  `bp_key_create_or_update()` returns NULL when no key can be allocated, and
  leaks the certificate.
- bignum.c: `gcd(A, 0)` is 0; the remainder of a number by an int beyond half a limb is
  wrong; a quotient in the place of a negative dividend is wrong; a remainder in
  the place of the divisor does not end; a negative base to the power 0 gives N;
  operands that were never grown are dereferenced by some functions.  No caller in
  the package does any of these.
- rsa.c: a preparation of the blinding that failed half way leaves a pair that
  does not cancel (signing checks its result); the length byte of the NULL
  parameters is not compared.
- sha256.c: one update of 2^32 bytes loses a carry.  "sha1" is a known digest that
  is never compiled.

kconf
- menu.c:463: the "superset" test of `menu_finalize()` compares negations
  after turning `!A` into `A=n` (expr.c:907), and can hide an entry that is
  visible while A is m; the inputs of `kconf_menu` have no such negation.
- A tristate choice in mode m with all values n is not kept by .config;
  a tristate choice with bool values loses its mode in savedefconfig; an imply
  may exceed a direct dependency of m.
- confdata.c: write errors are not noticed; with KCONFIG_OVERWRITECONFIG there is
  no backup; a .config saved while syncconfig runs looks built.  An
  int without any value is written `CONFIG_X=` and read as invalid.
- symbol.c: setting a text equal to an old, reset one does not
  recalculate; a cycle that is printed is not counted as an error by
  `conf_parse()`.
- conf.c: at the end of the input a question for an int without valid default
  repeats for ever; a remembered but invisible choice value is replaced by
  the default.
- mconf.c:964: after ESC in the exit dialog of a SIGINT the session is
  given up; `save_and_exit` and `child_count` are never reset; a load that fails
  clears the count of changes; the jump to a value of a choice opens a list
  that shows the choice only.
- inputbox.c:56: `strcpy(instr, init)` does not look at the size of `dialog_input_result`,
  `MAX_LEN + 1` characters (24), and mconf.c hands it a symbol's value (883) and the
  name of a file (907, 934), which can be longer: what lies behind the buffer is
  overwritten.  The keys never make a text longer (198).
- checklist.c:245: a choice without a visible entry opens a checklist without items
  (mconf.c:813), in which Down moves the highlight over blank rows; the
  model's lists have an item.
- lxdialog: after a resize the screen shows button 0; `print_position()` divides by
  the length of an empty text; a last line without newline is not shown.
- The Makefile's silentoldconfig target calls conf with an option it does not
  know.

## What is proved

`WaitWokenProofs`, for any set of wakers: `TypeCorrect`,
`WaitWokenMissesNoEvent` (`NoLostWakeup`) and `WaitWokenMissesNoStop`
(`NoLostStop`).  `NoLostWakeup` is not inductive.  `IInv` adds who
holds the lock (`LockInv`), that a waker in the lock has a queued entry
(`EntryInv`), which stores can still be delayed at each point of a waker
(`BufferInv`), and that a waiter past its check of the condition will see the
flag or be woken (`FlagInv`).

`GitTrackerProofs`, from `GitTrackerAssumption` and `InputsAssumption` (all
bounds natural numbers, any failures): `TypeCorrect`, `TagsAreHonest`,
`TreeOnlyAdvances`, `ShortlogsAlwaysMeet`, `FailuresNotRepeated` and, from the last
two, `HistoryAlwaysGoesOn`.
The inductive invariant `IInv` is `TypeOK` with `HeadInv` (what every
pushed commit satisfies), `LoopInv` (where the loop is, relative to the clone's
HEAD), `CommitInv`, `PushInv` (what a commit made but not pushed satisfies) and
`NextInv`.  It is needed because the properties speak of pushed commits only,
while a commit is made from what an earlier run left in the tags.

`CompatProofs` first has the ida, from `IdaAssumption` (the `BUG_ON(end < start)`):
`TypeCorrect`, `EveryIdOwnedOnce` (`OneOwner`) and `ImplementsIdAllocator`
(`Atomic`): every step is a step of `IdAllocator` or a stutter; `IdsHold` says the
same of the run in which all compat parts are.  The invariant
has that the critical sections hold the lock (`LockInv`) and what `id` and `ret`
are at each point of a call (`Holding`): at most one id is set but not yet
handed out, the one that the mapping hides.

`AutoconfProofs`, for any programs, symbols and configurations:
`ConfigSurvivesTheorem` and `NoStaleObjectTheorem`.  The second says something
about up to date files only, while a program that dies leaves others.  `IInv` adds
that a temporary file is complete before it is renamed (`TmpInv`), that what
differs from auto.conf is touched before any file is replaced (`SplitInv`),
which files are already the new ones (`RenameInv`), that an up to date auto.conf
agrees with the headers (`FreshInv`), and, the heart of it, that an object whose
symbol is not touched has the values of auto.conf whether that is up to date or
not (`ObjInv`).

`NetlinkProofs`, for any requests, operations and groups on the three generations of
kernels, from `GenlAssumption`: `TypesHold`, `ErrorPathsHold` (`ErrorsLeaveOnlyTheCopy`)
and `WrappersImplementContract` (`ContractSpec`): every step is a step of
`GenlContract` or a stutter.  The invariant `GInv` has what a registration has linked at
each point (`RegistrationOK`) and, for each request, what its hooks, its extack and
its answer are in each phase, which is not the same on the kernels that send the
acknowledgement themselves (`RequestsOK`).  For any namespaces, from `McAssumption`
(their addresses are not the head of the list, the first namespace never goes):
`MulticastHolds` (`MulticastOnce`).  `McInv` adds that the list leads from
every entry, also one that was unlinked during the walk, to those still to come
(`McListOK`), and that the walk is one entry behind, with nobody tried twice
(`McWalkOK`).

The rest of `CompatProofs`, for any tasks, users, resources, addresses and names: `SharedValues`
(`SharedValuesWhole`) and `Released` (`ReleasedOnceUnused`).  The parts of `MCCompat`
share no state, so that `CompatInv` is one invariant for each:

- `OnceInv`: the key is drawn before anyone is past the test (`DrawnOnce`); with no
  static key each call has a draw of its own (`DrawnEach`).
- `StatsInv`: the count that the words are on the way to lies between what it was when
  the reader began and what it is (`ReaderInv`); with a sequence, if it is even and what
  it was, no word has changed since (`SeqInv`); on one processor the reader excludes the
  update (`OffInv`); and with long words there is nothing to tear (`LongInv`).
- `SkInv`: a socket's references are those of the user, of the clone and of the call
  (`SkRefs`).  `SkbInv`: those of a copy of an skb (`SkbRefs`).
- `ZoneInv`: a call is under way only while the wrapper is there, and a temperature
  that fits is the driver's, for any width of int (`WidthAssumption`: the laws
  of powers for that width, which the prover does not know).
- `ResInv`: the nodes of a device are its resources, one each, in any order of calls.
- `WqInv`: an address has as many entries as live workqueues and unfinished
  destroyers (`EntriesInv`), counted as names where `OneEntryPerQueue` counts places
  in the list: the same number, since no name is linked twice (`NamesInv`); and a
  workqueue between its allocation and its entry is not a driver's yet (`QueuesInv`).
  `CompatAssumption`: NULL is no address.

`RegistersHold` (`RegistersAsAsked`), in `CompatProofs` from the lemmas of
`CompatLemmas`, is for any settings, partners, tasks, calls, offsets, vectors,
devices, registers and values; `RegistersAssumption` only types the constants.  The
parts are again invariants of their own:

- `MiiInv`: what get has read so far is what the PHY still says, or the PHY has changed
  (`ReadIsCurrent`); an answer is that of the registers as they were read
  (`AnswerIsCurrent`); and the registers hold the settings last taken
  (`SettingsHold`).  `BestIsCommon` says that the mode found is the best of those that
  both sides advertise.
- `PcieInv`: what a task has read but not yet written back (`TasksPending`), each bit is
  as it was or as some call asked (`BitsHold`), and a call that failed, or whose register
  the function has not, answers zeros and the presence of a card (`AnswerHolds`).  `FlagsAgree` relates the registers that a
  function has to its flags register.
- `IrqInv`: what a try was granted lies between what the driver needs and what it asks
  for (`RoundKeeps`).
- `VfInv`: the walk holds one reference, on the device it stands on (`VfWalk`), and has
  counted between the guests' devices that were theirs all along and those that ever
  were, among the devices passed (`VfCount`).
- `I2cInv`: of a transfer that went through, all words are in place (`StoredWhole`).

`BytesHandled` (`EveryByteOnce`), in `CompatProofs` from the lemmas of `CompatLemmas`, is
for payloads, lists, pages, buffers, descriptors and texts of any length.
`NetAssumption` bounds nothing but that sequence numbers have a width;
`ScatterAssumption` says that an entry begins in its first page, which the code takes
for granted (`sg_page()` and an offset within it); `BuffersAssumption` only types the
inputs.  What is right is said by recursive functions and by `FlattenSeq`, so that the
lemmas need induction over data.  The prover cannot instantiate the library's induction
theorem, whose parameter is a predicate, but a set will do in its place: `Inductive` says
that a set with 0 and every successor has all numbers, and follows from
`NatLessThanWellFounded`; `Recursion` gives the recursive functions their existence.
The invariants are

- `TsoHolds`: what has been sent is the payload up to the byte where the iterator stands
  (`InTheSkb`, `TsoCounted`), segments are full but for the last one
  (`SegmentsFull`), and sequence numbers, ids and flags are those that the bytes before
  each packet give (`PacketHolds`), modulo the width;
- `SgHolds`: what a walk that takes any part of each piece has seen are the bytes in
  front of the iterator (`IterateHolds`); a copy takes them from the byte asked for
  on, to the end of the piece that the iterator has in hand (`SkipHolds`, `CopyHolds`); a converted
  request has the bytes behind the associated data, whichever entry they begin in
  (`EndHolds`); and of a coredump all pages are freed, once, before their tables
  (`TablesHold`);
- `BufHolds`, per job: the rows of a dump follow each other and their text fits
  (`DumpHolds`); a descriptor found is a whole one of its kind, the first or the last of them as the
  code has it (`CdcHolds`); the headers' length is within the frame
  (`FrameHolds`).

`VerificationProofs`: `DigestHolds` (`DigestOfTheWhole`), from `DigestAssumption`, which
the real sizes satisfy (blocks of 64 bytes, a length field of 8, words of 32 bits,
HighMod 2^29): an update is shorter than 2^32 bytes, and a message shorter than
2^61.  The argument is `ChopConcat`, how the blocks of two sequences follow from those of
the first, of what it leaves over and of the second; with it, each way through `update`
takes a context that was fed s to one that was fed s and the input (`Fed`, `Update`).
`Carry` and `BitsOf` are the two words of the counter and the length in bits made
from them, `PadUnique` says that there is one padding.  `MdInv` is inductive: an open
context has been fed the inner pad and the message (`Streams`), and the pads are those
of the key (`PadsOfTheKey`).

`KeysHeld` (`KeysOutliveTheRing`), in the same module, is for any keys, identifiers and
number of references; `KeyRingAssumption` says that the ring is no key and that no node is
the poison of `list_del()`.  That every key is on the ring would need an induction along
the links; `OneCircle` says it without: no set of living nodes but all of them leads only to
itself.  `ListAdd` and `ListDel` keep that, and that the links lead back (`Paired`).
`CountInv` has the references, and `WalkInv` that the keys whose reference of the ring
is still to be put are those between the loop's cursor and the ring.

`GentreeProofs`, for any source trees with any files missing, any patches of the kind
that `ApplyPatches` makes and any dependencies: `NothingDanglesHolds`
(`NothingDangles`) and `BuildsWhatItOffersHolds` (`BuildsWhatItOffers`).
`GentreeAssumption` has the shape of the input: finitely many files, the two Kconfig
files and two Makefiles that the package ships, no Kconfig file that ends in a config
line.  `NamesAssumption` is what the naming scheme promises, and what compat/Kconfig,
compat/Makefile and the file "dependencies" of the repository keep to:
`BPAUTO_BUILD_` options are declared in compat/Kconfig only and have no obj line; what is
selected as `BPAUTO_FOO` outright (`PKCS7`, ...) has no `BPAUTO_BUILD_FOO`; no line there
is "depends on n" from the start, and no Makefile line is commented out.  Were it
otherwise, an option that a driver selects could be off by hand, and the properties false.

The properties speak of the end, the stages before prepare it: `IInv` says for each
stage what the later ones rely on.

- Until the selects are rewritten nothing is selected that the source tree does not
  select, and an option that is off is one that nobody asked for (`Early`); then
  what is selected exists and none of it is off (`Closed`).  This is where the decision of
  `add_automatic_backports()`, made before the patches, meets `modify_selects()`: a
  patch may take a select away, so that the code of an option is there for nothing, but
  never adds one.
- What is sourced exists, and no stage adds an option (`Grounded`): every symbol was
  in `orig_symbols` when the Makefiles were renamed, so that none of them keeps
  `CONFIG_` (`OwnNames`).
- From `Impossible` on every option whose code is missing has "depends on n" in its own block
  (`OffWhere`), wherever the stages in between have moved its lines.

The lemmas follow the lines of a file through a rewriting loop: `PartsOf` says which
line of the new file comes from which of the old one, `OwnedEdited` and `OffEdited`
that a line "depends on n" stays with its option when lines are added
and config lines in front of one another are dropped.  The walks (`Walks`, `FindsFiles`) are
recursive functions over the number of files, and exist by the same induction over a
set as in `CompatLemmas`.

The invariants were checked by TLC on the instances of the runs before they were proved.

Only model-checked:

- liveness (`WaitsEnd`, `Follows`, `Answered`), which TLAPS does not reach;
- everything about expressions, menus and symbols of kconf, numbers,
  RSA and DER, and netlink attributes: what they say is about recursive operators
  (trees, limbs, nested streams), which the provers do not read;
- the configuration programs and the dialogs: their properties
  compare what a whole run did with folds and searches over its inputs; they are
  within reach of the induction that `CompatLemmas` uses, but have not been proved.

## What is not modelled

- `KconfMenu`: inferred types of choices (menu.c:310-326), `visible if` (147-169),
  symbols defined in several places, warnings.  `SubmenuHidesNothing` is
  restricted to values without unmet dependencies.
- kconf: randconfig, KCONFIG_ALLCONFIG seeds, help texts, geometry and colours of
  the dialogs, the parser (a generated grammar).
- `Gentree`: integration into a kernel tree, defconfigs, the inside of
  `apply_patches()` with `--refresh`; lib/patch.py is third-party code.
- `Genetlink`: dumps and the content of replies.
- The tracker is assumed to run once at a time.
- Verification: primes and key generation, the compression function of sha256, and
  the grammars of X.509 and PKCS#7, which are generated tables.
- Other compat functions: wrappers of one call, clock arithmetic, formatting and look-ups
  without state (backport-3.2.c, 3.12.c, 3.15.c, 3.17.c, 4.1.c, 4.18.c, 5.5.c,
  compat-3.6.c, user_namespace.c, most of compat-3.8.c).
  Header shims are decided by the preprocessor.  Tools are
  wrappers, patches and Coccinelle scripts are data.

## Plan

Done, in this order: WaitWoken, GitTracker, IdaSimple with IdAllocator, WqNames,
Genetlink with GenlContract, Gentree, KconfExpr, KconfMenu, KconfSym; the verification
modules; the dialogs, conf and menuconfig; Autoconf and KconfCheck; NlAttr and
GenlMcast; the remaining compat modules; and the proofs of WaitWoken, GitTracker,
IdaSimple, Autoconf, Genetlink, GenlMcast, WqNames, Lifetimes, Net, Digest, Registers,
KeyRing, Scatter, Buffers and Gentree.

Next, most important first:

1. Gentree: integration mode and the steps of `apply_patches()`.
2. Proofs of `ScreenTellsTheChoice` and `RecursionReported`, whose searches would have to
   be written as recursive functions first.
3. Delayed work: `mod_delayed_work()` (compat-3.7.c).
4. randconfig's loop until nothing changes, and seeds.
