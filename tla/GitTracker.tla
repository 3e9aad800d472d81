----------------------------- MODULE GitTracker -----------------------------
(***************************************************************************)
(* devel/git-tracker.py: for every configured branch, an output branch     *)
(* follows the input kernel branch, one output commit per kernel commit.   *)
(* The program keeps no state between runs except the x-git-tracker- tags  *)
(* in the message of the output branch's HEAD, and it can be killed, or    *)
(* fail in any git command, between any two steps.                         *)
(*                                                                         *)
(* Kernel commits of a branch are 1..MaxKernel in first-parent order;      *)
(* revisions of the backports tree are 1..MaxRev; 0 is "no such tag".      *)
(***************************************************************************)
EXTENDS Integers

CONSTANTS
    NB,             \* number of configured branches, processed in order
    MaxKernel,      \* bound: kernel commits per branch
    Heads,          \* bound: kernel commits of each branch
    MaxRev,         \* bound: revisions of the backports tree
    MaxCommits,     \* MAX_COMMITS
    MaxCrashes,     \* bound: runs that die half way
    Failing         \* the sets of generations that may fail

ASSUME GitTrackerAssumption ==
    /\ NB \in Nat /\ MaxCommits \in Nat /\ MaxCrashes \in Nat
    /\ MaxKernel \in Nat \ {0} /\ MaxRev \in Nat \ {0}

Branches == 1..NB

\* Which generations fail depends on the two revisions only.
FailureSets == SUBSET (Branches \X (1..MaxKernel) \X (1..MaxRev))

ASSUME InputsAssumption ==
    /\ Heads \in [Branches -> 1..MaxKernel]
    /\ Failing \subseteq FailureSets

VARIABLES
    khead,      \* input: head of each kernel branch
    srcrev,     \* input: HEAD of the backports tree
    bad,        \* input: <<branch, kernel, rev>> gentree.process() fails for
    head,       \* the output repository: HEAD of each branch
    pc,         \* where the running tracker is, "idle" between runs
    cur,        \* the branch being processed
    rev,        \* backport_rev, read once per run
    fetched,    \* what update_cache_objects() fetched of each kernel branch
    work,       \* HEAD of the working clone of the output branch
    mode,       \* one handle_commit() call, or the loop over commits
    commit,     \* the kernel revision being handled
    kernel_head,
    prev,       \* prev of the loop, and handle_commit's prev_kernel_rev
    catch_up_from_failure,
    crashes

inputs == <<khead, srcrev, bad>>
locals == <<cur, rev, fetched, work, mode, commit, kernel_head, prev, catch_up_from_failure>>
gvars == <<inputs, head, pc, locals, crashes>>

\* An output commit: its tags (rev = 0: none), the kernel revision and the
\* backports revision its tree was generated from (0: never generated), and
\* where its shortlog starts.
Records == [rev : 0..MaxRev, kernel : 0..MaxKernel, failed : BOOLEAN,
            last : 0..MaxKernel, tk : 0..MaxKernel, tr : 0..MaxRev,
            from : 0..MaxKernel]

\* A fresh output branch: some commit without any tag of the tracker.
Empty == [rev |-> 0, kernel |-> 0, failed |-> FALSE, last |-> 0,
          tk |-> 0, tr |-> 0, from |-> 0]

Init ==
    /\ khead = [b \in Branches |-> 1]
    /\ srcrev = 1
    /\ bad \in Failing
    /\ head = [b \in Branches |-> Empty]
    /\ pc = "idle" /\ cur = 1 /\ rev = 1 /\ fetched = khead /\ work = Empty
    /\ mode = "once" /\ commit = 1 /\ kernel_head = 1 /\ prev = 0
    /\ catch_up_from_failure = FALSE
    /\ crashes = 0

-----------------------------------------------------------------------------
(* The world outside.                                                      *)

KernelAdvances(b) ==
    /\ khead[b] < Heads[b]
    /\ khead' = [khead EXCEPT ![b] = @ + 1]
    /\ UNCHANGED <<srcrev, bad, head, pc, locals, crashes>>

\* The backports tree the tracker runs from is updated between runs.
SourceUpdated ==
    /\ pc = "idle" /\ srcrev < MaxRev
    /\ srcrev' = srcrev + 1
    /\ UNCHANGED <<khead, bad, head, pc, locals, crashes>>

\* The process is killed, a git command fails (ExecutionError), or
\* gentree.process() calls sys.exit(): the temporary clone is lost.
Crash ==
    /\ pc # "idle" /\ crashes < MaxCrashes
    /\ pc' = "idle" /\ crashes' = crashes + 1
    /\ UNCHANGED <<inputs, head, locals>>

-----------------------------------------------------------------------------
(* Reading the state of the last run.                                      *)

\* backport_rev = git.rev_parse(..) and update_cache_objects(input, ..).
Start ==
    /\ pc = "idle"
    /\ rev' = srcrev /\ fetched' = khead /\ cur' = 1 /\ pc' = "branch"
    /\ UNCHANGED <<inputs, head, work, mode, commit, kernel_head, prev,
                   catch_up_from_failure, crashes>>

\* 'backport' in old_data and tree in old_data
Tagged(h) == h.rev # 0 /\ h.kernel # 0

\* The clone has the commit ls_remote() named: it was fetched before.
Known == khead[cur] <= fetched[cur]

\* The clone of the output branch; kernel_head = git.ls_remote(branch, ..).
OpenBranch ==
    /\ pc = "branch" /\ cur \in Branches
    /\ work' = head[cur]
    /\ kernel_head' = khead[cur]

\* The backports revision is not compared.
UpToDateKernelOnly ==
    /\ OpenBranch
    /\ Tagged(head[cur]) /\ head[cur].kernel = khead[cur]
    /\ cur' = cur + 1
    /\ UNCHANGED <<inputs, head, pc, rev, fetched, mode, commit, prev,
                   catch_up_from_failure, crashes>>

\* Everything is up to date already: continue.
UpToDate ==
    /\ OpenBranch
    /\ Tagged(head[cur]) /\ head[cur].rev = rev /\ head[cur].kernel = khead[cur]
    /\ cur' = cur + 1
    /\ UNCHANGED <<inputs, head, pc, rev, fetched, mode, commit, prev,
                   catch_up_from_failure, crashes>>

\* "assume it's all new", or "Update backport tree": only the backports tree
\* changed since HEAD.
HandleHeadOnly ==
    /\ OpenBranch
    /\ \/ ~Tagged(head[cur])
       \/ head[cur].kernel = khead[cur] /\ head[cur].last = 0 /\ head[cur].rev # rev
    /\ Known
    /\ mode' = "once" /\ commit' = khead[cur] /\ prev' = 0
    /\ catch_up_from_failure' = FALSE
    /\ pc' = "commit"
    /\ UNCHANGED <<inputs, head, cur, rev, fetched, crashes>>

\* The loop's starting point: the last success if HEAD is a failure.
LoopPrev(h) == IF h.last # 0 THEN h.last ELSE h.kernel

\* "update from old to new"
NeedsLoop ==
    /\ Tagged(head[cur])
    /\ head[cur].rev # rev \/ head[cur].kernel # khead[cur]
    /\ head[cur].kernel # khead[cur] \/ head[cur].last # 0

StartLoop ==
    /\ OpenBranch /\ NeedsLoop /\ Known
    /\ khead[cur] - LoopPrev(head[cur]) <= MaxCommits
    /\ mode' = "loop"
    /\ prev' = LoopPrev(head[cur]) /\ commit' = LoopPrev(head[cur]) + 1
    /\ catch_up_from_failure' = (head[cur].last # 0)
    /\ pc' = "commit"
    /\ UNCHANGED <<inputs, head, cur, rev, fetched, crashes>>

\* "too many commits": sys.exit(10), with the remaining branches undone.
TooManyCommits ==
    /\ OpenBranch /\ NeedsLoop /\ Known
    /\ khead[cur] - LoopPrev(head[cur]) > MaxCommits
    /\ pc' = "idle"
    /\ UNCHANGED <<inputs, head, cur, rev, fetched, mode, commit, prev,
                   catch_up_from_failure, crashes>>

\* The kernel branch moved between update_cache_objects() and ls_remote(): the
\* commit is not in kernelobjdir, git fails and the run ends.
UnknownCommit ==
    /\ OpenBranch /\ ~Known
    /\ ~(Tagged(head[cur]) /\ head[cur].rev = rev /\ head[cur].kernel = khead[cur])
    /\ pc' = "idle"
    /\ UNCHANGED <<inputs, head, cur, rev, fetched, mode, commit, prev,
                   catch_up_from_failure, crashes>>

\* All branches are done.
Finish ==
    /\ pc = "branch" /\ cur \notin Branches
    /\ pc' = "idle"
    /\ UNCHANGED <<inputs, head, locals, crashes>>

-----------------------------------------------------------------------------
(* handle_commit()                                                         *)

Fails == <<cur, commit, rev>> \in bad

\* gentree.process() succeeded: its tree is committed.
Success == [rev |-> rev, kernel |-> commit, failed |-> FALSE, last |-> 0,
            tk |-> commit, tr |-> rev, from |-> prev]

\* git.rm(.., '--cached', '-r', '.') done for a failure too.
FailureEmptiesTree ==
    [rev |-> rev, kernel |-> commit, failed |-> TRUE, last |-> prev,
     tk |-> 0, tr |-> 0, from |-> 0]

\* It failed: git.reset() keeps the parent's tree, the message is replaced and
\* the last success recorded.
Failure == [rev |-> rev, kernel |-> commit, failed |-> TRUE, last |-> prev,
            tk |-> work.tk, tr |-> work.tr, from |-> 0]

\* commit_failure ignored: a failure is recorded on every run.
HandleCommitAlways ==
    /\ pc = "commit"
    /\ work' = IF Fails THEN Failure ELSE Success
    /\ pc' = "push"
    /\ UNCHANGED <<inputs, head, cur, rev, fetched, mode, commit, kernel_head, prev,
                   catch_up_from_failure, crashes>>

\* The tree of a failed run is added although gentree.process() gave up.
HandleCommitKeepsTree ==
    /\ pc = "commit"
    /\ IF Fails /\ catch_up_from_failure THEN work' = work /\ pc' = "next"
       ELSE /\ work' = IF Fails THEN [Failure EXCEPT !.tk = commit] ELSE Success
            /\ pc' = "push"
    /\ UNCHANGED <<inputs, head, cur, rev, fetched, mode, commit, kernel_head, prev,
                   catch_up_from_failure, crashes>>

HandleCommit ==
    /\ pc = "commit"
    /\ IF Fails /\ catch_up_from_failure THEN work' = work /\ pc' = "next"
       ELSE /\ work' = IF Fails THEN Failure ELSE Success
            /\ pc' = "push"
    /\ UNCHANGED <<inputs, head, cur, rev, fetched, mode, commit, kernel_head, prev,
                   catch_up_from_failure, crashes>>

\* git.push(opts=['-f', '-q', 'origin', branch])
Push ==
    /\ pc = "push"
    /\ head' = [head EXCEPT ![cur] = work]
    /\ pc' = "next"
    /\ UNCHANGED <<inputs, locals, crashes>>

\* prev advances on failures too.
AdvanceAlways ==
    /\ pc = "next"
    /\ IF mode = "loop" /\ commit < kernel_head
       THEN pc' = "commit" /\ commit' = commit + 1 /\ cur' = cur
       ELSE pc' = "branch" /\ commit' = commit /\ cur' = cur + 1
    /\ prev' = IF mode = "loop" THEN commit ELSE prev
    /\ catch_up_from_failure' = (catch_up_from_failure /\ Fails)
    /\ UNCHANGED <<inputs, head, rev, fetched, work, mode, kernel_head, crashes>>

\* One commit too many.
AdvancePastHead ==
    /\ pc = "next"
    /\ IF mode = "loop" /\ commit <= kernel_head
       THEN pc' = "commit" /\ commit' = commit + 1 /\ cur' = cur
       ELSE pc' = "branch" /\ commit' = commit /\ cur' = cur + 1
    /\ prev' = IF mode = "loop" /\ ~Fails THEN commit ELSE prev
    /\ catch_up_from_failure' = (catch_up_from_failure /\ Fails)
    /\ UNCHANGED <<inputs, head, rev, fetched, work, mode, kernel_head, crashes>>

\* The end of the loop's body, or of the single call: only a success moves prev.
Advance ==
    /\ pc = "next"
    /\ IF mode = "loop" /\ commit < kernel_head
       THEN pc' = "commit" /\ commit' = commit + 1 /\ cur' = cur
       ELSE pc' = "branch" /\ commit' = commit /\ cur' = cur + 1
    /\ prev' = IF mode = "loop" /\ ~Fails THEN commit ELSE prev
    /\ catch_up_from_failure' = (catch_up_from_failure /\ Fails)
    /\ UNCHANGED <<inputs, head, rev, fetched, work, mode, kernel_head, crashes>>

-----------------------------------------------------------------------------
Tracker ==
    \/ Start \/ UpToDate \/ HandleHeadOnly \/ StartLoop
    \/ TooManyCommits \/ UnknownCommit \/ Finish
    \/ HandleCommit \/ Push \/ Advance

Next ==
    \/ \E b \in Branches : KernelAdvances(b)
    \/ SourceUpdated \/ Crash
    \/ Tracker

Spec == Init /\ [][Next]_gvars

(***************************************************************************)
(* The tracker is started again and again (it is a periodic job), and a    *)
(* running one makes progress.  Crashes are bounded by MaxCrashes.         *)
(***************************************************************************)
FairSpec == Spec /\ WF_gvars(Tracker)

-----------------------------------------------------------------------------
\* What outlives a run, and what a run keeps in memory.
WorldType ==
    /\ khead \in [Branches -> 1..MaxKernel] /\ srcrev \in 1..MaxRev
    /\ bad \in FailureSets
    /\ head \in [Branches -> Records]
    /\ crashes \in 0..MaxCrashes

RunType ==
    /\ pc \in {"idle", "branch", "commit", "push", "next"}
    /\ cur \in 1..NB + 1 /\ rev \in 1..MaxRev
    /\ fetched \in [Branches -> 1..MaxKernel]
    /\ work \in Records
    /\ mode \in {"once", "loop"}
    /\ commit \in 1..MaxKernel /\ kernel_head \in 1..MaxKernel /\ prev \in 0..MaxKernel
    /\ catch_up_from_failure \in BOOLEAN

TypeOK == WorldType /\ RunType

\* The tags of an output commit tell the truth about its tree: a success was
\* generated from exactly the revisions it names, and the tree below a failure
\* is the one of the last success it names (the next run continues from there),
\* or has never been generated.
HonestTags(h) ==
    /\ Tagged(h) /\ ~h.failed => h.tk = h.kernel /\ h.tr = h.rev
    /\ h.failed /\ h.last # 0 => h.tk \in {0, h.last}
    /\ h.failed /\ h.last = 0 => h.tk \in {0, h.kernel}
TagsTellTheTree == \A b \in Branches : HonestTags(head[b])

\* Through crashes, failures and catching up, no push ever replaces the output
\* tree by one of an older kernel revision.
TreeNeverGoesBack == [][\A b \in Branches : head'[b].tk >= head[b].tk]_gvars

\* The shortlog of a commit starts where the tree below it ended: no kernel
\* commit is dropped from the output history and none is listed twice.
ShortlogsMeet ==
    [][\A b \in Branches :
        head'[b] # head[b] /\ ~head'[b].failed /\ head'[b].from # 0
            => head[b].tk \in {0, head'[b].from}]_gvars

\* A failure is committed over a failure of the same backports revision only
\* for a later kernel commit: runs do not pile up copies of it.
NoRepeatedFailure ==
    [][\A b \in Branches :
        head'[b] # head[b] /\ head'[b].failed /\ head[b].failed /\ head'[b].rev = head[b].rev
            => head'[b].kernel > head[b].kernel]_gvars

\* Once the kernel and the backports tree stand still, a head revision that
\* can be generated is what the output branch holds, unless the branch or one
\* before it is more than MAX_COMMITS behind.
TooFarBehind(b) == Tagged(head[b]) /\ khead[b] - LoopPrev(head[b]) > MaxCommits
Follows ==
    \A b \in Branches :
        <>[](\/ head[b].tk = khead[b] /\ head[b].tr = srcrev
             \/ <<b, khead[b], srcrev>> \in bad
             \/ \E c \in 1..b : TooFarBehind(c))

\* The output history goes on from where it is: neither a kernel commit nor a
\* failure appears in it twice, and no kernel commit is left out
\* (git-tracker.py:240-300).
HistoryGoesOn == ShortlogsMeet /\ NoRepeatedFailure
=============================================================================
