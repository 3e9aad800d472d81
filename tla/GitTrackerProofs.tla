-------------------------- MODULE GitTrackerProofs --------------------------
(***************************************************************************)
(* The tags that git-tracker.py leaves in the output branch are enough to  *)
(* resume from: whatever the kernel branch, the set of revisions that fail *)
(* to generate, and the moments at which runs die.                         *)
(***************************************************************************)
EXTENDS GitTracker, TLAPS

USE GitTrackerAssumption, InputsAssumption

\* What the HEAD of an output branch says, in relation to the kernel branch.
HeadInv == \A b \in Branches :
    /\ HonestTags(head[b])
    /\ head[b].kernel <= khead[b]
    /\ head[b].last # 0 => head[b].last < head[b].kernel /\ head[b].failed
    /\ ~Tagged(head[b]) => head[b] = Empty

\* The commit being handled, and where its shortlog starts.
LoopInv == pc \in {"commit", "push", "next"} =>
    /\ cur \in Branches
    /\ commit <= kernel_head /\ kernel_head <= khead[cur]
    /\ mode = "loop" => 0 < prev /\ prev < commit
    /\ mode = "once" => prev = 0 /\ ~catch_up_from_failure

\* The working clone is the output branch; prev is what its tree is made of.
CommitInv == pc = "commit" =>
    /\ work = head[cur]
    /\ mode = "loop" => /\ work.tk \in {0, prev}
                        /\ ~catch_up_from_failure => work.kernel < commit
    /\ mode = "once" => work.tk \in {0, commit} /\ work.rev # rev

\* What is about to be pushed, in relation to what it replaces.
PushInv == pc = "push" =>
    /\ work.rev = rev /\ work.kernel = commit
    /\ Fails => work.failed = TRUE /\ work.last = prev /\ work.tk = head[cur].tk
    /\ ~Fails => /\ work.failed = FALSE /\ work.last = 0 /\ work.from = prev
                 /\ work.tk = commit /\ work.tr = rev
    /\ mode = "loop" => head[cur].tk \in {0, prev} /\ (Fails => head[cur].kernel < commit)
    /\ mode = "once" => head[cur].tk \in {0, commit} /\ head[cur].rev # rev

\* After the push (or without one, when catching up).
NextInv == pc = "next" /\ mode = "loop" =>
    /\ work = head[cur]
    /\ Fails => /\ work.tk \in {0, prev}
                /\ ~catch_up_from_failure => work.kernel = commit
    /\ ~Fails => work.tk = commit /\ work.kernel = commit

IInv == TypeOK /\ HeadInv /\ LoopInv /\ CommitInv /\ PushInv /\ NextInv

LEMMA InitIInv == Init => IInv
<1> SUFFICES ASSUME Init PROVE IInv
  OBVIOUS
<1> USE DEF Init
<1>1. Empty \in Records
  BY DEF Empty, Records
<1>2. TypeOK
  <2>1. khead \in [Branches -> 1..MaxKernel] /\ head \in [Branches -> Records]
    BY <1>1
  <2>2. cur \in 1..NB + 1 /\ rev \in 1..MaxRev /\ srcrev \in 1..MaxRev
    OBVIOUS
  <2>3. commit \in 1..MaxKernel /\ kernel_head \in 1..MaxKernel /\ prev \in 0..MaxKernel
    OBVIOUS
  <2>4. crashes \in 0..MaxCrashes /\ work \in Records
    BY <1>1
  <2>5. fetched \in [Branches -> 1..MaxKernel]
    BY <2>1
  <2>6. catch_up_from_failure \in BOOLEAN /\ mode \in {"once", "loop"}
    OBVIOUS
  <2> QED
    BY <2>1, <2>2, <2>3, <2>4, <2>5, <2>6 DEF TypeOK, WorldType, RunType
<1>3. HeadInv
  BY DEF HeadInv, HonestTags, Tagged, Empty
<1> QED
  BY <1>2, <1>3 DEF IInv, LoopInv, CommitInv, PushInv, NextInv

-----------------------------------------------------------------------------
\* Steps outside the tracker, and steps that end or skip something: nothing is
\* handled, or everything the invariant speaks of stays as it is.
LEMMA WorldKeepsIInv ==
    ASSUME IInv, \/ \E b \in Branches : KernelAdvances(b)
                 \/ SourceUpdated \/ Crash \/ Start \/ Finish
    PROVE  IInv'
<1> USE DEF IInv, TypeOK, inputs, locals
<1>1. ASSUME NEW b \in Branches, KernelAdvances(b) PROVE IInv'
  <2> USE <1>1 DEF KernelAdvances
  <2>1. WorldType'
    BY DEF WorldType
  <2>0. RunType'
    BY DEF RunType, WorldType
  <2>2. HeadInv'
    BY DEF WorldType, HeadInv, Records, HonestTags, Tagged
  <2>3. LoopInv'
    BY DEF LoopInv, WorldType, RunType
  <2>4. CommitInv' /\ PushInv' /\ NextInv'
    BY DEF CommitInv, PushInv, NextInv, Fails
  <2> QED
    BY <2>0, <2>1, <2>2, <2>3, <2>4
<1>2. CASE SourceUpdated
  <2> USE <1>2 DEF SourceUpdated
  <2>1. WorldType'
    BY DEF WorldType
  <2>0. RunType'
    BY DEF RunType, WorldType
  <2>2. HeadInv' /\ LoopInv' /\ CommitInv' /\ PushInv' /\ NextInv'
    BY DEF HeadInv, LoopInv, CommitInv, PushInv, NextInv, HonestTags, Tagged, Fails
  <2> QED
    BY <2>0, <2>1, <2>2
<1>3. CASE Crash \/ Finish
  <2> USE <1>3 DEF Crash, Finish
  <2>1. WorldType'
    BY DEF WorldType
  <2>0. RunType'
    BY DEF RunType, WorldType
  <2>2. HeadInv' /\ LoopInv' /\ CommitInv' /\ PushInv' /\ NextInv'
    BY DEF HeadInv, LoopInv, CommitInv, PushInv, NextInv, HonestTags, Tagged, Fails
  <2> QED
    BY <2>0, <2>1, <2>2
<1>4. CASE Start
  <2> USE <1>4 DEF Start
  <2>1. WorldType'
    BY DEF WorldType
  <2>0. RunType'
    BY DEF RunType, WorldType
  <2>2. HeadInv' /\ LoopInv' /\ CommitInv' /\ PushInv' /\ NextInv'
    BY DEF HeadInv, LoopInv, CommitInv, PushInv, NextInv, HonestTags, Tagged, Fails
  <2> QED
    BY <2>0, <2>1, <2>2
<1> QED
  BY <1>1, <1>2, <1>3, <1>4

\* Reading the tags of HEAD and deciding what to do.
LEMMA DecideKeepsIInv ==
    ASSUME IInv, UpToDate \/ HandleHeadOnly \/ StartLoop \/ TooManyCommits \/ UnknownCommit
    PROVE  IInv'
<1> USE DEF IInv, TypeOK, OpenBranch, inputs
<1>0. cur \in Branches /\ head[cur] \in Records /\ khead[cur] \in 1..MaxKernel
  BY DEF UpToDate, HandleHeadOnly, StartLoop, TooManyCommits, UnknownCommit, WorldType, RunType
<1>1. CASE UpToDate \/ TooManyCommits \/ UnknownCommit
  <2> USE <1>1 DEF UpToDate, TooManyCommits, UnknownCommit
  <2>1. WorldType'
    BY <1>0 DEF WorldType
  <2>3. cur' \in 1..NB + 1 /\ pc' \in {"idle", "branch", "commit", "push", "next"}
    BY <1>0 DEF RunType, Branches
  <2>0. RunType'
    BY <1>0, <2>3 DEF RunType
  <2>2. HeadInv' /\ LoopInv' /\ CommitInv' /\ PushInv' /\ NextInv'
    BY DEF HeadInv, LoopInv, CommitInv, PushInv, NextInv, HonestTags, Tagged
  <2> QED
    BY <2>0, <2>1, <2>2
<1>2. CASE HandleHeadOnly
  <2> USE <1>2 DEF HandleHeadOnly
  <2>1. WorldType'
    BY <1>0 DEF WorldType
  <2>4. /\ work' \in Records /\ kernel_head' \in 1..MaxKernel
        /\ commit' \in 1..MaxKernel /\ prev' \in 0..MaxKernel
    BY <1>0
  <2>5. catch_up_from_failure' \in BOOLEAN /\ mode' \in {"once", "loop"}
    OBVIOUS
  <2>0. RunType'
    BY <2>4, <2>5 DEF RunType
  <2>2. HeadInv' /\ LoopInv' /\ PushInv' /\ NextInv'
    BY <1>0 DEF HeadInv, LoopInv, PushInv, NextInv, HonestTags, Tagged
  <2>3. CommitInv'
    <3>1. head[cur].rev # rev
      BY <1>0 DEF RunType, HeadInv, Empty
    <3>2. head[cur].tk \in {0, khead[cur]}
      <4>1. CASE ~Tagged(head[cur])
        BY <1>0, <4>1 DEF HeadInv, Empty
      <4>2. CASE Tagged(head[cur])
        BY <1>0, <4>2 DEF HeadInv, HonestTags, Records
      <4> QED
        BY <4>1, <4>2
    <3> QED
      BY <3>1, <3>2 DEF CommitInv
  <2> QED
    BY <2>0, <2>1, <2>2, <2>3
<1>3. CASE StartLoop
  <2> USE <1>3 DEF StartLoop
  <2>0. /\ LoopPrev(head[cur]) \in 1..MaxKernel
        /\ LoopPrev(head[cur]) < khead[cur]
        /\ head[cur].tk \in {0, LoopPrev(head[cur])}
        /\ head[cur].last = 0 => head[cur].kernel = LoopPrev(head[cur])
    <3> DEFINE h == head[cur]
    <3>1. /\ HonestTags(h) /\ h.kernel <= khead[cur]
          /\ h.last # 0 => h.last < h.kernel /\ h.failed
          /\ Tagged(h) /\ (h.kernel # khead[cur] \/ h.last # 0)
      BY <1>0 DEF HeadInv, NeedsLoop
    <3>2. /\ h.kernel \in 0..MaxKernel /\ h.last \in 0..MaxKernel
          /\ h.tk \in 0..MaxKernel /\ h.failed \in BOOLEAN
      BY <1>0 DEF Records
    <3>3. CASE h.last = 0
      BY <1>0, <3>1, <3>2, <3>3 DEF LoopPrev, HonestTags, Tagged
    <3>4. CASE h.last # 0
      BY <1>0, <3>1, <3>2, <3>4 DEF LoopPrev, HonestTags, Tagged
    <3> QED
      BY <3>3, <3>4
  <2> HIDE DEF OpenBranch
  <2>1. WorldType' /\ RunType'
    BY <1>0, <2>0 DEF WorldType, RunType, OpenBranch
  <2>2. HeadInv' /\ LoopInv' /\ PushInv' /\ NextInv'
    BY <1>0, <2>0 DEF HeadInv, LoopInv, PushInv, NextInv, HonestTags, Tagged, OpenBranch
  <2>3. CommitInv'
    <3>1. ~catch_up_from_failure' => head[cur].last = 0
      OBVIOUS
    <3> QED
      BY <1>0, <2>0, <3>1 DEF CommitInv, OpenBranch
  <2> QED
    BY <2>0, <2>1, <2>2, <2>3
<1> QED
  BY <1>1, <1>2, <1>3

\* handle_commit() up to the push.
LEMMA CommitKeepsIInv == ASSUME IInv, HandleCommit PROVE IInv'
<1> USE DEF IInv, TypeOK, HandleCommit, inputs
<1>0. cur \in Branches /\ work = head[cur] /\ work \in Records
  BY DEF LoopInv, CommitInv, RunType
<1>1. Success \in Records /\ Failure \in Records
  BY DEF Success, Failure, Records, RunType
<1>2. Fails' = Fails
  BY DEF Fails
<1>3. WorldType'
  BY DEF WorldType
<1>4. RunType'
  BY <1>0, <1>1 DEF RunType
<1>5. HeadInv' /\ LoopInv'
  BY DEF HeadInv, LoopInv, HonestTags, Tagged
<1>6. CommitInv'
  BY DEF CommitInv
<1>7. PushInv'
  <2>1. CASE Fails
    BY <1>0, <1>2, <2>1 DEF PushInv, CommitInv, LoopInv, Failure, RunType
  <2>2. CASE ~Fails
    BY <1>0, <1>2, <2>2 DEF PushInv, CommitInv, LoopInv, Success, RunType
  <2> QED
    BY <2>1, <2>2
<1>8. NextInv'
  BY <1>0, <1>2 DEF NextInv, CommitInv
<1> QED
  BY <1>3, <1>4, <1>5, <1>6, <1>7, <1>8

\* The record that is pushed keeps the promises of HeadInv.
LEMMA PushKeepsIInv == ASSUME IInv, Push PROVE IInv'
<1> USE DEF IInv, TypeOK, Push, inputs, locals
<1>0. /\ cur \in Branches /\ work \in Records /\ head \in [Branches -> Records]
      /\ commit \in 1..MaxKernel /\ rev \in 1..MaxRev /\ prev \in 0..MaxKernel
      /\ mode \in {"once", "loop"} /\ khead[cur] \in 1..MaxKernel /\ kernel_head \in 1..MaxKernel
  BY DEF LoopInv, RunType, WorldType
<1>1. head'[cur] = work /\ \A b \in Branches \ {cur} : head'[b] = head[b]
  BY <1>0
<1>2. Fails' = Fails
  BY DEF Fails
<1>3. WorldType' /\ RunType'
  BY <1>0 DEF WorldType, RunType
<1>4. HonestTags(work)
  <2>1. CASE Fails
    BY <1>0, <2>1 DEF PushInv, LoopInv, HonestTags
  <2>2. CASE ~Fails
    BY <1>0, <2>2 DEF PushInv, LoopInv, HonestTags
  <2> QED
    BY <2>1, <2>2
<1>5. /\ Tagged(work) /\ work.kernel <= khead[cur]
      /\ work.last # 0 => work.last < work.kernel /\ work.failed
  BY <1>0 DEF PushInv, LoopInv, Tagged
<1>6. HeadInv'
  BY <1>0, <1>1, <1>4, <1>5 DEF HeadInv
<1>7. LoopInv' /\ CommitInv' /\ PushInv'
  BY DEF LoopInv, CommitInv, PushInv
<1>8. NextInv'
  BY <1>0, <1>1, <1>2 DEF NextInv, PushInv
<1> QED
  BY <1>3, <1>6, <1>7, <1>8

\* The next commit of the loop, or the next branch.
LEMMA AdvanceKeepsIInv == ASSUME IInv, Advance PROVE IInv'
<1> USE DEF IInv, TypeOK, Advance, inputs
<1>0. /\ cur \in Branches /\ cur \in 1..NB
      /\ commit \in 1..MaxKernel /\ prev \in 0..MaxKernel /\ kernel_head \in 1..MaxKernel
      /\ catch_up_from_failure \in BOOLEAN
  BY DEF LoopInv, RunType, Branches
<1>1. WorldType'
  BY DEF WorldType
<1>2. RunType'
  <2>1. commit' \in 1..MaxKernel /\ cur' \in 1..NB + 1 /\ prev' \in 0..MaxKernel
    BY <1>0
  <2>2. catch_up_from_failure' \in BOOLEAN
    BY <1>0
  <2> QED
    BY <2>1, <2>2 DEF RunType
<1>3. HeadInv' /\ PushInv' /\ NextInv'
  BY DEF HeadInv, PushInv, NextInv, HonestTags, Tagged
<1>4. ~catch_up_from_failure' => ~catch_up_from_failure \/ ~Fails
  BY <1>0
<1>5. ASSUME pc' = "commit" PROVE /\ mode = "loop" /\ commit' = commit + 1 /\ cur' = cur
                                  /\ commit < kernel_head
  BY <1>5
<1>6. LoopInv'
  BY <1>0, <1>5 DEF LoopInv
<1>7. CommitInv'
  BY <1>0, <1>4, <1>5 DEF CommitInv, NextInv
<1> QED
  BY <1>1, <1>2, <1>3, <1>6, <1>7

LEMMA StepIInv == IInv /\ [Next]_gvars => IInv'
<1> SUFFICES ASSUME IInv, [Next]_gvars PROVE IInv'
  OBVIOUS
<1>1. CASE Next
  BY <1>1, WorldKeepsIInv, DecideKeepsIInv, CommitKeepsIInv, PushKeepsIInv,
     AdvanceKeepsIInv DEF Next, Tracker
<1>2. CASE UNCHANGED gvars
  <2> USE <1>2 DEF gvars, inputs, locals, IInv, TypeOK
  <2>1. WorldType' /\ RunType'
    BY DEF WorldType, RunType
  <2>2. HeadInv' /\ LoopInv' /\ CommitInv' /\ PushInv' /\ NextInv'
    BY DEF HeadInv, LoopInv, CommitInv, PushInv, NextInv, HonestTags, Tagged, Fails
  <2> QED
    BY <2>1, <2>2
<1> QED
  BY <1>1, <1>2

LEMMA AlwaysIInv == Spec => []IInv
BY InitIInv, StepIInv, PTL DEF Spec

-----------------------------------------------------------------------------
\* All variables keep their types, whatever fails or dies.
THEOREM TypeCorrect == Spec => []TypeOK
<1>1. IInv => TypeOK
  BY DEF IInv
<1> QED
  BY <1>1, AlwaysIInv, PTL

\* The tags in the HEAD of an output branch always describe its tree: the run
\* that finds them continues from a revision it can rely on.
THEOREM TagsAreHonest == Spec => []TagsTellTheTree
<1>1. IInv => TagsTellTheTree
  BY DEF IInv, HeadInv, TagsTellTheTree
<1> QED
  BY <1>1, AlwaysIInv, PTL

\* Only a push changes an output branch, and it changes one.
LEMMA OnlyPush ==
    ASSUME IInv, [Next]_gvars, NEW b \in Branches, head'[b] # head[b]
    PROVE  pc = "push" /\ b = cur /\ head'[b] = work
<1>1. CASE Push
  BY <1>1 DEF Push, IInv, TypeOK, WorldType, LoopInv
<1>2. CASE ~Push
  BY <1>2 DEF Next, gvars, Tracker, KernelAdvances, SourceUpdated, Crash, Start, UpToDate,
     HandleHeadOnly, StartLoop, TooManyCommits, UnknownCommit, Finish, HandleCommit, Advance
<1> QED
  BY <1>1, <1>2

\* What every push does to the branch it replaces.
LEMMA PushFacts ==
    ASSUME IInv, pc = "push"
    PROVE  /\ work.tk >= head[cur].tk
           /\ ~work.failed /\ work.from # 0 => head[cur].tk \in {0, work.from}
           /\ work.failed /\ head[cur].failed /\ work.rev = head[cur].rev
                => work.kernel > head[cur].kernel
<1>0. /\ work \in Records /\ head[cur] \in Records
      /\ commit \in 1..MaxKernel /\ prev \in 0..MaxKernel /\ mode \in {"once", "loop"}
  BY DEF IInv, TypeOK, RunType, WorldType, LoopInv
<1>1. CASE mode = "loop"
  BY <1>0, <1>1 DEF IInv, PushInv, LoopInv, Records
<1>2. CASE mode = "once"
  BY <1>0, <1>2 DEF IInv, PushInv, LoopInv, Records
<1> QED
  BY <1>0, <1>1, <1>2

\* No push replaces an output tree by one of an older kernel revision.
THEOREM TreeOnlyAdvances == Spec => TreeNeverGoesBack
<1>1. IInv /\ [Next]_gvars => [\A b \in Branches : head'[b].tk >= head[b].tk]_gvars
  <2> SUFFICES ASSUME IInv, [Next]_gvars, NEW b \in Branches
               PROVE  head'[b].tk >= head[b].tk
    OBVIOUS
  <2>1. CASE head'[b] = head[b]
    BY <2>1 DEF IInv, TypeOK, WorldType, Records
  <2>2. CASE head'[b] # head[b]
    BY <2>2, OnlyPush, PushFacts
  <2> QED
    BY <2>1, <2>2
<1> QED
  BY <1>1, AlwaysIInv, PTL DEF Spec, TreeNeverGoesBack

\* Consecutive shortlogs meet: none drops or repeats a kernel commit.
THEOREM ShortlogsAlwaysMeet == Spec => ShortlogsMeet
<1>1. IInv /\ [Next]_gvars =>
        [\A b \in Branches :
            head'[b] # head[b] /\ ~head'[b].failed /\ head'[b].from # 0
                => head[b].tk \in {0, head'[b].from}]_gvars
  BY OnlyPush, PushFacts
<1> QED
  BY <1>1, AlwaysIInv, PTL DEF Spec, ShortlogsMeet

\* Failures of one backports revision are never recorded twice in a row for the
\* same kernel commit, however often the tracker is run or dies.
THEOREM FailuresNotRepeated == Spec => NoRepeatedFailure
<1>1. IInv /\ [Next]_gvars =>
        [\A b \in Branches :
            head'[b] # head[b] /\ head'[b].failed /\ head[b].failed /\ head'[b].rev = head[b].rev
                => head'[b].kernel > head[b].kernel]_gvars
  BY OnlyPush, PushFacts
<1> QED
  BY <1>1, AlwaysIInv, PTL DEF Spec, NoRepeatedFailure

\* The output history goes on from where it is, with neither gaps nor repeats.
THEOREM HistoryAlwaysGoesOn == Spec => HistoryGoesOn
  BY ShortlogsAlwaysMeet, FailuresNotRepeated DEF HistoryGoesOn
=============================================================================
