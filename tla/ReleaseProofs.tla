--------------------------- MODULE ReleaseProofs ----------------------------
(***************************************************************************)
(* Proofs about Release, for every number of commits and versions and any  *)
(* interleaving of runs, developers and a maintainer.                      *)
(***************************************************************************)
EXTENDS Release, SequenceTheorems, LevelInduction, TLAPS

(***************************************************************************)
(* What is kept of the repository, of a run at each step, and of the clone *)
(* of a maintainer.  A clone that bumped has the first version that is not *)
(* tagged, or one that was tagged since; after its first push the commit   *)
(* after its base is the version commit.                                   *)
(***************************************************************************)
Commit == [version : 0 .. MaxVersion, kind : {"change", "version"}]

MainFits == main \in Seq(Commit) /\ MainHead \in 1 .. MaxCommits

NoGap == \A v, w \in Versions : w < v /\ tags[v] # 0 => tags[w] # 0

Due(version) ==
  version \in Versions /\ \A w \in Versions : w < version => tags[w] # 0

\* A version commit has a version that could be tagged when it was made.
CommitsDue ==
  \A c \in 1 .. MainHead : main[c].kind = "version" => Due(main[c].version)

TagsFit ==
  tags \in [Versions -> 0 .. MainHead] /\ TagNamesItsVersion /\ NoGap /\ CommitsDue

\* Both crates of v, or the derive crate alone, are in the registry.
HasDerive(v) == v \in registry["pso-protocol-derive"]
HasBoth(v) == \A c \in Crates : v \in registry[c]

\* What a run does to the entry of its tag.
Creates(run) == releases' = [releases EXCEPT ![Tag(run)] = IF @ = "none" THEN "bare" ELSE @]
Signs(run) == releases' = [releases EXCEPT ![Tag(run)] = "signed"]

ReleasesFit ==
  /\ registry \in [Crates -> SUBSET Versions]
  /\ releases \in [Versions -> {"none", "bare", "signed"}]
  /\ SignedIsPublished

HasPushedMain(base, version) ==
  /\ base + 1 \in 1 .. MainHead
  /\ main[base + 1] = [version |-> version, kind |-> "version"]

RunFits(run) ==
  /\ run \in RunType
  /\ run.at \in {"tag.main", "tag.push"} => Due(run.version)
  /\ run.at = "tag.push" => HasPushedMain(run.base, run.version)
  /\ run.at \in {"publish.derive", "publish.core", "publish.package", "release", "assets",
                "verify"} => HasRelease(run)
  /\ run.at = "publish.core" => HasDerive(Tag(run))
  /\ run.at = "publish.package" => HasBoth(Tag(run))
  /\ run.at \notin {"release", "assets", "verify"} => run.publish = "skipped"
  /\ run.at = "assets" => run.publish = "success" /\ TagIsThere(run)
  /\ run.publish = "success" => HasBoth(Tag(run))

CloneFits(clone) ==
  /\ clone \in [at : {"main", "push"}, base : 1 .. MainHead, version : Versions]
  /\ Due(clone.version)
  /\ clone.at = "push" => HasPushedMain(clone.base, clone.version)

\* The runs of one of the two places of a group.
RunsFit(runs) ==
  /\ runs = [g \in Groups |-> runs[g]]
  /\ \A run \in {runs[g] : g \in Groups} \ {NoRun} : RunFits(run)

IInv ==
  /\ MainFits /\ TagsFit /\ ReleasesFit
  /\ RunsFit(running) /\ RunsFit(waiting)
  /\ \A g \in Groups : waiting[g] # NoRun => waiting[g].at = "ci"
  /\ \A clone \in {maintainer} \ {NoClone} : CloneFits(clone)

\* Nothing that a run or a clone relies on is taken back.
Grows ==
  /\ MainHead <= MainHead'
  /\ \A c \in 1 .. MainHead : main'[c] = main[c]
  /\ \A v \in Versions : tags[v] # 0 => tags'[v] # 0
  /\ \A c \in Crates : registry[c] \subseteq registry'[c]

-----------------------------------------------------------------------------
(***************************************************************************)
(* What stays while the repository and the registry grow.                  *)
(***************************************************************************)
LEMMA TagType ==
  ASSUME NEW run \in RunType, HasRelease(run)
  PROVE  Tag(run) \in Versions
BY BoundAssumption DEF RunType, HasRelease, Tag, Versions

LEMMA RunStays ==
  ASSUME MainFits, MainFits', Grows, NEW run, RunFits(run)
  PROVE  RunFits(run)'
<1>1. 1 .. MainHead \subseteq 1 .. MainHead'
  BY DEF MainFits, MainHead, Grows
<1>2. run \in RunType'
  BY <1>1 DEF RunFits, RunType
<1>3. run.version \in 0 .. MaxVersion /\ run.base \in 1 .. MainHead
  BY DEF RunFits, RunType
<1>4. Due(run.version) => Due(run.version)'
  BY DEF Due, Grows
<1>5. HasPushedMain(run.base, run.version) => HasPushedMain(run.base, run.version)'
  BY <1>1 DEF HasPushedMain, Grows
<1>6. HasRelease(run) => Tag(run) \in Versions
  BY TagType DEF RunFits
<1>7. /\ HasDerive(Tag(run)) => HasDerive(Tag(run))'
      /\ HasBoth(Tag(run)) => HasBoth(Tag(run))'
  BY DEF HasDerive, HasBoth, Grows, Crates
<1>8. HasRelease(run) /\ TagIsThere(run) => TagIsThere(run)'
  BY <1>6 DEF TagIsThere, Grows
<1> QED BY <1>2, <1>4, <1>5, <1>7, <1>8 DEF RunFits

LEMMA CloneStays ==
  ASSUME MainFits, MainFits', Grows, NEW clone, CloneFits(clone)
  PROVE  CloneFits(clone)'
<1>1. 1 .. MainHead \subseteq 1 .. MainHead'
  BY DEF MainFits, MainHead, Grows
<1>2. Due(clone.version)'
  BY DEF CloneFits, Due, Grows
<1>3. clone.at = "push" => HasPushedMain(clone.base, clone.version)'
  BY <1>1 DEF CloneFits, HasPushedMain, Grows
<1> QED BY <1>1, <1>2, <1>3 DEF CloneFits

-----------------------------------------------------------------------------
(***************************************************************************)
(* The shapes of a step: the run of a group moves, or an event triggers    *)
(* one.                                                                    *)
(***************************************************************************)
RepositoryFits == MainFits /\ TagsFit /\ ReleasesFit

LEMMA RepositoryStays ==
  ASSUME RepositoryFits, UNCHANGED <<main, tags, registry, releases>>
  PROVE  RepositoryFits' /\ Grows
BY DEF RepositoryFits, MainFits, TagsFit, ReleasesFit, Grows, MainHead,
       TagNamesItsVersion, NoGap, CommitsDue, Due, SignedIsPublished

\* A run moves to run, or ends.
LEMMA RunMoves ==
  ASSUME IInv, RepositoryFits', Grows,
         NEW g \in Groups, NEW run, Moves(g, run), run # NoRun => RunFits(run)'
  PROVE  IInv'
<1>1. MainFits /\ MainFits'
  BY DEF IInv, RepositoryFits
<1>2. RunsFit(running)'
  <2>1. running' = [h \in Groups |-> running'[h]]
    BY DEF IInv, RunsFit, Moves
  <2>2. ASSUME NEW r \in {running'[h] : h \in Groups} \ {NoRun}
        PROVE  RunFits(r)'
    <3>1. r = run \/ r \in {running[h] : h \in Groups} \ {NoRun}
      BY DEF IInv, RunsFit, Moves
    <3>2. CASE r = run
      BY <3>2
    <3>3. CASE r \in {running[h] : h \in Groups} \ {NoRun}
      <4>1. RunFits(r)
        BY <3>3 DEF IInv, RunsFit
      <4> QED BY <4>1, <1>1, RunStays
    <3> QED BY <3>1, <3>2, <3>3
  <2> QED BY <2>1, <2>2 DEF RunsFit
<1>3. waiting' = waiting /\ maintainer' = maintainer
  BY DEF Moves
<1>4. RunsFit(waiting)'
  BY <1>1, <1>3, RunStays DEF IInv, RunsFit
<1>5. \A clone \in {maintainer'} \ {NoClone} : CloneFits(clone)'
  BY <1>1, <1>3, CloneStays DEF IInv
<1> QED BY <1>2, <1>3, <1>4, <1>5 DEF IInv, RepositoryFits

\* An event leaves a run in waiting and asks the one in progress to stop.
LEMMA EventTriggers ==
  ASSUME IInv, MainFits', Grows,
         NEW g \in Groups, NEW run, Trigger(g, run), RunFits(run)', run.at = "ci"
  PROVE  /\ RunsFit(running)' /\ RunsFit(waiting)'
         /\ \A h \in Groups : waiting'[h] # NoRun => waiting'[h].at = "ci"
<1>1. MainFits
  BY DEF IInv
<1>2. RunsFit(running)'
  <2>1. running' = [h \in Groups |-> running'[h]]
    BY DEF IInv, RunsFit, Trigger
  <2>2. ASSUME NEW r \in {running'[h] : h \in Groups} \ {NoRun}
        PROVE  RunFits(r)'
    <3>1. PICK old \in {running[h] : h \in Groups} \ {NoRun} :
            r = old \/ r = [old EXCEPT !.cancelled = TRUE]
      BY DEF IInv, RunsFit, Trigger
    <3>2. RunFits(old)
      BY DEF IInv, RunsFit
    <3>3. RunFits([old EXCEPT !.cancelled = TRUE])
      BY <3>2 DEF RunFits, RunType, HasRelease, Tag, TagIsThere
    <3>4. RunFits(r)
      BY <3>1, <3>2, <3>3
    <3> QED BY <3>4, <1>1, RunStays
  <2> QED BY <2>1, <2>2 DEF RunsFit
<1>3. RunsFit(waiting)'
  <2>1. waiting' = [h \in Groups |-> waiting'[h]]
    BY DEF IInv, RunsFit, Trigger
  <2>2. ASSUME NEW r \in {waiting'[h] : h \in Groups} \ {NoRun}
        PROVE  RunFits(r)'
    <3>1. r = run \/ r \in {waiting[h] : h \in Groups} \ {NoRun}
      BY DEF IInv, RunsFit, Trigger
    <3> QED BY <3>1, <1>1, RunStays DEF IInv, RunsFit
  <2> QED BY <2>1, <2>2 DEF RunsFit
<1>4. \A h \in Groups : waiting'[h] # NoRun => waiting'[h].at = "ci"
  BY DEF IInv, RunsFit, Trigger
<1> QED BY <1>2, <1>3, <1>4

\* A run at a step is one that fits.
LEMMA RunAtStep ==
  ASSUME IInv, NEW g \in Groups, running[g].at # "none"
  PROVE  RunFits(running[g])
BY DEF IInv, RunsFit, NoRun

\* The run that goes on after the tag job, or skips it.
LEMMA AfterTagFits ==
  ASSUME NEW run, RunFits(run), run.at \notin {"release", "assets", "verify"},
         AfterTag(run) # NoRun
  PROVE  RunFits(AfterTag(run))
BY DEF RunFits, RunType, AfterTag, HasRelease, Tag

-----------------------------------------------------------------------------
(***************************************************************************)
(* What the pushes, the bump and the uploads do to the repository.         *)
(***************************************************************************)
\* A non-empty set of naturals up to n has a greatest element, which Max is.
LEMMA MaxIsGreatest ==
  ASSUME NEW n \in Nat, NEW S \in SUBSET (0 .. n), S # {}
  PROVE  Max(S) \in S /\ \A y \in S : Max(S) >= y
<1> DEFINE T == {k \in Nat : (\E x \in S : x <= k) =>
                               \E x \in S : x <= k /\ \A y \in S : y <= k => x >= y}
<1>1. 0 \in T
  OBVIOUS
<1>2. ASSUME NEW k \in T PROVE k + 1 \in T
  <2>1. CASE k + 1 \in S
    BY <2>1
  <2>2. CASE k + 1 \notin S
    <3>1. \A x \in S : x <= k + 1 <=> x <= k
      BY <2>2
    <3> QED BY <3>1
  <2> QED BY <2>1, <2>2
<1>3. T = Nat
  <2> HIDE DEF T
  <2>1. T \in SUBSET Nat
    BY DEF T
  <2> QED BY <1>1, <1>2, <2>1, NatInductionOnSets
<1>4. \E x \in S : \A y \in S : x >= y
  <2>1. n \in T
    <3> HIDE DEF T
    <3> QED BY <1>3
  <2>2. \A x \in S : x <= n
    OBVIOUS
  <2> QED BY <2>1, <2>2
<1> QED BY <1>4 DEF Max

LEMMA MainGrows ==
  ASSUME RepositoryFits, NEW commit \in Commit, MainHead < MaxCommits,
         commit.kind = "version" => Due(commit.version),
         main' = Append(main, commit), UNCHANGED <<tags, registry, releases>>
  PROVE  /\ RepositoryFits' /\ Grows
         /\ MainHead' = MainHead + 1 /\ main'[MainHead + 1] = commit
<1>1. /\ main' \in Seq(Commit) /\ Len(main') = Len(main) + 1
      /\ \A c \in 1 .. Len(main) : main'[c] = main[c]
      /\ main'[Len(main) + 1] = commit
  BY AppendProperties DEF RepositoryFits, MainFits
<1>2. MainFits' /\ Grows
  BY <1>1, BoundAssumption DEF RepositoryFits, MainFits, Grows, MainHead
<1>3. TagsFit'
  <2>1. (tags \in [Versions -> 0 .. MainHead] /\ TagNamesItsVersion /\ NoGap)'
    BY <1>1 DEF RepositoryFits, MainFits, TagsFit, MainHead, TagNamesItsVersion, NoGap
  <2>2. CommitsDue'
    <3> SUFFICES ASSUME NEW c \in 1 .. Len(main) + 1, main'[c].kind = "version"
                 PROVE  Due(main'[c].version)
      BY <1>1 DEF CommitsDue, MainHead, Due
    <3> QED BY <1>1 DEF RepositoryFits, TagsFit, CommitsDue, MainHead
  <2> QED BY <2>1, <2>2 DEF TagsFit
<1>4. ReleasesFit'
  BY DEF RepositoryFits, ReleasesFit, SignedIsPublished
<1> QED BY <1>1, <1>2, <1>3, <1>4 DEF RepositoryFits, MainHead

LEMMA TagsGrow ==
  ASSUME RepositoryFits, NEW clone, Due(clone.version),
         HasPushedMain(clone.base, clone.version),
         PushTag(clone), UNCHANGED <<main, registry, releases>>
  PROVE  RepositoryFits' /\ Grows
<1>1. /\ clone.version \in Versions /\ tags[clone.version] = 0
      /\ clone.base + 1 \in 1 .. MainHead
      /\ \A w \in Versions : w < clone.version => tags[w] # 0
      /\ tags' = [tags EXCEPT ![clone.version] = clone.base + 1]
  BY DEF Due, HasPushedMain, PushTag, CanPushTag
<1>2. tags' \in [Versions -> 0 .. MainHead]
  BY <1>1 DEF RepositoryFits, MainFits, MainHead, TagsFit
<1>3. TagNamesItsVersion'
  BY <1>1 DEF RepositoryFits, TagsFit, TagNamesItsVersion, HasPushedMain
<1>4. NoGap'
  BY <1>1 DEF RepositoryFits, MainFits, MainHead, TagsFit, NoGap, Versions
<1>5. Grows
  BY <1>1 DEF RepositoryFits, MainFits, Grows, MainHead, TagsFit
<1>6. CommitsDue'
  BY <1>1 DEF RepositoryFits, TagsFit, CommitsDue, Due, MainHead
<1> QED BY <1>2, <1>3, <1>4, <1>5, <1>6
        DEF RepositoryFits, MainFits, TagsFit, ReleasesFit, SignedIsPublished, MainHead

LEMMA RegistryGrows ==
  ASSUME RepositoryFits, NEW crate \in Crates, NEW version \in Versions,
         Uploads(crate, version), UNCHANGED <<main, tags, releases>>
  PROVE  RepositoryFits' /\ Grows /\ version \in registry'[crate]
BY DEF RepositoryFits, MainFits, TagsFit, ReleasesFit, Uploads, Grows, MainHead,
       TagNamesItsVersion, NoGap, CommitsDue, Due, SignedIsPublished

\* The version that cog bumps to is the first one that is not tagged below the base.
LEMMA NextVersionIsDue ==
  ASSUME RepositoryFits, NEW base, Bumpable(base)
  PROVE  Due(NextVersion(base))
<1> DEFINE S == {0} \cup {v \in Versions : tags[v] \in 1 .. base}
<1>1. S \in SUBSET (0 .. MaxVersion) /\ S # {} /\ MaxVersion \in Nat
  BY BoundAssumption DEF Versions
<1>2. Max(S) \in S
  <2> HIDE DEF S
  <2> QED BY <1>1, MaxIsGreatest
<1>3. Max(S) = Last(base)
  BY DEF Last
<1>4. Last(base) \in 0 .. MaxVersion /\ (Last(base) # 0 => tags[Last(base)] # 0)
  BY <1>1, <1>2, <1>3
<1>5. Last(base) < MaxVersion
  BY DEF Bumpable
<1> QED
  BY <1>4, <1>5, BoundAssumption
     DEF NextVersion, Due, Versions, RepositoryFits, TagsFit, NoGap

-----------------------------------------------------------------------------
(***************************************************************************)
(* The steps.                                                              *)
(***************************************************************************)
LEMMA InvInit == Init => IInv
<1> SUFFICES ASSUME Init PROVE IInv
  OBVIOUS
<1>1. MainFits
  <2>1. [version |-> 0, kind |-> "change"] \in Commit
    BY BoundAssumption DEF Commit
  <2> QED BY <2>1, BoundAssumption DEF Init, MainFits, MainHead
<1>2. TagsFit
  BY <1>1 DEF Init, TagsFit, TagNamesItsVersion, NoGap, CommitsDue, MainHead, MainFits
<1>3. ReleasesFit
  BY DEF Init, ReleasesFit, SignedIsPublished
<1> QED BY <1>1, <1>2, <1>3 DEF Init, IInv, RunsFit

LEMMA InvBegin ==
  ASSUME IInv, NEW g \in Groups, Begin(g)
  PROVE  IInv'
<1>1. RepositoryFits' /\ Grows /\ MainFits
  BY RepositoryStays DEF IInv, RepositoryFits, Begin
<1>2. RunsFit(running)'
  <2>1. running' = [h \in Groups |-> running'[h]]
    BY DEF IInv, RunsFit, Begin
  <2>2. ASSUME NEW r \in {running'[h] : h \in Groups} \ {NoRun}
        PROVE  RunFits(r)'
    <3>1. r = waiting[g] \/ r \in {running[h] : h \in Groups} \ {NoRun}
      BY DEF IInv, RunsFit, Begin
    <3>2. RunFits(r)
      BY <3>1 DEF IInv, RunsFit
    <3> QED BY <3>2, <1>1, RunStays DEF RepositoryFits
  <2> QED BY <2>1, <2>2 DEF RunsFit
<1>3. RunsFit(waiting)' /\ \A h \in Groups : waiting'[h] # NoRun => waiting'[h].at = "ci"
  <2>1. waiting' = [h \in Groups |-> waiting'[h]]
    BY DEF IInv, RunsFit, Begin
  <2>2. \A r \in {waiting'[h] : h \in Groups} \ {NoRun} : RunFits(r)'
    <3>1. {waiting'[h] : h \in Groups} \subseteq {waiting[h] : h \in Groups} \cup {NoRun}
      BY DEF IInv, RunsFit, Begin
    <3> QED BY <3>1, <1>1, RunStays DEF RepositoryFits, IInv, RunsFit
  <2>3. \A h \in Groups : waiting'[h] # NoRun => waiting'[h].at = "ci"
    BY DEF IInv, RunsFit, Begin
  <2> QED BY <2>1, <2>2, <2>3 DEF RunsFit
<1>4. \A clone \in {maintainer'} \ {NoClone} : CloneFits(clone)'
  BY <1>1, CloneStays DEF IInv, RepositoryFits, Begin
<1> QED BY <1>1, <1>2, <1>3, <1>4 DEF IInv, RepositoryFits

\* A run that fitted before a step fits after it.
LEMMA RunMovesOn ==
  ASSUME IInv, RepositoryFits', Grows,
         NEW g \in Groups, NEW run, Moves(g, run), run # NoRun => RunFits(run)
  PROVE  IInv'
<1>1. run # NoRun => RunFits(run)'
  BY RunStays DEF IInv, RepositoryFits
<1> QED BY <1>1, RunMoves

\* After ci, or after a tag job that pushes nothing more.
LEMMA InvAfterTag ==
  ASSUME IInv, RepositoryFits', Grows, NEW g \in Groups,
         running[g].at \in {"ci", "tag.bump", "tag.main", "tag.push"},
         Moves(g, AfterTag(running[g]))
  PROVE  IInv'
<1>1. PICK next : next = AfterTag(running[g])
  OBVIOUS
<1>2. Moves(g, next)
  BY <1>1
<1>3. next # NoRun => RunFits(next)
  BY <1>1, RunAtStep, AfterTagFits
<1> QED BY <1>2, <1>3, RunMovesOn

LEMMA InvFinishCi ==
  ASSUME IInv, NEW g \in Groups, FinishCi(g)
  PROVE  IInv'
<1>1. RepositoryFits' /\ Grows
  BY RepositoryStays DEF IInv, RepositoryFits, FinishCi
<1>2. running[g].at = "ci" /\ RunFits(running[g])
  BY RunAtStep DEF FinishCi, At
<1>3. CASE Moves(g, [running[g] EXCEPT !.at = "tag.bump"])
  <2>1. PICK next : next = [running[g] EXCEPT !.at = "tag.bump"]
    OBVIOUS
  <2>2. RunFits(next)
    BY <1>2, <2>1 DEF RunFits, RunType, HasRelease, Tag
  <2> QED BY <1>1, <1>3, <2>1, <2>2, RunMovesOn
<1>4. CASE Moves(g, AfterTag(running[g]))
  BY <1>1, <1>2, <1>4, InvAfterTag
<1>5. CASE Moves(g, NoRun)
  BY <1>1, <1>5, RunMovesOn
<1> QED BY <1>3, <1>4, <1>5 DEF FinishCi, GoTo

LEMMA InvBump ==
  ASSUME IInv, NEW g \in Groups, Bump(g)
  PROVE  IInv'
<1> DEFINE run == running[g]
<1>1. RepositoryFits' /\ Grows /\ RepositoryFits
  BY RepositoryStays DEF IInv, RepositoryFits, Bump
<1>2. run.at = "tag.bump" /\ RunFits(run)
  BY RunAtStep DEF Bump, At
<1>3. CASE /\ Bumpable(run.base)
           /\ Moves(g, [run EXCEPT !.at = "tag.main", !.version = NextVersion(run.base)])
  <2>1. PICK next : next = [run EXCEPT !.at = "tag.main", !.version = NextVersion(run.base)]
    OBVIOUS
  <2>2. Due(NextVersion(run.base))
    BY <1>1, <1>3, NextVersionIsDue
  <2>3. NextVersion(run.base) \in 0 .. MaxVersion
    BY <2>2, BoundAssumption DEF Due, Versions
  <2>4. RunFits(next)
    BY <1>2, <2>1, <2>2, <2>3 DEF RunFits, RunType, HasRelease, Tag
  <2> QED BY <1>1, <1>3, <2>1, <2>4, RunMovesOn
<1>4. CASE Moves(g, AfterTag(run))
  BY <1>1, <1>2, <1>4, InvAfterTag
<1> QED BY <1>3, <1>4 DEF Bump

LEMMA InvBumpPushesMain ==
  ASSUME IInv, NEW g \in Groups, BumpPushesMain(g)
  PROVE  IInv'
<1> DEFINE run == running[g]
<1>1. RepositoryFits
  BY DEF IInv, RepositoryFits
<1>2. run.at = "tag.main" /\ RunFits(run)
  BY RunAtStep DEF BumpPushesMain, At
<1>3. CASE PushMain(run) /\ GoTo(g, "tag.push")
  <2>1. PICK next : next = [run EXCEPT !.at = "tag.push"]
    OBVIOUS
  <2>2. PICK commit : commit = [version |-> run.version, kind |-> "version"]
    OBVIOUS
  <2>3. commit \in Commit
    BY <1>2, <2>2 DEF RunFits, RunType, Commit
  <2>4. /\ MainHead < MaxCommits /\ MainHead = run.base /\ main' = Append(main, commit)
        /\ UNCHANGED <<tags, registry, releases>>
    BY <1>3, <2>2 DEF PushMain, CanPushMain, BumpPushesMain
  <2>5. /\ RepositoryFits' /\ Grows
        /\ MainHead' = MainHead + 1 /\ main'[MainHead + 1] = commit
    <3>1. Due(commit.version)
      BY <1>2, <2>2 DEF RunFits
    <3> QED BY <1>1, <2>3, <2>4, <3>1, MainGrows
  <2>6. HasPushedMain(next.base, next.version)'
    <3>1. next.base = MainHead /\ next.version = run.version
      BY <1>2, <2>1, <2>4 DEF RunFits, RunType
    <3>2. MainHead \in 1 .. MaxCommits
      BY <1>1 DEF RepositoryFits, MainFits
    <3> QED BY <2>2, <2>5, <3>1, <3>2, BoundAssumption DEF HasPushedMain
  <2>7. PICK old : old = run
    OBVIOUS
  <2>8. RunFits(old)'
    BY <1>1, <1>2, <2>5, <2>7, RunStays DEF RepositoryFits
  <2>9. RunFits(next)'
    BY <1>2, <2>1, <2>6, <2>7, <2>8 DEF RunFits, RunType, HasRelease, Tag
  <2> QED BY <1>3, <2>1, <2>5, <2>9, RunMoves DEF GoTo
<1>4. CASE Moves(g, AfterTag(run)) /\ UNCHANGED main
  <2>1. RepositoryFits' /\ Grows
    BY <1>1, <1>4, RepositoryStays DEF BumpPushesMain
  <2> QED BY <1>2, <1>4, <2>1, InvAfterTag
<1> QED BY <1>3, <1>4 DEF BumpPushesMain

\* The clone of a run that is to push its tag.
LEMMA RunPushesTag ==
  ASSUME IInv, NEW run, RunFits(run), run.at = "tag.push",
         PushTag(run) \/ UNCHANGED tags, UNCHANGED <<main, registry, releases>>
  PROVE  RepositoryFits' /\ Grows
<1>1. RepositoryFits
  BY DEF IInv, RepositoryFits
<1>2. Due(run.version) /\ HasPushedMain(run.base, run.version)
  BY DEF RunFits
<1> QED BY <1>1, <1>2, TagsGrow, RepositoryStays

LEMMA InvBumpPushesTag ==
  ASSUME IInv, NEW g \in Groups, BumpPushesTag(g)
  PROVE  IInv'
<1>1. PICK run : run = running[g]
  OBVIOUS
<1>2. run.at = "tag.push" /\ RunFits(run)
  BY <1>1, RunAtStep DEF BumpPushesTag, At
<1>3. RepositoryFits' /\ Grows
  BY <1>1, <1>2, RunPushesTag DEF BumpPushesTag
<1>4. CASE PushTag(run) /\ Moves(g, AfterTag([run EXCEPT !.tag = run.version]))
  <2>1. PICK tagged : tagged = [run EXCEPT !.tag = run.version]
    OBVIOUS
  <2>2. RunFits(tagged) /\ tagged.at = "tag.push"
    BY <1>2, <2>1 DEF RunFits, RunType, HasRelease, Tag
  <2>3. PICK next : next = AfterTag(tagged)
    OBVIOUS
  <2>4. next # NoRun => RunFits(next)
    BY <2>2, <2>3, AfterTagFits
  <2> QED BY <1>3, <1>4, <2>1, <2>3, <2>4, RunMovesOn
<1>5. CASE Moves(g, AfterTag(run))
  BY <1>1, <1>2, <1>3, <1>5, InvAfterTag
<1> QED BY <1>1, <1>4, <1>5 DEF BumpPushesTag

LEMMA InvTagJobCancelled ==
  ASSUME IInv, NEW g \in Groups, TagJobCancelled(g)
  PROVE  IInv'
<1>1. PICK run : run = running[g]
  OBVIOUS
<1>2. run.at \in {"tag.bump", "tag.main", "tag.push"} /\ RunFits(run)
  BY <1>1, RunAtStep DEF TagJobCancelled
<1>3. RepositoryFits' /\ Grows
  <2>1. CASE UNCHANGED tags
    BY <2>1, RepositoryStays DEF IInv, RepositoryFits, TagJobCancelled
  <2>2. CASE run.at = "tag.push" /\ PushTag(run)
    BY <1>2, <2>2, RunPushesTag DEF TagJobCancelled
  <2> QED BY <1>1, <2>1, <2>2 DEF TagJobCancelled
<1> QED BY <1>1, <1>2, <1>3, InvAfterTag DEF TagJobCancelled

\* What a run publishes is the version that its tag says.
LEMMA ManifestIsTag ==
  ASSUME RepositoryFits, NEW run, RunFits(run), HasRelease(run), TagIsThere(run)
  PROVE  Tag(run) \in Versions /\ Manifest(Tag(run)) = Tag(run)
<1>1. Tag(run) \in Versions
  BY TagType DEF RunFits
<1>2. PICK v \in Versions : v = Tag(run)
  BY <1>1
<1>3. main[tags[v]] = [version |-> v, kind |-> "version"]
  BY <1>2 DEF TagIsThere, RepositoryFits, TagsFit, TagNamesItsVersion
<1>4. main[tags[v]].version = v
  BY <1>3
<1> QED BY <1>2, <1>4 DEF Manifest

\* A step of publish keeps the repository as it should be, and where it goes on the
\* crate is in the registry.
LEMMA PublishSteps ==
  ASSUME IInv, NEW g \in Groups, NEW step, NEW crate \in Crates, NEW next,
         Publish(g, step, crate, next),
         step \in {"publish.derive", "publish.core"}
  PROVE  /\ RepositoryFits' /\ Grows
         /\ RunFits(running[g]) /\ running[g].at = step
         /\ \/ /\ GoTo(g, next)
               /\ Tag(running[g]) \in Versions
               /\ Tag(running[g]) \in registry'[crate]
            \/ Moves(g, [running[g] EXCEPT !.at = "release", !.publish = "failure"])
<1> DEFINE run == running[g]
           uploads == TagIsThere(run) /\ Uploads(crate, Manifest(Tag(run)))
<1>1. run.at = step /\ RunFits(run)
  BY RunAtStep DEF Publish, At
<1>2. RepositoryFits
  BY DEF IInv, RepositoryFits
<1>3. ASSUME uploads
      PROVE  /\ RepositoryFits' /\ Grows
             /\ Tag(run) \in Versions /\ Tag(run) \in registry'[crate]
  <2>1. Tag(run) \in Versions /\ Manifest(Tag(run)) = Tag(run)
    BY <1>1, <1>2, <1>3, ManifestIsTag DEF RunFits
  <2> QED BY <1>2, <1>3, <2>1, RegistryGrows DEF Publish
<1>4. ASSUME UNCHANGED registry
      PROVE  RepositoryFits' /\ Grows
  BY <1>2, <1>4, RepositoryStays DEF Publish
<1> QED BY <1>1, <1>3, <1>4 DEF Publish

\* A step of publish that fails.
LEMMA InvPublishFails ==
  ASSUME IInv, RepositoryFits', Grows, NEW g \in Groups,
         RunFits(running[g]), running[g].at \in {"publish.derive", "publish.core"},
         Moves(g, [running[g] EXCEPT !.at = "release", !.publish = "failure"])
  PROVE  IInv'
<1>1. PICK next : next = [running[g] EXCEPT !.at = "release", !.publish = "failure"]
  OBVIOUS
<1>2. RunFits(next)
  BY <1>1 DEF RunFits, RunType, HasRelease, Tag
<1> QED BY <1>1, <1>2, RunMovesOn

LEMMA InvPublishDerive ==
  ASSUME IInv, NEW g \in Groups, PublishDerive(g)
  PROVE  IInv'
<1>1. PICK run : run = running[g]
  OBVIOUS
<1>2. /\ RepositoryFits' /\ Grows
      /\ RunFits(run) /\ run.at = "publish.derive"
      /\ \/ /\ GoTo(g, "publish.core")
            /\ Tag(run) \in registry'["pso-protocol-derive"]
         \/ Moves(g, [run EXCEPT !.at = "release", !.publish = "failure"])
  BY <1>1, PublishSteps DEF PublishDerive, Crates
<1>3. CASE GoTo(g, "publish.core") /\ Tag(run) \in registry'["pso-protocol-derive"]
  <2>1. PICK next : next = [run EXCEPT !.at = "publish.core"]
    OBVIOUS
  <2>2. RunFits(run)' /\ HasDerive(Tag(run))'
    BY <1>2, <1>3, RunStays DEF IInv, RepositoryFits, HasDerive
  <2>3. RunFits(next)'
    BY <1>2, <2>1, <2>2 DEF RunFits, RunType, HasRelease, Tag
  <2> QED BY <1>1, <1>2, <1>3, <2>1, <2>3, RunMoves DEF GoTo
<1> QED BY <1>1, <1>2, <1>3, InvPublishFails

LEMMA InvPublishCore ==
  ASSUME IInv, NEW g \in Groups, PublishCore(g)
  PROVE  IInv'
<1>1. PICK run : run = running[g]
  OBVIOUS
<1>2. /\ RepositoryFits' /\ Grows
      /\ RunFits(run) /\ run.at = "publish.core"
      /\ \/ /\ GoTo(g, "publish.package")
            /\ Tag(run) \in registry'["pso-protocol"]
         \/ Moves(g, [run EXCEPT !.at = "release", !.publish = "failure"])
  BY <1>1, PublishSteps DEF PublishCore, Crates
<1>3. CASE GoTo(g, "publish.package") /\ Tag(run) \in registry'["pso-protocol"]
  <2>1. PICK next : next = [run EXCEPT !.at = "publish.package"]
    OBVIOUS
  <2>2. RunFits(run)'
    BY <1>2, RunStays DEF IInv, RepositoryFits
  <2>3. HasBoth(Tag(run))'
    BY <1>2, <1>3, <2>2 DEF RunFits, HasBoth, HasDerive, Crates
  <2>4. RunFits(next)'
    BY <1>2, <2>1, <2>2, <2>3 DEF RunFits, RunType, HasRelease, Tag
  <2> QED BY <1>1, <1>2, <1>3, <2>1, <2>4, RunMoves DEF GoTo
<1> QED BY <1>1, <1>2, <1>3, InvPublishFails

LEMMA InvPackage ==
  ASSUME IInv, NEW g \in Groups, Package(g)
  PROVE  IInv'
<1>1. RepositoryFits' /\ Grows
  BY RepositoryStays DEF IInv, RepositoryFits, Package
<1>2. running[g].at = "publish.package" /\ RunFits(running[g])
  BY RunAtStep DEF Package, At
<1>3. PICK result \in {"success", "failure"} :
        Moves(g, [running[g] EXCEPT !.at = "release", !.publish = result])
  BY DEF Package
<1>4. PICK next : next = [running[g] EXCEPT !.at = "release", !.publish = result]
  OBVIOUS
<1>5. RunFits(next)
  BY <1>2, <1>4 DEF RunFits, RunType, HasRelease, Tag
<1> QED BY <1>1, <1>3, <1>4, <1>5, RunMovesOn

\* An entry is given assets only after both crates are published.
LEMMA ReleasesGrow ==
  ASSUME RepositoryFits, NEW run, RunFits(run), HasRelease(run),
         Creates(run) \/ (run.publish = "success" /\ Signs(run)),
         UNCHANGED <<main, tags, registry>>
  PROVE  RepositoryFits' /\ Grows
<1>1. Tag(run) \in Versions
  BY TagType DEF RunFits
<1>2. run.publish = "success" => \A c \in Crates : Tag(run) \in registry[c]
  BY DEF RunFits, HasBoth
<1>3. ReleasesFit'
  BY <1>1, <1>2 DEF RepositoryFits, ReleasesFit, SignedIsPublished, Creates, Signs
<1> QED BY <1>3 DEF RepositoryFits, MainFits, TagsFit, Grows, MainHead,
                    TagNamesItsVersion, NoGap, CommitsDue, Due

LEMMA InvGithubRelease ==
  ASSUME IInv, NEW g \in Groups, GithubRelease(g)
  PROVE  IInv'
<1>1. PICK run : run = running[g]
  OBVIOUS
<1>2. run.at = "release" /\ RunFits(run) /\ HasRelease(run)
  BY <1>1, RunAtStep DEF GithubRelease, At, RunFits
<1>3. RepositoryFits' /\ Grows
  <2>1. CASE UNCHANGED releases
    BY <2>1, RepositoryStays DEF IInv, RepositoryFits, GithubRelease
  <2>2. CASE Creates(run)
    BY <1>2, <2>2, ReleasesGrow DEF IInv, RepositoryFits, GithubRelease
  <2>3. UNCHANGED releases \/ Creates(running[g])
    BY DEF GithubRelease, Creates
  <2> QED BY <1>1, <2>1, <2>2, <2>3
<1>4. CASE TagIsThere(run) /\ run.publish = "success" /\ Moves(g, [run EXCEPT !.at = "assets"])
  <2>1. PICK next : next = [run EXCEPT !.at = "assets"]
    OBVIOUS
  <2>2. RunFits(next)
    BY <1>2, <1>4, <2>1 DEF RunFits, RunType, HasRelease, Tag, TagIsThere
  <2> QED BY <1>3, <1>4, <2>1, <2>2, RunMovesOn
<1>5. CASE Moves(g, NoRun)
  BY <1>3, <1>5, RunMovesOn
<1> QED BY <1>1, <1>4, <1>5 DEF GithubRelease, GoTo

LEMMA InvAttachAssets ==
  ASSUME IInv, NEW g \in Groups, AttachAssets(g)
  PROVE  IInv'
<1>1. PICK run : run = running[g]
  OBVIOUS
<1>2. /\ run.at = "assets" /\ RunFits(run) /\ HasRelease(run) /\ run.publish = "success"
  BY <1>1, RunAtStep DEF AttachAssets, At, RunFits
<1>3. RepositoryFits' /\ Grows
  <2>1. CASE UNCHANGED releases
    BY <2>1, RepositoryStays DEF IInv, RepositoryFits, AttachAssets
  <2>2. CASE Signs(run)
    BY <1>2, <2>2, ReleasesGrow DEF IInv, RepositoryFits, AttachAssets
  <2> QED BY <1>1, <2>1, <2>2 DEF AttachAssets, Signs
<1>4. CASE Moves(g, [run EXCEPT !.at = "verify"])
  <2>1. PICK next : next = [run EXCEPT !.at = "verify"]
    OBVIOUS
  <2>2. RunFits(next)
    BY <1>2, <2>1 DEF RunFits, RunType, HasRelease, Tag
  <2> QED BY <1>3, <1>4, <2>1, <2>2, RunMovesOn
<1>5. CASE Moves(g, NoRun)
  BY <1>3, <1>5, RunMovesOn
<1> QED BY <1>1, <1>4, <1>5 DEF AttachAssets, GoTo

LEMMA InvVerifyRelease ==
  ASSUME IInv, NEW g \in Groups, VerifyRelease(g)
  PROVE  IInv'
<1>1. RepositoryFits' /\ Grows
  BY RepositoryStays DEF IInv, RepositoryFits, VerifyRelease
<1> QED BY <1>1, RunMovesOn DEF VerifyRelease

LEMMA InvStep ==
  ASSUME IInv, NEW g \in Groups, Step(g)
  PROVE  IInv'
BY InvFinishCi, InvBump, InvBumpPushesMain, InvBumpPushesTag, InvTagJobCancelled,
   InvPublishDerive, InvPublishCore, InvPackage, InvGithubRelease, InvAttachAssets,
   InvVerifyRelease
   DEF Step

-----------------------------------------------------------------------------
(***************************************************************************)
(* The events.                                                             *)
(***************************************************************************)
LEMMA NewRunFits ==
  ASSUME NEW event \in {"push", "schedule", "workflow_dispatch"}, NEW base,
         NEW release_tag \in 0 .. MaxVersion, NEW run, run = Run(event, base, release_tag)
  PROVE  /\ run.at = "ci"
         /\ base \in 1 .. MainHead => RunFits(run)
         /\ base \in 1 .. MainHead' => RunFits(run)'
<1>1. run = [at |-> "ci", event |-> event, base |-> base, release_tag |-> release_tag,
             cancelled |-> FALSE, version |-> 0, tag |-> 0, publish |-> "skipped"]
  BY DEF Run
<1>2. 0 \in 0 .. MaxVersion
  BY BoundAssumption
<1> QED BY <1>1, <1>2 DEF RunFits, RunType

\* An event on any ref, after which the repository is as it should be.
LEMMA InvTriggered ==
  ASSUME IInv, RepositoryFits', Grows, UNCHANGED maintainer,
         NEW g \in Groups, NEW event \in {"push", "schedule", "workflow_dispatch"},
         NEW base, NEW release_tag \in 0 .. MaxVersion, base \in 1 .. MainHead',
         Trigger(g, Run(event, base, release_tag))
  PROVE  IInv'
<1>1. PICK run : run = Run(event, base, release_tag)
  OBVIOUS
<1>2. RunFits(run)' /\ run.at = "ci"
  BY <1>1, NewRunFits
<1>3. /\ RunsFit(running)' /\ RunsFit(waiting)'
      /\ \A h \in Groups : waiting'[h] # NoRun => waiting'[h].at = "ci"
  BY <1>1, <1>2, EventTriggers DEF RepositoryFits
<1>4. \A clone \in {maintainer'} \ {NoClone} : CloneFits(clone)'
  BY CloneStays DEF IInv, RepositoryFits
<1> QED BY <1>3, <1>4 DEF IInv, RepositoryFits

LEMMA HeadIsCommit ==
  ASSUME RepositoryFits
  PROVE  /\ 0 \in Groups /\ Versions \subseteq 0 .. MaxVersion /\ Versions \subseteq Groups
         /\ MainHead \in 1 .. MaxCommits /\ main[MainHead] \in Commit
<1>1. MainHead \in 1 .. MaxCommits /\ main \in Seq(Commit)
  BY DEF RepositoryFits, MainFits
<1>2. main[MainHead] \in Commit
  BY <1>1, BoundAssumption, ElementOfSeq DEF MainHead
<1> QED BY <1>1, <1>2, BoundAssumption DEF Groups, Versions

LEMMA InvDeveloperPushes ==
  ASSUME IInv, DeveloperPushes
  PROVE  IInv'
<1>1. RepositoryFits
  BY DEF IInv, RepositoryFits
<1>2. PICK commit : commit = [version |-> main[MainHead].version, kind |-> "change"]
  OBVIOUS
<1>3. commit \in Commit /\ 0 \in Groups /\ MainHead \in 1 .. MaxCommits
  BY <1>1, <1>2, HeadIsCommit DEF Commit
<1>4. RepositoryFits' /\ Grows /\ MainHead' = MainHead + 1
  <2>1. commit.kind # "version"
    BY <1>2
  <2> QED BY <1>1, <1>2, <1>3, <2>1, MainGrows DEF DeveloperPushes
<1>5. MainHead + 1 \in 1 .. MainHead' /\ 0 \in 0 .. MaxVersion
  BY <1>3, <1>4, BoundAssumption
<1> QED BY <1>3, <1>4, <1>5, InvTriggered DEF DeveloperPushes

LEMMA InvDispatch ==
  ASSUME IInv, NEW event \in {"schedule", "workflow_dispatch"},
         NEW release_tag \in 0 .. MaxVersion,
         Trigger(0, Run(event, MainHead, release_tag)),
         UNCHANGED <<main, tags, registry, releases, maintainer>>
  PROVE  IInv'
<1>1. RepositoryFits /\ RepositoryFits' /\ Grows
  BY RepositoryStays DEF IInv, RepositoryFits
<1>2. 0 \in Groups /\ MainHead \in 1 .. MainHead'
  BY <1>1, BoundAssumption, HeadIsCommit DEF Grows, MainHead
<1> QED BY <1>1, <1>2, InvTriggered

LEMMA InvMaintainerBumps ==
  ASSUME IInv, MaintainerBumps
  PROVE  IInv'
<1>1. RepositoryFits' /\ Grows /\ RepositoryFits
  BY RepositoryStays DEF IInv, RepositoryFits, MaintainerBumps
<1>2. PICK clone : clone = [at |-> "main", base |-> MainHead, version |-> NextVersion(MainHead)]
  OBVIOUS
<1>3. Due(clone.version) /\ clone.base \in 1 .. MainHead
  BY <1>1, <1>2, NextVersionIsDue, HeadIsCommit, BoundAssumption DEF MaintainerBumps
<1>4. CloneFits(clone)
  BY <1>2, <1>3 DEF CloneFits, Due
<1>5. CloneFits(clone)'
  BY <1>1, <1>4, CloneStays DEF RepositoryFits
<1>6. RunsFit(running)' /\ RunsFit(waiting)'
  BY <1>1, RunStays DEF IInv, RepositoryFits, RunsFit, MaintainerBumps
<1> QED BY <1>1, <1>2, <1>5, <1>6 DEF IInv, RepositoryFits, MaintainerBumps

\* The maintainer's clone, between its steps.
LEMMA CloneAtStep ==
  ASSUME IInv, maintainer.at \in {"main", "push"}
  PROVE  CloneFits(maintainer)
BY DEF IInv, NoClone

\* A push that fails, or the last one: the clone is gone.
LEMMA InvCloneGone ==
  ASSUME IInv, RepositoryFits', Grows, maintainer' = NoClone,
         UNCHANGED <<running, waiting>>
  PROVE  IInv'
<1>1. RunsFit(running)' /\ RunsFit(waiting)'
  BY RunStays DEF IInv, RepositoryFits, RunsFit
<1> QED BY <1>1 DEF IInv, RepositoryFits

LEMMA InvMaintainerPushesMain ==
  ASSUME IInv, MaintainerPushesMain
  PROVE  IInv'
<1>1. PICK old : old = maintainer
  OBVIOUS
<1>2. old.at = "main" /\ CloneFits(old) /\ RepositoryFits
  BY <1>1, CloneAtStep DEF MaintainerPushesMain, IInv, RepositoryFits
<1>3. CASE /\ PushMain(old) /\ maintainer' = [old EXCEPT !.at = "push"]
           /\ Trigger(0, Run("push", MainHead + 1, 0))
  <2>1. PICK commit : commit = [version |-> old.version, kind |-> "version"]
    OBVIOUS
  <2>2. commit \in Commit /\ 0 \in Groups /\ MainHead \in 1 .. MaxCommits
    BY <1>2, <2>1, HeadIsCommit DEF CloneFits, Commit
  <2>3. /\ MainHead < MaxCommits /\ MainHead = old.base /\ main' = Append(main, commit)
        /\ UNCHANGED <<tags, registry, releases>>
    BY <1>3, <2>1 DEF PushMain, CanPushMain, MaintainerPushesMain
  <2>4. /\ RepositoryFits' /\ Grows
        /\ MainHead' = MainHead + 1 /\ main'[MainHead + 1] = commit
    <3>1. Due(commit.version)
      BY <1>2, <2>1 DEF CloneFits
    <3> QED BY <1>2, <2>2, <2>3, <3>1, MainGrows
  <2>5. CloneFits(old)'
    BY <1>2, <2>4, CloneStays DEF RepositoryFits
  <2>6. PICK new : new = [old EXCEPT !.at = "push"]
    OBVIOUS
  <2>7. HasPushedMain(old.base, old.version)'
    <3>1. old.base = MainHead /\ MainHead \in Nat /\ MainHead' = MainHead + 1
      BY <2>2, <2>3, <2>4, BoundAssumption
    <3>2. main'[old.base + 1] = commit
      BY <2>4, <3>1
    <3> QED BY <2>1, <3>1, <3>2 DEF HasPushedMain
  <2>8. CloneFits(new)'
    BY <2>5, <2>6, <2>7 DEF CloneFits
  <2>9. PICK run : run = Run("push", MainHead + 1, 0)
    OBVIOUS
  <2>10. RunFits(run)' /\ run.at = "ci"
    <3>1. MainHead + 1 \in 1 .. MainHead' /\ 0 \in 0 .. MaxVersion
      BY <2>2, <2>4, BoundAssumption
    <3> QED BY <2>9, <3>1, NewRunFits
  <2>11. /\ RunsFit(running)' /\ RunsFit(waiting)'
         /\ \A h \in Groups : waiting'[h] # NoRun => waiting'[h].at = "ci"
    BY <1>3, <2>2, <2>4, <2>9, <2>10, EventTriggers DEF RepositoryFits
  <2> QED BY <1>3, <2>4, <2>6, <2>8, <2>11 DEF IInv, RepositoryFits
<1>4. CASE maintainer' = NoClone /\ UNCHANGED <<main, running, waiting>>
  <2>1. RepositoryFits' /\ Grows
    BY <1>2, <1>4, RepositoryStays DEF MaintainerPushesMain
  <2> QED BY <1>4, <2>1, InvCloneGone
<1> QED BY <1>1, <1>3, <1>4 DEF MaintainerPushesMain

LEMMA InvMaintainerPushesTag ==
  ASSUME IInv, MaintainerPushesTag
  PROVE  IInv'
<1>1. PICK old : old = maintainer
  OBVIOUS
<1>2. /\ old.at = "push" /\ CloneFits(old) /\ RepositoryFits
      /\ Due(old.version) /\ HasPushedMain(old.base, old.version)
  BY <1>1, CloneAtStep DEF MaintainerPushesTag, IInv, RepositoryFits, CloneFits
<1>3. CASE PushTag(old) /\ Trigger(old.version, Run("push", old.base + 1, old.version))
  <2>1. RepositoryFits' /\ Grows
    BY <1>2, <1>3, TagsGrow DEF MaintainerPushesTag
  <2>2. /\ old.version \in Groups /\ old.version \in 0 .. MaxVersion
        /\ old.base + 1 \in 1 .. MainHead
    BY <1>2, HeadIsCommit DEF Due, HasPushedMain
  <2>3. PICK run : run = Run("push", old.base + 1, old.version)
    OBVIOUS
  <2>4. RunFits(run) /\ run.at = "ci"
    BY <2>2, <2>3, NewRunFits
  <2>5. RunFits(run)'
    BY <1>2, <2>1, <2>4, RunStays DEF RepositoryFits
  <2>6. /\ RunsFit(running)' /\ RunsFit(waiting)'
        /\ \A h \in Groups : waiting'[h] # NoRun => waiting'[h].at = "ci"
    BY <1>3, <2>1, <2>2, <2>3, <2>4, <2>5, EventTriggers DEF RepositoryFits
  <2> QED BY <2>1, <2>6 DEF IInv, RepositoryFits, MaintainerPushesTag
<1>4. CASE UNCHANGED <<tags, running, waiting>>
  <2>1. RepositoryFits' /\ Grows
    BY <1>2, <1>4, RepositoryStays DEF MaintainerPushesTag
  <2> QED BY <1>4, <2>1, InvCloneGone DEF MaintainerPushesTag
<1> QED BY <1>1, <1>3, <1>4 DEF MaintainerPushesTag

\* A version commit is as good as the clone that made it.
LEMMA ManualTagPushes ==
  ASSUME RepositoryFits, NEW v \in Versions, ManualTag(v)
  PROVE  \E c \in 1 .. MainHead :
           /\ LET clone == [base |-> c - 1, version |-> v]
              IN  /\ Due(clone.version) /\ HasPushedMain(clone.base, clone.version)
                  /\ PushTag(clone)
           /\ Trigger(v, Run("push", c, v))
<1>1. PICK c \in 1 .. MainHead :
        /\ main[c] = [version |-> v, kind |-> "version"]
        /\ PushTag([base |-> c - 1, version |-> v])
        /\ Trigger(v, Run("push", c, v))
  BY DEF ManualTag
<1>2. Due(v)
  <2>1. main[c].kind = "version" /\ main[c].version = v
    BY <1>1
  <2> QED BY <2>1 DEF RepositoryFits, TagsFit, CommitsDue
<1>3. HasPushedMain(c - 1, v)
  <2>1. (c - 1) + 1 = c
    OBVIOUS
  <2> QED BY <1>1, <2>1 DEF HasPushedMain
<1> QED BY <1>1, <1>2, <1>3

LEMMA InvManualTag ==
  ASSUME IInv, NEW v \in Versions, ManualTag(v)
  PROVE  IInv'
<1>1. RepositoryFits
  BY DEF IInv, RepositoryFits
<1>2. PICK c \in 1 .. MainHead :
        \E clone \in {[base |-> c - 1, version |-> v]} :
          /\ Due(clone.version) /\ HasPushedMain(clone.base, clone.version)
          /\ PushTag(clone)
          /\ Trigger(v, Run("push", c, v))
  BY <1>1, ManualTagPushes
<1>3. PICK clone \in {[base |-> c - 1, version |-> v]} :
        /\ Due(clone.version) /\ HasPushedMain(clone.base, clone.version)
        /\ PushTag(clone)
        /\ Trigger(v, Run("push", c, v))
  BY <1>2
<1>4. RepositoryFits' /\ Grows
  BY <1>1, <1>3, TagsGrow DEF ManualTag
<1>5. v \in Groups /\ v \in 0 .. MaxVersion /\ c \in 1 .. MainHead'
  BY <1>1, <1>4, HeadIsCommit DEF ManualTag, MainHead
<1> QED BY <1>3, <1>4, <1>5, InvTriggered DEF ManualTag

LEMMA InvNext == IInv /\ [Next]_vars => IInv'
<1> SUFFICES ASSUME IInv, [Next]_vars PROVE IInv'
  OBVIOUS
<1>1. CASE \E g \in Groups : Begin(g) \/ Step(g)
  BY <1>1, InvBegin, InvStep
<1>2. CASE DeveloperPushes
  BY <1>2, InvDeveloperPushes
<1>3. CASE Cron
  <2>1. 0 \in 0 .. MaxVersion
    BY BoundAssumption
  <2> QED BY <1>3, <2>1, InvDispatch DEF Cron
<1>4. CASE \E v \in Versions : Dispatch(v) \/ ManualTag(v)
  <2>1. Versions \subseteq 0 .. MaxVersion
    BY BoundAssumption DEF Versions
  <2> QED BY <1>4, <2>1, InvDispatch, InvManualTag DEF Dispatch
<1>5. CASE MaintainerBumps
  BY <1>5, InvMaintainerBumps
<1>6. CASE MaintainerPushesMain
  BY <1>6, InvMaintainerPushesMain
<1>7. CASE MaintainerPushesTag
  BY <1>7, InvMaintainerPushesTag
<1>8. CASE UNCHANGED vars
  <2>1. MainFits' /\ Grows
    BY <1>8 DEF vars, IInv, MainFits, MainHead, Grows
  <2>2. TagsFit' /\ ReleasesFit'
    BY <1>8 DEF vars, IInv, TagsFit, ReleasesFit, MainHead, TagNamesItsVersion, NoGap,
                CommitsDue, Due, SignedIsPublished, HasBoth
  <2>3. RunsFit(running)' /\ RunsFit(waiting)'
    <3>1. ASSUME NEW run, RunFits(run) PROVE RunFits(run)'
      BY <2>1, <3>1, RunStays DEF IInv
    <3> QED BY <3>1, <1>8 DEF vars, IInv, RunsFit
  <2>4. \A clone \in {maintainer} \ {NoClone} : CloneFits(clone)'
    BY <2>1, CloneStays DEF IInv
  <2> QED BY <2>1, <2>2, <2>3, <2>4, <1>8 DEF vars, IInv
<1> QED BY <1>1, <1>2, <1>3, <1>4, <1>5, <1>6, <1>7, <1>8 DEF Next

LEMMA Invariance == Spec => []IInv
BY InvInit, InvNext, PTL DEF Spec

-----------------------------------------------------------------------------
(***************************************************************************)
(* The theorems.                                                           *)
(***************************************************************************)
\* Runs and tags refer to commits that main has, whatever is pushed, triggered or
\* cancelled in between.
THEOREM TypeCorrectness == Spec => []TypeOK
<1>1. IInv => TypeOK
  <2> SUFFICES ASSUME IInv PROVE TypeOK
    OBVIOUS
  <2>1. MainHead <= MaxCommits
    BY BoundAssumption DEF IInv, MainFits
  <2>2. running \in [Groups -> RunType \cup {NoRun}]
    BY DEF IInv, RunsFit, RunFits
  <2>3. waiting \in [Groups -> {r \in RunType : r.at = "ci"} \cup {NoRun}]
    BY DEF IInv, RunsFit, RunFits
  <2> QED BY <2>1, <2>2, <2>3 DEF TypeOK, IInv, TagsFit, ReleasesFit
<1> QED BY <1>1, Invariance, PTL

\* Whoever bumps, the tag of a version names a commit whose manifest has that
\* version (cog.toml:13-16).
THEOREM TagCorrectness == Spec => []TagNamesItsVersion
<1>1. IInv => TagNamesItsVersion
  BY DEF IInv, TagsFit
<1> QED BY <1>1, Invariance, PTL

\* A bump whose tag was lost does not use its version up.
THEOREM VersionContinuity == Spec => []NoVersionSkipped
<1>1. IInv => NoVersionSkipped
  <2> SUFFICES ASSUME IInv, NEW v \in Versions, v > 1, tags[v] # 0
               PROVE  tags[v - 1] # 0
    BY DEF NoVersionSkipped
  <2>1. v - 1 \in Versions /\ v - 1 < v
    BY BoundAssumption DEF Versions
  <2> QED BY <2>1 DEF IInv, TagsFit, NoGap
<1> QED BY <1>1, Invariance, PTL

\* Only what both crates published is announced with signed artifacts, also when runs
\* of two refs release one tag.
THEOREM SigningCorrectness == Spec => []SignedIsPublished
<1>1. IInv => SignedIsPublished
  BY DEF IInv, ReleasesFit
<1> QED BY <1>1, Invariance, PTL

-----------------------------------------------------------------------------
(***************************************************************************)
(* The refinement: what a step does that users of the crates see.          *)
(***************************************************************************)
\* The last version of the tags t, which ReleaseLine calls tagged.
Newest(t) == Max({0} \cup {v \in Versions : t[v] # 0})

\* Where no version was skipped, the tagged ones are those up to the last.
LEMMA NewestIsLast ==
  ASSUME NEW t, \A v, w \in Versions : w < v /\ t[v] # 0 => t[w] # 0
  PROVE  /\ Newest(t) \in 0 .. MaxVersion
         /\ \A v \in Versions : t[v] # 0 <=> v <= Newest(t)
<1> DEFINE S == {0} \cup {v \in Versions : t[v] # 0}
<1>1. S \in SUBSET (0 .. MaxVersion) /\ S # {} /\ MaxVersion \in Nat
  BY BoundAssumption DEF Versions
<1>2. Max(S) \in S /\ \A y \in S : Max(S) >= y
  <2> HIDE DEF S
  <2> QED BY <1>1, MaxIsGreatest
<1>3. Newest(t) \in S /\ \A y \in S : Newest(t) >= y
  BY <1>2 DEF Newest
<1> QED BY <1>1, <1>3 DEF Versions

TagsOne ==
  /\ \E clone : /\ Due(clone.version) /\ HasPushedMain(clone.base, clone.version)
                /\ PushTag(clone)
  /\ UNCHANGED <<registry, releases>>
PublishesOne ==
  /\ \E crate \in Crates, v \in Versions :
       /\ tags[v] # 0 /\ Uploads(crate, v)
       /\ crate = "pso-protocol" => HasDerive(v)
  /\ UNCHANGED <<tags, releases>>
AnnouncesOne ==
  /\ \E run : /\ RunFits(run) /\ HasRelease(run) /\ TagIsThere(run)
              /\ Creates(run) \/ (run.publish = "success" /\ Signs(run))
  /\ UNCHANGED <<tags, registry>>
NothingSeen == UNCHANGED <<tags, registry, releases>>

LEMMA RunIsSeen ==
  ASSUME IInv, NEW g \in Groups, Step(g)
  PROVE  TagsOne \/ PublishesOne \/ AnnouncesOne \/ NothingSeen
<1>1. PICK run : run = running[g]
  OBVIOUS
<1>2. run.at # "none" => RunFits(run)
  BY <1>1, RunAtStep
<1>3. CASE BumpPushesTag(g) \/ TagJobCancelled(g)
  <2>1. CASE run.at = "tag.push" /\ PushTag(run)
    <3>1. Due(run.version) /\ HasPushedMain(run.base, run.version)
      BY <1>2, <2>1 DEF RunFits
    <3> QED BY <1>3, <2>1, <3>1 DEF TagsOne, BumpPushesTag, TagJobCancelled
  <2>2. CASE UNCHANGED tags
    BY <1>3, <2>2 DEF NothingSeen, BumpPushesTag, TagJobCancelled
  <2> QED BY <1>1, <1>3, <2>1, <2>2 DEF BumpPushesTag, TagJobCancelled, At
<1>4. ASSUME NEW step \in {"publish.derive", "publish.core"}, NEW crate \in Crates, NEW next,
             Publish(g, step, crate, next), step = "publish.core" <=> crate = "pso-protocol"
      PROVE  PublishesOne \/ NothingSeen
  <2>1. run.at = step /\ RunFits(run) /\ HasRelease(run)
    BY <1>1, <1>2, <1>4 DEF Publish, At, RunFits
  <2>2. CASE TagIsThere(run) /\ Uploads(crate, Manifest(Tag(run)))
    <3>1. Tag(run) \in Versions /\ Manifest(Tag(run)) = Tag(run)
      BY <2>1, <2>2, ManifestIsTag DEF IInv, RepositoryFits
    <3>2. tags[Tag(run)] # 0 /\ Uploads(crate, Tag(run))
      BY <2>2, <3>1 DEF TagIsThere
    <3>3. crate = "pso-protocol" => HasDerive(Tag(run))
      BY <1>4, <2>1 DEF RunFits
    <3> QED BY <1>4, <3>1, <3>2, <3>3 DEF PublishesOne, Publish
  <2>3. CASE UNCHANGED registry
    BY <1>4, <2>3 DEF NothingSeen, Publish
  <2> QED BY <1>1, <1>4, <2>2, <2>3 DEF Publish
<1>5. CASE PublishDerive(g) \/ PublishCore(g)
  BY <1>4, <1>5 DEF PublishDerive, PublishCore, Crates
<1>6. CASE GithubRelease(g)
  <2>1. RunFits(run) /\ HasRelease(run)
    BY <1>1, <1>2, <1>6 DEF GithubRelease, At, RunFits
  <2>2. \/ TagIsThere(running[g]) /\ Creates(running[g]) /\ UNCHANGED <<tags, registry>>
        \/ NothingSeen
    BY <1>6 DEF GithubRelease, Creates, NothingSeen
  <2> QED BY <1>1, <2>1, <2>2 DEF AnnouncesOne
<1>7. CASE AttachAssets(g)
  <2>1. RunFits(run) /\ HasRelease(run) /\ run.publish = "success" /\ TagIsThere(run)
    BY <1>1, <1>2, <1>7 DEF AttachAssets, At, RunFits
  <2> QED BY <1>1, <1>7, <2>1 DEF AttachAssets, Signs, AnnouncesOne, NothingSeen
<1>8. CASE FinishCi(g) \/ Bump(g) \/ BumpPushesMain(g) \/ Package(g) \/ VerifyRelease(g)
  BY <1>8 DEF FinishCi, Bump, BumpPushesMain, Package, VerifyRelease, NothingSeen
<1> QED BY <1>3, <1>5, <1>6, <1>7, <1>8 DEF Step

LEMMA StepIsSeen ==
  ASSUME IInv, [Next]_vars
  PROVE  TagsOne \/ PublishesOne \/ AnnouncesOne \/ NothingSeen
<1>1. CASE \E g \in Groups : Step(g)
  BY <1>1, RunIsSeen
<1>2. CASE MaintainerPushesTag
  <2>1. CASE PushTag(maintainer)
    <3>1. Due(maintainer.version) /\ HasPushedMain(maintainer.base, maintainer.version)
      BY <1>2, CloneAtStep DEF MaintainerPushesTag, CloneFits
    <3> QED BY <1>2, <2>1, <3>1 DEF TagsOne, MaintainerPushesTag
  <2>2. CASE UNCHANGED tags
    BY <1>2, <2>2 DEF NothingSeen, MaintainerPushesTag
  <2> QED BY <1>2, <2>1, <2>2 DEF MaintainerPushesTag
<1>3. CASE \E v \in Versions : ManualTag(v)
  <2>1. PICK v \in Versions : ManualTag(v)
    BY <1>3
  <2>2. \E clone : /\ Due(clone.version) /\ HasPushedMain(clone.base, clone.version)
                   /\ PushTag(clone)
    BY <2>1, ManualTagPushes DEF IInv, RepositoryFits
  <2> QED BY <2>1, <2>2 DEF TagsOne, ManualTag
<1>4. CASE \/ \E g \in Groups : Begin(g)
           \/ DeveloperPushes \/ Cron \/ \E v \in Versions : Dispatch(v)
           \/ MaintainerBumps \/ MaintainerPushesMain
           \/ UNCHANGED vars
  BY <1>4 DEF NothingSeen, Begin, DeveloperPushes, Cron, Dispatch, MaintainerBumps,
              MaintainerPushesMain, vars
<1> QED BY <1>1, <1>2, <1>3, <1>4 DEF Next

\* The pipeline implements the line of releases that users rely on: a push of a tag,
\* an upload and a release entry are its steps, and everything else a stutter.
THEOREM Refinement == Spec => ImplementsReleaseLine
<1>1. Init => Released!Init
  <2> SUFFICES ASSUME Init PROVE Released!Init
    OBVIOUS
  <2>1. \A v \in Versions : tags[v] = 0
    BY DEF Init
  <2>2. /\ Newest(tags) \in 0 .. MaxVersion
        /\ \A v \in Versions : tags[v] # 0 <=> v <= Newest(tags)
    BY <2>1, NewestIsLast
  <2>3. Newest(tags) = 0
    BY <2>1, <2>2, BoundAssumption DEF Versions
  <2>4. registry = [c \in {"pso-protocol", "pso-protocol-derive"} |-> {}]
    BY DEF Init, Crates
  <2> QED BY <2>3, <2>4 DEF Init, Released!Init, Newest
<1>2. IInv /\ IInv' /\ [Next]_vars => [Released!Next]_<<Newest(tags), registry, releases>>
  <2> SUFFICES ASSUME IInv, IInv', [Next]_vars
               PROVE  [Released!Next]_<<Newest(tags), registry, releases>>
    OBVIOUS
  <2>1. /\ Newest(tags) \in 0 .. MaxVersion /\ Newest(tags') \in 0 .. MaxVersion
        /\ \A v \in Versions : tags[v] # 0 <=> v <= Newest(tags)
        /\ \A v \in Versions : tags'[v] # 0 <=> v <= Newest(tags')
    <3>1. /\ \A v, w \in Versions : w < v /\ tags[v] # 0 => tags[w] # 0
          /\ \A v, w \in Versions : w < v /\ tags'[v] # 0 => tags'[w] # 0
      BY DEF IInv, TagsFit, NoGap
    <3> QED BY <3>1, NewestIsLast
  <2>2. CASE TagsOne
    <3>1. PICK clone : /\ Due(clone.version) /\ HasPushedMain(clone.base, clone.version)
                       /\ PushTag(clone)
      BY <2>2 DEF TagsOne
    <3>2. PICK v \in Versions : v = clone.version
      BY <3>1 DEF Due
    <3>3. /\ tags[v] = 0 /\ \A w \in Versions : w < v => tags[w] # 0
          /\ tags' = [tags EXCEPT ![v] = clone.base + 1] /\ clone.base + 1 # 0
      BY <3>1, <3>2 DEF Due, PushTag, CanPushTag, HasPushedMain
    <3>4. tags'[v] # 0 /\ \A w \in Versions : w # v => tags'[w] = tags[w]
      BY <3>3 DEF IInv, TagsFit
    <3>5. Newest(tags') = Newest(tags) + 1
      <4>1. PICK n \in 0 .. MaxVersion, m \in 0 .. MaxVersion :
              n = Newest(tags) /\ m = Newest(tags')
        BY <2>1
      <4>2. /\ \A w \in 1 .. MaxVersion : tags[w] # 0 <=> w <= n
            /\ \A w \in 1 .. MaxVersion : tags'[w] # 0 <=> w <= m
            /\ v \in 1 .. MaxVersion
        BY <2>1, <4>1 DEF Versions
      <4>3. v = n + 1
        <5>1. ~ (v <= n)
          BY <3>3, <4>2
        <5>2. ~ (n + 1 < v)
          BY <3>3, <4>2, BoundAssumption DEF Versions
        <5> QED BY <4>2, <5>1, <5>2, BoundAssumption
      <4>4. v <= m
        BY <3>4, <4>2
      <4>5. ~ (v < m)
        BY <3>4, <4>2, <4>3, BoundAssumption DEF Versions
      <4> QED BY <4>1, <4>2, <4>3, <4>4, <4>5, BoundAssumption
    <3>6. Released!Tag
      BY <2>2, <3>5 DEF TagsOne, Newest, Released!Tag
    <3> QED BY <3>6 DEF Released!Next
  <2>3. CASE PublishesOne
    <3>1. PICK crate \in Crates, v \in Versions :
            /\ tags[v] # 0 /\ Uploads(crate, v)
            /\ crate = "pso-protocol" => HasDerive(v)
      BY <2>3 DEF PublishesOne
    <3>2. v \in 1 .. Newest(tags) /\ crate \in {"pso-protocol", "pso-protocol-derive"}
      BY <2>1, <3>1, BoundAssumption DEF Versions, Crates
    <3>3. tags' = tags /\ releases' = releases
      BY <2>3 DEF PublishesOne
    <3>4. Released!Publish
      BY <3>1, <3>2, <3>3 DEF Newest, Uploads, HasDerive, Released!Publish
    <3> QED BY <3>4 DEF Released!Next
  <2>4. CASE AnnouncesOne
    <3>1. PICK run : /\ RunFits(run) /\ HasRelease(run) /\ TagIsThere(run)
                     /\ Creates(run) \/ (run.publish = "success" /\ Signs(run))
      BY <2>4 DEF AnnouncesOne
    <3>2. PICK v \in Versions : v = Tag(run)
      BY <3>1, TagType DEF RunFits
    <3>3. v \in 1 .. Newest(tags)
      BY <2>1, <3>1, <3>2, BoundAssumption DEF Versions, TagIsThere
    <3>4. tags' = tags /\ registry' = registry
      BY <2>4 DEF AnnouncesOne
    <3>5. run.publish = "success" => v \in registry["pso-protocol"]
      BY <3>1, <3>2 DEF RunFits, HasBoth, Crates
    <3>6. releases \in [Versions -> {"none", "bare", "signed"}]
      BY DEF IInv, ReleasesFit
    <3>7. CASE run.publish = "success" /\ Signs(run)
      <4>1. releases' = [releases EXCEPT ![v] = "signed"]
        BY <3>2, <3>7 DEF Signs
      <4>2. CASE releases[v] = "signed"
        BY <3>4, <3>6, <4>1, <4>2
      <4>3. CASE releases[v] # "signed"
        <5>1. Released!Announce
          BY <3>3, <3>4, <3>5, <3>7, <4>1, <4>3 DEF Newest, Released!Announce
        <5> QED BY <5>1 DEF Released!Next
      <4> QED BY <4>2, <4>3
    <3>8. CASE Creates(run)
      <4>1. CASE releases[v] # "none"
        <5>1. releases' = [releases EXCEPT ![v] = releases[v]]
          BY <3>2, <3>8, <4>1 DEF Creates
        <5> QED BY <3>4, <3>6, <5>1
      <4>2. CASE releases[v] = "none"
        <5>1. releases' = [releases EXCEPT ![v] = "bare"]
          BY <3>2, <3>8, <4>2 DEF Creates
        <5>2. Released!Announce
          BY <3>3, <3>4, <4>2, <5>1 DEF Newest, Released!Announce
        <5> QED BY <5>2 DEF Released!Next
      <4> QED BY <4>1, <4>2
    <3> QED BY <3>1, <3>7, <3>8
  <2>5. CASE NothingSeen
    BY <2>5 DEF NothingSeen
  <2> QED BY <2>2, <2>3, <2>4, <2>5, StepIsSeen
<1> QED BY <1>1, <1>2, Invariance, PTL DEF Spec, ImplementsReleaseLine, Released!Spec, Newest
=============================================================================
