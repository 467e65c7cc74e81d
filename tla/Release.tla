------------------------------- MODULE Release ------------------------------
(***************************************************************************)
(* The release pipeline: .github/workflows/ci.yml and the cocogitto hooks  *)
(* of cog.toml, over a repository, a crate registry and a releases page.   *)
(*                                                                         *)
(* A run is one execution of the workflow.  Its jobs form a chain through  *)
(* `needs` (ci, tag, publish, github-release, verify-release), so a run is *)
(* at one step at a time; other runs, developers and a maintainer work on  *)
(* the same repository between its steps.  Runs of one ref share a         *)
(* concurrency group: one running, one waiting, and a new run cancels the  *)
(* running one.  Cancellation is a request: a job whose condition is       *)
(* always() goes on, any other stops at the step where the request lands.  *)
(*                                                                         *)
(* A version is a number, 0 before the first release; `cog bump` goes from *)
(* one to the next.  The manifest's version line is the only content of a  *)
(* commit that matters here.                                               *)
(***************************************************************************)
EXTENDS Integers, Sequences, FiniteSetsExt

CONSTANTS
  MaxCommits,   \* bound: commits on main
  MaxVersion    \* bound: versions ever tagged

ASSUME BoundAssumption == MaxCommits \in Nat \ {0} /\ MaxVersion \in Nat \ {0}

Versions == 1 .. MaxVersion
Crates == {"pso-protocol-derive", "pso-protocol"}

\* Concurrency groups: workflow and ref.  Pushes to main, the nightly cron and
\* a dispatch run on main; a pushed tag runs on its own ref.
Groups == {0} \cup Versions     \* 0 is main, v is refs/tags/v

VARIABLES
  main,         \* the commits of main: [version, kind]
  tags,         \* remote tags: the commit each tagged version names, or 0
  registry,     \* crates.io: the versions of each crate
  releases,     \* the release entry of each version: none, bare or signed
  running,      \* the run each group executes, or NoRun
  waiting,      \* the run each group holds back, or NoRun
  maintainer    \* a maintainer's own cog bump: the clone, or NoClone

vars == <<main, tags, registry, releases, running, waiting, maintainer>>

NoRun == [at |-> "none"]
NoClone == [at |-> "none"]

MainHead == Len(main)

-----------------------------------------------------------------------------
(***************************************************************************)
(* cog bump --auto, in a clone whose HEAD is commit `base` of main.        *)
(***************************************************************************)
\* The last version tagged at or below base, 0 if none is.
Last(base) == Max({0} \cup {v \in Versions : tags[v] \in 1 .. base})

\* Variant: the next version is counted from the manifest.
NextVersion_OfManifest(base) == Min({main[base].version + 1, MaxVersion})

NextVersion(base) == Last(base) + 1

\* There is something to release: a commit after the last tag that is not a
\* version commit.
Bumpable(base) ==
  /\ Last(base) < MaxVersion
  /\ \E c \in 1 .. base :
       /\ main[c].kind = "change"
       /\ Last(base) # 0 => c > tags[Last(base)]

\* post_bump_hooks: git push origin HEAD:main, which the remote takes only if
\* main has not moved since the clone was made.
CanPushMain(clone) == MainHead = clone.base /\ MainHead < MaxCommits

\* Variants: the bump commit leaves the manifest alone; the push is forced.
PushMain_NoPreBumpHook(clone) ==
  /\ CanPushMain(clone)
  /\ main' = Append(main, [version |-> main[MainHead].version, kind |-> "version"])

PushMain_Forced(clone) ==
  /\ MainHead < MaxCommits
  /\ main' = Append(SubSeq(main, 1, clone.base), [version |-> clone.version, kind |-> "version"])

PushMain(clone) ==
  /\ CanPushMain(clone)
  /\ main' = Append(main, [version |-> clone.version, kind |-> "version"])

\* git push origin v{{version}}, refused if the remote has that tag.
CanPushTag(clone) == tags[clone.version] = 0

PushTag(clone) == CanPushTag(clone) /\ tags' = [tags EXCEPT ![clone.version] = clone.base + 1]

-----------------------------------------------------------------------------
(***************************************************************************)
(* Runs and their concurrency groups.                                      *)
(***************************************************************************)
\* resolve: the tag of a release-only run, 0 for a normal one.
Run(event, base, release_tag) ==
  [at          |-> "ci",
   event       |-> event,
   base        |-> base,          \* the commit of the event
   release_tag |-> release_tag,   \* needs.resolve.outputs.release_tag
   cancelled   |-> FALSE,         \* a cancellation was requested
   version     |-> 0,             \* the version cog bumps to
   tag         |-> 0,             \* needs.tag.outputs.tag, set on success
   publish     |-> "skipped"]     \* needs.publish.result

\* concurrency: cancel-in-progress.  The run in progress is asked to stop, and
\* a run that was waiting is dropped before any of its jobs starts.
Trigger(g, run) ==
  /\ running' = [running EXCEPT ![g] =
                   IF @ = NoRun THEN @ ELSE [@ EXCEPT !.cancelled = TRUE]]
  /\ waiting' = [waiting EXCEPT ![g] = run]

Begin(g) ==
  /\ waiting[g] # NoRun
  /\ running[g] = NoRun
  /\ running' = [running EXCEPT ![g] = waiting[g]]
  /\ waiting' = [waiting EXCEPT ![g] = NoRun]
  /\ UNCHANGED <<main, tags, registry, releases, maintainer>>

\* The run of g is at a step, and the step only moves it.
At(g, step) == running[g].at = step

Moves(g, run) ==
  /\ running' = [running EXCEPT ![g] = run]
  /\ UNCHANGED <<waiting, maintainer>>

GoTo(g, step) == Moves(g, [running[g] EXCEPT !.at = step])

\* The `if:` that publish and github-release share, after always().
HasRelease(run) == run.tag # 0 \/ run.release_tag # 0

\* needs.tag.outputs.tag || needs.resolve.outputs.release_tag
Tag(run) == IF run.tag # 0 THEN run.tag ELSE run.release_tag

\* What follows the tag job, whatever its result.
AfterTag(run) ==
  IF HasRelease(run) THEN [run EXCEPT !.at = "publish.derive"] ELSE NoRun

-----------------------------------------------------------------------------
(***************************************************************************)
(* The jobs.                                                               *)
(***************************************************************************)
\* ci and the start of tag.  A normal run is tagged only on a push to main
\* that is not itself a version commit, and only if every test job passed and
\* the run was not cancelled.  A release run skips the tests, and its tag job.
TagJobRuns(run) ==
  /\ run.release_tag = 0
  /\ run.event = "push"
  /\ main[run.base].kind # "version"

\* Where resolve fails or is cancelled, no job has a tag.
FinishCi(g) ==
  /\ At(g, "ci")
  /\ \/ TagJobRuns(running[g]) /\ ~ running[g].cancelled /\ GoTo(g, "tag.bump")
     \/ Moves(g, AfterTag(running[g]))
     \/ Moves(g, NoRun)
  /\ UNCHANGED <<main, tags, registry, releases>>

\* Cocogitto bump: the local commit and tag, or nothing to bump.  The tag step
\* then finds no tag at HEAD.
Bump(g) ==
  LET run == running[g]
  IN  /\ At(g, "tag.bump")
      /\ \/ /\ Bumpable(run.base)
            /\ Moves(g, [run EXCEPT !.at = "tag.main", !.version = NextVersion(run.base)])
         \/ /\ ~ Bumpable(run.base)
            /\ Moves(g, AfterTag(run))
      /\ UNCHANGED <<main, tags, registry, releases>>

\* The post-bump hooks.  Either push can fail, because the remote moved or for
\* any other reason, and the tag job fails with it.
BumpPushesMain(g) ==
  /\ At(g, "tag.main")
  /\ \/ PushMain(running[g]) /\ GoTo(g, "tag.push")
     \/ Moves(g, AfterTag(running[g])) /\ UNCHANGED main
  /\ UNCHANGED <<tags, registry, releases>>

BumpPushesTag(g) ==
  LET run == running[g]
  IN  /\ At(g, "tag.push")
      /\ \/ PushTag(run) /\ Moves(g, AfterTag([run EXCEPT !.tag = run.version]))
         \/ Moves(g, AfterTag(run)) /\ UNCHANGED tags
      /\ UNCHANGED <<main, registry, releases>>

\* The request to cancel lands in the tag job, at any of its steps: its result
\* is cancelled, even after it pushed the tag and before it reported it.
TagJobCancelled(g) ==
  LET run == running[g]
  IN  /\ run.at \in {"tag.bump", "tag.main", "tag.push"}
      /\ run.cancelled
      /\ \/ UNCHANGED tags
         \/ run.at = "tag.push" /\ PushTag(run)
      /\ Moves(g, AfterTag(run))
      /\ UNCHANGED <<main, registry, releases>>

\* Variant: the checkout ignores `ref` and takes the branch.
Manifest_OfMain(tag) == main[MainHead].version

\* The version cargo publishes is that of the manifest at the tag.
Manifest(tag) == main[tags[tag]].version

\* cargo publish -p crate: refused if the registry has the version; otherwise
\* it uploads, or fails with nothing uploaded, or uploads and its answer is lost.
Uploads(crate, version) ==
  /\ version \notin registry[crate]
  /\ registry' = [registry EXCEPT ![crate] = @ \cup {version}]

\* The checkout of the tag, which a dispatch may only have made up.
TagIsThere(run) == tags[Tag(run)] # 0

\* Variant: without always(), a run asked to stop publishes nothing more.
Publish_NotAlways(g, step, crate, next) ==
  /\ At(g, step)
  /\ IF running[g].cancelled
     THEN Moves(g, NoRun) /\ UNCHANGED registry
     ELSE GoTo(g, next) /\ UNCHANGED registry
  /\ UNCHANGED <<main, tags, releases>>

\* Variant: continue-on-error on the step that uploads.
Publish_ContinueOnError(g, step, crate, next) ==
  LET uploads == TagIsThere(running[g]) /\ Uploads(crate, Manifest(Tag(running[g])))
  IN  /\ At(g, step)
      /\ \/ uploads /\ GoTo(g, next)
         \/ UNCHANGED registry /\ GoTo(g, "publish.package")
      /\ UNCHANGED <<main, tags, releases>>

Publish(g, step, crate, next) ==
  LET run == running[g]
      uploads == TagIsThere(run) /\ Uploads(crate, Manifest(Tag(run)))
  IN  /\ At(g, step)
      /\ \/ uploads /\ GoTo(g, next)
         \/ /\ UNCHANGED registry \/ uploads
            /\ Moves(g, [run EXCEPT !.at = "release", !.publish = "failure"])
      /\ UNCHANGED <<main, tags, releases>>

PublishDerive(g) == Publish(g, "publish.derive", "pso-protocol-derive", "publish.core")
PublishCore(g) == Publish(g, "publish.core", "pso-protocol", "publish.package")

\* cargo package and the upload of the artifact.
Package(g) ==
  /\ At(g, "publish.package")
  /\ \E result \in {"success", "failure"} :
       Moves(g, [running[g] EXCEPT !.at = "release", !.publish = result])
  /\ UNCHANGED <<main, tags, registry, releases>>

\* github-release, up to the entry: an entry that exists keeps the assets it has.  Any
\* step may fail, the checkout and, if publish succeeded, the signing too.
GithubRelease(g) ==
  LET run == running[g]
  IN  /\ At(g, "release")
      /\ \/ /\ TagIsThere(run)
            /\ releases' = [releases EXCEPT ![Tag(run)] = IF @ = "none" THEN "bare" ELSE @]
            /\ IF run.publish = "success" THEN GoTo(g, "assets") ELSE Moves(g, NoRun)
         \/ UNCHANGED releases /\ Moves(g, NoRun)
      /\ UNCHANGED <<main, tags, registry>>

\* The files of dist/, which has some only if publish succeeded, are attached to it, or
\* not all of them.
AttachAssets(g) ==
  /\ At(g, "assets")
  /\ \/ releases' = [releases EXCEPT ![Tag(running[g])] = "signed"] /\ GoTo(g, "verify")
     \/ UNCHANGED releases /\ Moves(g, NoRun)
  /\ UNCHANGED <<main, tags, registry>>

\* verify-release reads the entry; the run ends with its verdict.
VerifyRelease(g) ==
  /\ At(g, "verify")
  /\ Moves(g, NoRun)
  /\ UNCHANGED <<main, tags, registry, releases>>

-----------------------------------------------------------------------------
(***************************************************************************)
(* The people and the clock.                                               *)
(***************************************************************************)
DeveloperPushes ==
  /\ MainHead < MaxCommits
  /\ main' = Append(main, [version |-> main[MainHead].version, kind |-> "change"])
  /\ Trigger(0, Run("push", MainHead + 1, 0))
  /\ UNCHANGED <<tags, registry, releases, maintainer>>

\* The nightly cron, or a dispatch without a tag, whose run is of the same kind: a normal
\* one that tags nothing.
Cron ==
  /\ Trigger(0, Run("schedule", MainHead, 0))
  /\ UNCHANGED <<main, tags, registry, releases, maintainer>>

\* workflow_dispatch with the tag to (re-)release, which need not exist (yet).
Dispatch(v) ==
  /\ Trigger(0, Run("workflow_dispatch", MainHead, v))
  /\ UNCHANGED <<main, tags, registry, releases, maintainer>>

\* A maintainer runs cog bump --auto locally, which ends in the same hooks.
\* Unlike those of the workflow's own token, these pushes trigger runs.
MaintainerBumps ==
  /\ maintainer = NoClone
  /\ Bumpable(MainHead)
  /\ maintainer' = [at |-> "main", base |-> MainHead, version |-> NextVersion(MainHead)]
  /\ UNCHANGED <<main, tags, registry, releases, running, waiting>>

MaintainerPushesMain ==
  /\ maintainer.at = "main"
  /\ \/ /\ PushMain(maintainer)
        /\ maintainer' = [maintainer EXCEPT !.at = "push"]
        /\ Trigger(0, Run("push", MainHead + 1, 0))
     \/ /\ maintainer' = NoClone
        /\ UNCHANGED <<main, running, waiting>>
  /\ UNCHANGED <<tags, registry, releases>>

MaintainerPushesTag ==
  /\ maintainer.at = "push"
  /\ \/ /\ PushTag(maintainer)
        /\ Trigger(maintainer.version,
                   Run("push", maintainer.base + 1, maintainer.version))
     \/ UNCHANGED <<tags, running, waiting>>
  /\ maintainer' = NoClone
  /\ UNCHANGED <<main, registry, releases>>

\* A maintainer pushes by hand the tag that a bump left on its version commit and did
\* not get to push.
ManualTag(v) ==
  /\ \E c \in 1 .. MainHead :
       /\ main[c] = [version |-> v, kind |-> "version"]
       /\ PushTag([base |-> c - 1, version |-> v])
       /\ Trigger(v, Run("push", c, v))
  /\ UNCHANGED <<main, registry, releases, maintainer>>

-----------------------------------------------------------------------------
Init ==
  /\ main = << [version |-> 0, kind |-> "change"] >>
  /\ tags = [v \in Versions |-> 0]
  /\ registry = [c \in Crates |-> {}]
  /\ releases = [v \in Versions |-> "none"]
  /\ running = [g \in Groups |-> NoRun]
  /\ waiting = [g \in Groups |-> NoRun]
  /\ maintainer = NoClone

Step(g) ==
  \/ FinishCi(g)
  \/ Bump(g)
  \/ BumpPushesMain(g)
  \/ BumpPushesTag(g)
  \/ TagJobCancelled(g)
  \/ PublishDerive(g)
  \/ PublishCore(g)
  \/ Package(g)
  \/ GithubRelease(g)
  \/ AttachAssets(g)
  \/ VerifyRelease(g)

Next ==
  \/ \E g \in Groups : Begin(g) \/ Step(g)
  \/ DeveloperPushes
  \/ Cron
  \/ \E v \in Versions : Dispatch(v) \/ ManualTag(v)
  \/ MaintainerBumps
  \/ MaintainerPushesMain
  \/ MaintainerPushesTag

Spec == Init /\ [][Next]_vars

\* The runners: a run that can take a step takes one, and a waiting run begins.
Runners == \A g \in Groups : WF_vars(Begin(g)) /\ WF_vars(Step(g))

FairSpec == Spec /\ Runners

-----------------------------------------------------------------------------
(***************************************************************************)
(* Properties.                                                             *)
(***************************************************************************)
RunType ==
  [at : {"ci", "tag.bump", "tag.main", "tag.push", "publish.derive",
         "publish.core", "publish.package", "release", "assets", "verify"},
   event : {"push", "schedule", "workflow_dispatch"}, base : 1 .. MainHead,
   release_tag : 0 .. MaxVersion, cancelled : BOOLEAN, version : 0 .. MaxVersion,
   tag : 0 .. MaxVersion, publish : {"skipped", "success", "failure"}]

\* Runs and tags refer to commits that main has.
TypeOK ==
  /\ MainHead <= MaxCommits
  /\ tags \in [Versions -> 0 .. MainHead]
  /\ releases \in [Versions -> {"none", "bare", "signed"}]
  /\ running \in [Groups -> RunType \cup {NoRun}]
  /\ waiting \in [Groups -> {r \in RunType : r.at = "ci"} \cup {NoRun}]

\* Whoever bumps, CI or a maintainer, and however their pushes interleave, a
\* tag names a version commit whose manifest has the tag's version (cog.toml:13-16).
TagNamesItsVersion ==
  \A v \in Versions :
    tags[v] # 0 => main[tags[v]] = [version |-> v, kind |-> "version"]

\* A bump whose tag was lost does not use its version up: the tags have no gap.
NoVersionSkipped ==
  \A v \in Versions : v > 1 /\ tags[v] # 0 => tags[v - 1] # 0

\* An entry with signed artifacts is of a version that both crates have, also
\* when runs of two refs release the same tag.
SignedIsPublished ==
  \A v \in Versions : releases[v] = "signed" => \A c \in Crates : v \in registry[c]

\* All of it together, for those who use the crates: a version is tagged after the last
\* one, published only when it is tagged, with the derive crate first, announced as
\* signed only when it is published, and never taken back (ci.yml:385-401, 456-545).
Released == INSTANCE ReleaseLine WITH
  Core      <- "pso-protocol",
  Derive    <- "pso-protocol-derive",
  tagged    <- Max({0} \cup {v \in Versions : tags[v] # 0}),
  published <- registry,
  announced <- releases

ImplementsReleaseLine == Released!Spec

\* Once the tag job of a run has reported a tag, the run gets to publish it,
\* even if a later event asks the run to stop (ci.yml:376-381).
TaggedRunPublishes ==
  \A v \in Versions :
    running[0].at # "none" /\ running[0].tag = v
      ~> running[0].at # "none" /\ running[0].tag = v /\ running[0].publish # "skipped"

(***************************************************************************)
(* What the documentation says.                                            *)
(***************************************************************************)
\* SECURITY.md:9-17: each release has the signed artifacts.
EveryReleaseIsSigned == \A v \in Versions : releases[v] # "bare"

\* Cargo.toml:5-6, the crates always ship at the same version: an upload of
\* one is followed by that of the other, given that the tag can be re-released
\* (ci.yml:13-16), that this is tried again and again, that other runs do not displace
\* it each time, and that a resolve, and an upload the registry can take, succeeds when
\* it is tried again and again.
ShipAtSameVersion ==
  \A v \in Versions :
    v \in registry["pso-protocol-derive"] ~> v \in registry["pso-protocol"]

ReleaseAgain(v) == running[0] = NoRun /\ Dispatch(v)
BeginRelease(v) == waiting[0] # NoRun /\ waiting[0].release_tag = v /\ Begin(0)

Resolve(g) == FinishCi(g) /\ running[g].release_tag # 0 /\ running'[g] # NoRun

Retries ==
  /\ \A v \in Versions : SF_vars(ReleaseAgain(v)) /\ SF_vars(BeginRelease(v))
  /\ \A g \in Groups : SF_vars(Resolve(g))
  /\ \A g \in Groups : SF_vars(PublishDerive(g) /\ registry' # registry)
  /\ \A g \in Groups : SF_vars(PublishCore(g) /\ registry' # registry)

RetrySpec == FairSpec /\ Retries
=============================================================================
