--------------------------- MODULE PackageRelease ---------------------------
(***************************************************************************)
(* scripts/package_release.py under make package-release: build the RTL,   *)
(* stage the three archives in a temporary directory, verify them, write   *)
(* their checksums, and only then move them one by one over the files of   *)
(* an earlier release.  Two developers' shells may do so at once, any of   *)
(* them may be killed, and the working tree moves on meanwhile.            *)
(***************************************************************************)
EXTENDS Integers, FiniteSets

CONSTANTS
  Procs,      \* runs of the script
  Trees,      \* contents of the working tree; a commit is named by its tree
  Tags,
  Variants,   \* 1..Variants: the archives in the order of VARIANTS
  MaxRuns,    \* bound: runs begun
  MaxMoves    \* bound: steps of the developer

ASSUME ReleaseAssumption ==
  /\ Variants \in Nat \ {0} /\ MaxRuns \in Nat /\ MaxMoves \in Nat
  /\ Trees \cap {"none"} = {} /\ Tags \cap {"none"} = {}

VARIABLES
  tree, head, \* the working tree, and the commit checked out
  sound,      \* the archives of every tree that pass the audit
  link,       \* result/release-inputs: the tree it was built from, "none" without it
  out,        \* result/release: the archive of every tag and variant, or NoArchive
  sums,       \* SHA256SUMS: its tag and the archives it was computed of
  pc, at,     \* control of a run, and the variant it is at
  tag,        \* --tag
  commit,     \* the commit the run has read
  input,      \* the resolved input directory
  temp,       \* the temporary output directory
  listed,     \* the temporary SHA256SUMS
  runs, moves

source == <<tree, head, sound>>
run == <<pc, at, tag, commit, input, temp, listed>>
vars == <<source, link, out, sums, run, runs, moves>>

\* An archive: the commit its manifest names, the tree its RTL was generated from, and
\* the tree LICENSE and the FPGA files were read from.
Archive == [tag : Tags, commit : Trees, rtl : Trees, extra : Trees]
NoArchive == [tag |-> "none", commit |-> "none", rtl |-> "none", extra |-> "none"]
NoTemp == [v \in 1..Variants |-> NoArchive]
NoSums == [tag |-> "none", of |-> NoTemp]

Init ==
  /\ tree \in Trees /\ head \in Trees
  /\ sound \in [Trees -> {1..Variants, {1}}]
  /\ link = "none" /\ out = [t \in Tags |-> NoTemp] /\ sums = NoSums
  /\ pc = [p \in Procs |-> "idle"] /\ at = [p \in Procs |-> 1]
  /\ tag = [p \in Procs |-> "none"] /\ commit = [p \in Procs |-> "none"]
  /\ input = [p \in Procs |-> "none"] /\ temp = [p \in Procs |-> NoTemp]
  /\ listed = [p \in Procs |-> NoSums]
  /\ runs = 0 /\ moves = 0
-----------------------------------------------------------------------------
\* make package-release RELEASE_TAG=t: nix build, of the working tree as it is.
Begin(p, t) ==
  /\ pc[p] = "idle" /\ runs < MaxRuns /\ runs' = runs + 1
  /\ link' = tree
  /\ pc' = [pc EXCEPT ![p] = "commit"] /\ tag' = [tag EXCEPT ![p] = t]
  /\ UNCHANGED <<source, out, sums, at, commit, input, temp, listed, moves>>

\* The end of a run: its temporary directory is removed.
Leave(p) ==
  /\ pc' = [pc EXCEPT ![p] = "idle"] /\ at' = [at EXCEPT ![p] = 1]
  /\ tag' = [tag EXCEPT ![p] = "none"] /\ commit' = [commit EXCEPT ![p] = "none"]
  /\ input' = [input EXCEPT ![p] = "none"] /\ temp' = [temp EXCEPT ![p] = NoTemp]
  /\ listed' = [listed EXCEPT ![p] = NoSums]

\* main: the head, and the directory the link points to now.
ReadCommit(p) ==
  /\ pc[p] = "commit"
  /\ commit' = [commit EXCEPT ![p] = head] /\ input' = [input EXCEPT ![p] = link]
  /\ pc' = [pc EXCEPT ![p] = "stage"]
  /\ UNCHANGED <<source, link, out, sums, at, tag, temp, listed, runs, moves>>

\* ReleaseError: reported, nothing moved.
Fail(p) == Leave(p) /\ UNCHANGED <<source, link, out, sums, runs, moves>>

\* git fails, or the tag, the commit, the time or the license is refused.
CommitFails(p) == pc[p] = "commit" /\ Fail(p)

\* Goes on to the next variant, or to the next part of the run.
Advance(p, next) ==
  IF at[p] < Variants THEN at' = [at EXCEPT ![p] = at[p] + 1] /\ UNCHANGED pc
  ELSE at' = [at EXCEPT ![p] = 1] /\ pc' = [pc EXCEPT ![p] = next]

\* Mutant: the archive is written in the release directory.
StageInPlace(p) ==
  /\ pc[p] = "stage" /\ at[p] \in sound[input[p]]
  /\ temp' = [temp EXCEPT ![p][at[p]] =
                [tag |-> tag[p], commit |-> commit[p], rtl |-> input[p], extra |-> tree]]
  /\ out' = [out EXCEPT ![tag[p]][at[p]] = temp'[p][at[p]]]
  /\ Advance(p, "verify")
  /\ UNCHANGED <<source, link, sums, tag, commit, input, listed, runs, moves>>

\* stage_variant: the audit, the RTL of the input, LICENSE and extra files of the tree.
Stage(p) ==
  /\ pc[p] = "stage" /\ at[p] \in sound[input[p]]
  /\ temp' = [temp EXCEPT ![p][at[p]] =
                [tag |-> tag[p], commit |-> commit[p], rtl |-> input[p], extra |-> tree]]
  /\ Advance(p, "verify")
  /\ UNCHANGED <<source, link, out, sums, tag, commit, input, listed, runs, moves>>

AuditFails(p) == pc[p] = "stage" /\ at[p] \notin sound[input[p]] /\ Fail(p)

\* verify_archive, and after the last one the checksums of what was staged.
Verify(p) ==
  /\ pc[p] = "verify"
  /\ Advance(p, "move")
  /\ listed' = IF at[p] < Variants THEN listed
               ELSE [listed EXCEPT ![p] = [tag |-> tag[p], of |-> temp[p]]]
  /\ UNCHANGED <<source, link, out, sums, tag, commit, input, temp, runs, moves>>

VerifyFails(p) == pc[p] = "verify" /\ Fail(p)

\* One archive replaces its predecessor.
Move(p) ==
  /\ pc[p] = "move"
  /\ out' = [out EXCEPT ![tag[p]][at[p]] = temp[p][at[p]]]
  /\ Advance(p, "sums")
  /\ UNCHANGED <<source, link, sums, tag, commit, input, temp, listed, runs, moves>>

\* SHA256SUMS comes last.
MoveSums(p) ==
  /\ pc[p] = "sums"
  /\ sums' = listed[p]
  /\ Leave(p)
  /\ UNCHANGED <<source, link, out, runs, moves>>

\* A killed run moves nothing more; its temporary directory may stay, unused.
Kill(p) == pc[p] # "idle" /\ Leave(p) /\ UNCHANGED <<source, link, out, sums, runs, moves>>
-----------------------------------------------------------------------------
\* The developer edits, commits, or checks a commit out.
Developer ==
  /\ moves < MaxMoves /\ moves' = moves + 1
  /\ \/ tree' \in Trees /\ UNCHANGED head
     \/ head' = tree /\ UNCHANGED tree
     \/ tree = head /\ head' \in Trees /\ tree' = head'
  /\ UNCHANGED <<sound, link, out, sums, run, runs>>

ReleaseStep(p) ==
  \/ \E t \in Tags : Begin(p, t)
  \/ ReadCommit(p) \/ CommitFails(p) \/ Stage(p) \/ AuditFails(p) \/ Verify(p) \/ VerifyFails(p)
  \/ Move(p) \/ MoveSums(p) \/ Kill(p)

Next == (\E p \in Procs : ReleaseStep(p)) \/ Developer

Spec == Init /\ [][Next]_vars
-----------------------------------------------------------------------------
\* Type invariant of the repository, the release directory and the runs.
TypeOK ==
  /\ tree \in Trees /\ head \in Trees
  /\ sound \in [Trees -> SUBSET (1..Variants)] /\ link \in Trees \cup {"none"}
  /\ out \in [Tags -> [1..Variants -> Archive \cup {NoArchive}]]
  /\ sums \in [tag : Tags \cup {"none"}, of : [1..Variants -> Archive \cup {NoArchive}]]
  /\ pc \in [Procs -> {"idle", "commit", "stage", "verify", "move", "sums"}]
  /\ at \in [Procs -> 1..Variants] /\ tag \in [Procs -> Tags \cup {"none"}]
  /\ commit \in [Procs -> Trees \cup {"none"}] /\ input \in [Procs -> Trees \cup {"none"}]
  /\ temp \in [Procs -> [1..Variants -> Archive \cup {NoArchive}]]
  /\ listed \in [Procs -> [tag : Tags \cup {"none"}, of : [1..Variants -> Archive \cup {NoArchive}]]]
  /\ runs \in 0..MaxRuns /\ moves \in 0..MaxMoves

\* sha256sum -c SHA256SUMS passes.
SumsVerify == sums # NoSums /\ out[sums.tag] = sums.of

\* When the checksums match, the archives are those of one run: one tag, one commit in
\* every manifest, RTL of one build - although a run may be killed between two moves and
\* another may move its files meanwhile.
SumsVouchForOneRun ==
  SumsVerify =>
    \A v, w \in 1..Variants :
      /\ out[sums.tag][v].tag = sums.tag
      /\ out[sums.tag][v].commit = out[sums.tag][w].commit
      /\ out[sums.tag][v].rtl = out[sums.tag][w].rtl

\* Nothing that fails the audit is ever released, under any tag.
ReleasedIsAudited ==
  \A t \in Tags, v \in 1..Variants :
    out[t][v] # NoArchive => v \in sound[out[t][v].rtl]

\* test_package_release.py:203, test_failed_repackage_preserves_previous_assets: until
\* everything is staged, verified and summed, the release directory is not touched, so
\* a failing run leaves it as it was.
FailedRunPreserves ==
  [][\A p \in Procs :
       pc[p] \in {"commit", "stage", "verify"} /\ pc'[p] # pc[p] =>
         UNCHANGED <<out, sums>>]_vars

\* A release can be trusted: archives, checksums and manifests belong together and were
\* audited, and a run that fails has not touched them.
ReleaseSafe == [](TypeOK /\ SumsVouchForOneRun /\ ReleasedIsAudited) /\ FailedRunPreserves
=============================================================================
