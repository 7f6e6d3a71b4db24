----------------------------- MODULE MCCiScripts -----------------------------
(***************************************************************************)
(* The three scripts that work with the hosted repository.  Each behaviour *)
(* is one of one script with the world around it; the others rest.         *)
(***************************************************************************)
EXTENDS CiPublish, Sequences, TLC

CONSTANTS Profiles, SmokeProfile, DispatchProfiles, BeforeLimit, FindLimit, EvidenceLimit,
          AppearPolls, RunPolls, DispatchRuns, EvidenceRuns

VARIABLES
  script,     \* the script that works
  runs, tip,
  dpc, wait, expected, known, ignored, unread, credited, left, view, steps, dstatus, prior,
  epc, ehead, entries, queue, satisfied, estatus, seen, failed

runVars == <<runs, tip>>
dispatchVars == <<dpc, wait, expected, known, ignored, unread, credited, left, view, steps, dstatus,
                  prior>>
evidenceVars == <<epc, ehead, entries, queue, satisfied, estatus, seen, failed>>

Dispatch == INSTANCE CiDispatch WITH MaxRuns <- DispatchRuns, Uploads <- {TRUE}
Evidence == INSTANCE CiEvidence WITH MaxRuns <- EvidenceRuns, Uploads <- BOOLEAN

ASSUME ScriptConstants == Dispatch!DispatchConstants /\ Evidence!EvidenceConstants

\* One of the commits, which are alike: the head that a script is asked for.
First == CHOOSE c \in Commits : TRUE

RestPublish ==
  /\ heads = [b \in Branches \cup {"none"} |-> First] /\ branch = "none"
  /\ dirty = FALSE /\ origin = NoOrigin /\ exists = {} /\ moves = 0 /\ shown = {}
  /\ hosted = [r \in Repos |-> [b \in Branches |-> "absent"]]
  /\ ppc = "root" /\ args = [repo |-> "none", create |-> FALSE, push |-> FALSE]
  /\ git = NoGit /\ target = "none" /\ missing = FALSE /\ sha = "absent" /\ pstatus = "none"
RestRuns == runs = <<>> /\ tip = "none"
RestDispatch ==
  /\ dpc = "rest" /\ wait = FALSE /\ expected = "none" /\ known = {} /\ ignored = {}
  /\ unread = {} /\ credited = 0 /\ left = 0 /\ view = 0 /\ steps = <<>> /\ dstatus = "none"
  /\ prior = {}
RestEvidence ==
  /\ epc = "rest" /\ ehead = "none" /\ entries = <<>> /\ queue = {} /\ satisfied = 0
  /\ estatus = "none" /\ seen = {} /\ failed = FALSE

\* No definition tells one repository from another; where nothing rests on First, none
\* tells one commit from another either.
Symmetry == Permutations(Repos) \cup Permutations(Commits)

MCProfiles == <<"smoke", "ci-evidence">>

MCInit ==
  \/ script = "publish" /\ Init /\ RestRuns /\ RestDispatch /\ RestEvidence
  \/ script = "dispatch" /\ Dispatch!Init /\ expected = First /\ RestPublish /\ RestEvidence
  \/ script = "evidence" /\ Evidence!Init /\ ehead = First /\ RestPublish /\ RestDispatch

\* What the world does after the report is left out: the properties are about the report.
MCNext ==
  \/ script = "publish" /\ ppc # "done" /\ Next
     /\ UNCHANGED <<script, runVars, dispatchVars, evidenceVars>>
  \/ script = "dispatch" /\ dpc # "done" /\ Dispatch!Next /\ UNCHANGED <<script, vars, evidenceVars>>
  \/ script = "evidence" /\ epc # "done" /\ Evidence!Next /\ UNCHANGED <<script, vars, dispatchVars>>

MCSpec == MCInit /\ [][MCNext]_<<script, vars, runVars, dispatchVars, evidenceVars>>
-----------------------------------------------------------------------------
\* ci_remote_dispatch.py: a passing --wait report names, for every requested profile, a run
\* of the expected head of its own that ended with that profile's job and the run
\* successful, and what find_new_run rejects for good never becomes such a run.
DispatchIsTrue == script = "dispatch" => Dispatch!DispatchTrue

\* The run that is waited for was not listed before the trigger, and a profile is triggered
\* only when the earlier profiles' runs have succeeded.
TriggersAreFollowed == Dispatch!TriggersFollowed

\* ci_remote_evidence.py: a passing report names a run that executed the smoke profile on
\* the expected head successfully and left its artifact, and such a run is not overlooked.
EvidenceIsTrue == script = "evidence" => Evidence!EvidenceTrue
=============================================================================
