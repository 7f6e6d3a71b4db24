------------------------------ MODULE Workflow ------------------------------
(***************************************************************************)
(* The hosted verification workflow, .github/workflows/verification.yml,   *)
(* on one branch of the repository: what a push and a workflow_dispatch    *)
(* start, how the concurrency group supersedes a run, which job a run      *)
(* executes, what it uploads, and what the listing and view calls of the   *)
(* scripts can see of it.  A run is identified by its position in "runs"   *)
(* (databaseId grows), so a newer run has a larger number.                 *)
(***************************************************************************)
EXTENDS Integers, Sequences, FiniteSets

CONSTANTS
  Profiles,      \* the choices of inputs.profile; each is a job of the workflow
  SmokeProfile,  \* the job that pushes and pull requests run
  Commits,       \* commits of the branch
  Uploads,       \* whether a job may leave an artifact: a subset of BOOLEAN
  MaxRuns        \* bound: runs that exist in one behaviour

\* What the values of the constants have to satisfy.
WorkflowConstants ==
  /\ SmokeProfile \in Profiles
  /\ Uploads \subseteq BOOLEAN
  /\ MaxRuns \in Nat

VARIABLES
  runs,          \* sequence of workflow runs, oldest first
  tip            \* the commit the hosted branch points at

wvars == <<runs, tip>>

Conclusions == {"none", "success", "failure", "cancelled"}

Runs == [event: {"push", "workflow_dispatch"}, profile: Profiles, sha: Commits,
         listed: BOOLEAN, status: {"queued", "in_progress", "completed"},
         job: Conclusions, conclusion: Conclusions, uploaded: BOOLEAN]

\* A fresh run is queued and may not be in the listing yet.
NewRun(event, p, c) ==
  [event |-> event, profile |-> p, sha |-> c, listed |-> FALSE, status |-> "queued",
   job |-> "none", conclusion |-> "none", uploaded |-> FALSE]

\* The concurrency group: workflow, ref, event and profile ("auto" for a push),
\* with cancel-in-progress.
SameGroup(r, event, p) == r.event = event /\ (event = "push" \/ r.profile = p)

Superseded(r, event, p) ==
  IF SameGroup(r, event, p) /\ r.status # "completed"
  THEN [r EXCEPT !.status = "completed", !.conclusion = "cancelled",
                 !.job = IF r.status = "queued" THEN "none" ELSE "cancelled"]
  ELSE r

\* GitHub creates a run of profile p on commit c.
Trigger(event, p, c) ==
  /\ Len(runs) < MaxRuns
  /\ runs' = Append([i \in DOMAIN runs |-> Superseded(runs[i], event, p)],
                    NewRun(event, p, c))

\* A run shows its jobs once it has started; one cancelled in the queue never does.
JobsShown(r) == r.status = "in_progress" \/ (r.status = "completed" /\ r.job # "none")

\* Every job of the workflow is in the view of a run: the jobs whose "if:" is
\* false are there with conclusion "skipped".
JobConclusion(r, p) == IF p = r.profile THEN r.job ELSE "skipped"

\* The successful execution of profile p on commit c.
Succeeded(r, p, c) ==
  /\ r.sha = c /\ r.status = "completed" /\ r.conclusion = "success"
  /\ r.profile = p /\ r.job = "success"

\* gh run list --limit n: the newest n runs that the listing knows.
Listing(n) ==
  LET known == {i \in DOMAIN runs : runs[i].listed}
  IN  {i \in known : Cardinality({j \in known : j > i}) < n}

Newest(S) == CHOOSE i \in S : \A j \in S : j <= i
-----------------------------------------------------------------------------
\* A push of commit c: the branch moves and the smoke job of a push run starts.
PushCommit(c) == c # tip /\ tip' = c /\ Trigger("push", SmokeProfile, c)

\* Somebody else dispatches a profile on the branch.
OtherDispatch(p) == Trigger("workflow_dispatch", p, tip) /\ UNCHANGED tip

\* The run becomes visible in the listing.
AppearRun(i) ==
  /\ ~runs[i].listed
  /\ runs' = [runs EXCEPT ![i].listed = TRUE]
  /\ UNCHANGED tip

StartRun(i) ==
  /\ runs[i].status = "queued"
  /\ runs' = [runs EXCEPT ![i].status = "in_progress"]
  /\ UNCHANGED tip

\* The job ends; its last step uploads "if: always()" and ignores an empty path.
FinishJob(i) ==
  /\ runs[i].status = "in_progress" /\ runs[i].job = "none"
  /\ \E c \in {"success", "failure"}, u \in Uploads :
       runs' = [runs EXCEPT ![i].job = c, ![i].uploaded = u]
  /\ UNCHANGED tip

\* The run ends with the conclusion of the only job that was not skipped.
CompleteRun(i) ==
  /\ runs[i].status = "in_progress" /\ runs[i].job # "none"
  /\ runs' = [runs EXCEPT ![i].status = "completed", ![i].conclusion = runs[i].job]
  /\ UNCHANGED tip

WorkflowStep ==
  \/ \E c \in Commits : PushCommit(c)
  \/ \E p \in Profiles : OtherDispatch(p)
  \/ \E i \in DOMAIN runs : AppearRun(i) \/ StartRun(i) \/ FinishJob(i) \/ CompleteRun(i)
=============================================================================
