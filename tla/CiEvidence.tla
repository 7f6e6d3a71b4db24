----------------------------- MODULE CiEvidence -----------------------------
(***************************************************************************)
(* scripts/ci_remote_evidence.py: list the runs of the workflow once, then *)
(* ask for the jobs and the artifacts of each, one call at a time while    *)
(* the runs go on, and look for a run that closes the required profile on  *)
(* the expected head.                                                      *)
(***************************************************************************)
EXTENDS Workflow

CONSTANT EvidenceLimit  \* --limit, 50

\* What the values of the constants have to satisfy.
EvidenceConstants == WorkflowConstants /\ EvidenceLimit \in Nat

VARIABLES
  epc,        \* control of the collector
  ehead,      \* expected_head_sha
  entries,    \* report["runs"]: what was read of each listed run, by run
  queue,      \* listed runs whose jobs have still to be read
  satisfied,  \* satisfied_runs["smoke"], 0 for none
  estatus,    \* report["status"], "none" before the report
  seen,       \* history: the runs that were evidence when they were listed
  failed      \* history: a call has failed

evars == <<epc, ehead, entries, queue, satisfied, estatus, seen, failed>>

\* What the listing says of run i; its jobs and artifacts are not known yet.
Entry(i) ==
  [event |-> runs[i].event, sha |-> runs[i].sha, status |-> runs[i].status,
   conclusion |-> runs[i].conclusion, job |-> "none", jobs |-> FALSE, artifact |-> FALSE]

\* classify_run for the smoke profile: a job of that name, its artifact or the event.
\* Titles are those of the commits and name no profile.
ClassifiedSmoke(e) == e.jobs \/ e.artifact \/ e.event = "push"

\* Mutant: only pushes count.
SatisfiesPushOnly(e) ==
  /\ e.conclusion = "success" /\ e.status = "completed" /\ e.sha = ehead
  /\ e.event = "push" /\ e.artifact /\ e.job = "success"

\* The acceptance rule of main().
Satisfies(e) ==
  /\ e.conclusion = "success" /\ e.status = "completed" /\ e.sha = ehead
  /\ ClassifiedSmoke(e) /\ e.artifact /\ e.job = "success"

\* What the collector looks for: an executed smoke profile and its artifact.
IsEvidence(i) == Succeeded(runs[i], SmokeProfile, ehead) /\ runs[i].uploaded
-----------------------------------------------------------------------------
EvidenceInit ==
  /\ epc = "start" /\ ehead \in Commits
  /\ entries = <<>> /\ queue = {} /\ satisfied = 0 /\ estatus = "none" /\ seen = {}
  /\ failed = FALSE

\* gh, repository, head and probe; then the listing.  Any of them can fail.
ListRuns ==
  /\ epc = "start"
  /\ \/ /\ epc' = "jobs"
        /\ queue' = Listing(EvidenceLimit)
        /\ entries' = [i \in queue' |-> Entry(i)]
        /\ seen' = {i \in queue' : IsEvidence(i)}
        /\ UNCHANGED <<estatus, failed>>
     \/ /\ epc' = "done" /\ estatus' = "missing" /\ failed' = TRUE
        /\ UNCHANGED <<queue, entries, seen>>
  /\ UNCHANGED <<runs, tip, ehead, satisfied>>

\* gh run view --json jobs of the next run; an error leaves the list of jobs empty.
ReadJobs ==
  /\ epc = "jobs" /\ queue # {}
  /\ LET i == Newest(queue)
     IN  \/ /\ entries' = [entries EXCEPT ![i].jobs = JobsShown(runs[i]),
                                          ![i].job = IF JobsShown(runs[i])
                                                     THEN JobConclusion(runs[i], SmokeProfile)
                                                     ELSE "none"]
            /\ UNCHANGED failed
         \/ failed' = TRUE /\ UNCHANGED entries
  /\ epc' = "artifacts"
  /\ UNCHANGED <<runs, tip, ehead, queue, satisfied, estatus, seen>>

\* The artifact list of the same run: its name holds the profile that uploaded it.
ReadArtifacts ==
  /\ epc = "artifacts"
  /\ LET i == Newest(queue)
     IN  /\ queue' = queue \ {i}
         /\ \/ /\ entries' = [entries EXCEPT ![i].artifact =
                                runs[i].uploaded /\ runs[i].profile = SmokeProfile]
               /\ UNCHANGED failed
            \/ failed' = TRUE /\ UNCHANGED entries
  /\ epc' = "jobs"
  /\ UNCHANGED <<runs, tip, ehead, satisfied, estatus, seen>>

\* The newest entry that satisfies the rule, and the report.
Collect ==
  /\ epc = "jobs" /\ queue = {}
  /\ LET good == {i \in DOMAIN entries : Satisfies(entries[i])}
     IN  IF good = {} THEN estatus' = "missing" /\ UNCHANGED satisfied
         ELSE estatus' = "pass" /\ satisfied' = Newest(good)
  /\ epc' = "done"
  /\ UNCHANGED <<runs, tip, ehead, entries, queue, seen, failed>>

EvidenceStep == ListRuns \/ ReadJobs \/ ReadArtifacts \/ Collect
-----------------------------------------------------------------------------
Init == runs = <<>> /\ tip \in Commits /\ EvidenceInit

Next == EvidenceStep \/ (WorkflowStep /\ UNCHANGED evars)

vars == <<wvars, evars>>

Spec == Init /\ [][Next]_vars
-----------------------------------------------------------------------------
\* Type invariant of the collector.
TypeOK ==
  /\ runs \in Seq(Runs) /\ tip \in Commits
  /\ epc \in {"start", "jobs", "artifacts", "done"} /\ ehead \in Commits
  /\ queue \subseteq DOMAIN entries /\ DOMAIN entries \subseteq DOMAIN runs
  /\ satisfied \in {0} \cup DOMAIN entries
  /\ estatus \in {"none", "pass", "missing"}
  /\ seen \subseteq DOMAIN entries

\* A passing report names a run that executed the smoke profile on the expected head
\* successfully and left its artifact, although status, jobs and artifacts of a run are
\* read by different calls and every run shows a smoke job.
PassIsEvidence == estatus = "pass" => satisfied # 0 /\ IsEvidence(satisfied)

\* Evidence is not lost: when no call failed and a listed run already was evidence, the
\* report passes, even if newer runs of the head failed or were cancelled.
EvidenceKept == estatus = "missing" /\ ~failed => seen = {}

\* Evidence is neither made up nor lost.
EvidenceTrue == TypeOK /\ PassIsEvidence /\ EvidenceKept
=============================================================================
