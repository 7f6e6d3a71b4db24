----------------------------- MODULE CiDispatch -----------------------------
(***************************************************************************)
(* scripts/ci_remote_dispatch.py: for each profile in turn, list the runs, *)
(* trigger one by "gh workflow run", which does not return its id, look    *)
(* for a run that was not in the listing, and wait for it to complete.     *)
(* The deadlines of the two polling loops are counters of polls; a poll    *)
(* can take any time, so it may use up more than one.                      *)
(***************************************************************************)
EXTENDS Workflow

CONSTANTS
  DispatchProfiles,  \* --profiles, in order
  BeforeLimit,       \* the limit of the listing before the trigger, 50
  FindLimit,         \* the limit of the listings after it, 20
  AppearPolls,       \* bound: polls before --appear-timeout-seconds
  RunPolls           \* bound: polls before --run-timeout-seconds

\* What the values of the constants have to satisfy.  The listing before the trigger is at
\* least as long as the ones after it, or old runs would look new.
DispatchConstants ==
  /\ WorkflowConstants
  /\ DispatchProfiles \in Seq(Profiles) /\ DispatchProfiles # <<>>
  /\ BeforeLimit \in Nat /\ FindLimit \in Nat /\ FindLimit <= BeforeLimit
  /\ AppearPolls \in Nat /\ RunPolls \in Nat

VARIABLES
  dpc,       \* control of the dispatcher
  wait,      \* --wait
  expected,  \* expected_head_sha
  known,     \* before_ids of the current profile
  ignored,   \* find_new_run: runs rejected for good
  unread,    \* find_new_run: runs of the last listing still to be examined
  credited,  \* the run taken for the dispatched one, 0 if none yet
  left,      \* polls left before the deadline of the current loop
  view,      \* wait_for_run: last_view
  steps,     \* report["steps"]
  dstatus,   \* report["status"], "none" before the report
  prior      \* history: every run listed when the last ListBefore succeeded

dvars == <<dpc, wait, expected, known, ignored, unread, credited, left, view,
           steps, dstatus, prior>>

NoView == [status |-> "none", sha |-> "none", shown |-> FALSE, job |-> "none",
           conclusion |-> "none"]

\* gh run view of run i as profile p reads it.
ViewOf(i, p) ==
  [status |-> runs[i].status, sha |-> runs[i].sha, shown |-> JobsShown(runs[i]),
   job |-> JobConclusion(runs[i], p), conclusion |-> runs[i].conclusion]

\* The profile of the step in progress.
Profile == DispatchProfiles[Len(steps) + 1]
-----------------------------------------------------------------------------
DispatchInit ==
  /\ dpc = "start"
  /\ wait \in BOOLEAN /\ expected \in Commits
  /\ known = {} /\ ignored = {} /\ unread = {}
  /\ credited = 0 /\ left = 0 /\ view = NoView
  /\ steps = <<>> /\ dstatus = "none" /\ prior = {}

\* gh, the repository name, the expected head and the repository probe.
Precheck ==
  /\ dpc = "start"
  /\ \/ dpc' = "list" /\ UNCHANGED dstatus
     \/ dpc' = "done" /\ dstatus' = "fail"
  /\ UNCHANGED <<runs, tip, wait, expected, known, ignored, unread, credited, left,
                 view, steps, prior>>

\* list_runs before the trigger; an error leaves before_ids empty and is only noted.
ListBefore ==
  /\ dpc = "list"
  /\ \/ known' = Listing(BeforeLimit) /\ prior' = Listing(MaxRuns)
     \/ known' = {} /\ prior' = {}
  /\ dpc' = "trigger"
  /\ UNCHANGED <<runs, tip, wait, expected, ignored, unread, credited, left, view,
                 steps, dstatus>>

\* The step ends with the run it took: its locals are gone, and the first failing
\* step ends the report.
EndStep(run, result) ==
  /\ steps' = Append(steps, [profile |-> Profile, run |-> run, status |-> result])
  /\ known' = {} /\ ignored' = {} /\ unread' = {} /\ credited' = 0 /\ left' = 0
  /\ view' = NoView /\ prior' = {}
  /\ IF result = "fail" THEN dpc' = "done" /\ dstatus' = "fail"
     ELSE IF Len(steps) + 1 = Len(DispatchProfiles)
     THEN dpc' = "done" /\ dstatus' = "pass"
     ELSE dpc' = "list" /\ UNCHANGED dstatus

\* gh workflow run on the hosted branch; it can fail without creating a run.
TriggerRun ==
  /\ dpc = "trigger"
  /\ \/ /\ Trigger("workflow_dispatch", Profile, tip)
        /\ dpc' = "find" /\ left' = AppearPolls
        /\ UNCHANGED <<known, ignored, unread, credited, view, steps, dstatus, prior>>
     \/ /\ EndStep(0, "fail")
        /\ UNCHANGED runs
  /\ UNCHANGED <<tip, wait, expected>>

\* Mutant: the runs that were there before the trigger are looked at too.
PollListAll ==
  /\ dpc = "find" /\ unread = {} /\ left > 0
  /\ \E n \in 0..(left - 1) : left' = n
  /\ \/ unread' = {i \in Listing(FindLimit) \ ignored : runs[i].event = "workflow_dispatch"}
     \/ UNCHANGED unread
  /\ UNCHANGED <<runs, tip, dpc, wait, expected, known, ignored, credited, view,
                 steps, dstatus, prior>>

\* One poll of find_new_run: an error is kept for the reason, nothing else.
PollList ==
  /\ dpc = "find" /\ unread = {} /\ left > 0
  /\ \E n \in 0..(left - 1) : left' = n
  /\ \/ unread' = {i \in Listing(FindLimit) \ (known \cup ignored) :
                      runs[i].event = "workflow_dispatch"}
     \/ UNCHANGED unread
  /\ UNCHANGED <<runs, tip, dpc, wait, expected, known, ignored, credited, view,
                 steps, dstatus, prior>>

\* The next run of the listing has another head: rejected for good.
ExamineHead ==
  /\ dpc = "find" /\ unread # {}
  /\ LET i == Newest(unread)
     IN  /\ runs[i].sha # expected
         /\ ignored' = ignored \cup {i}
         /\ unread' = unread \ {i}
  /\ UNCHANGED <<runs, tip, dpc, wait, expected, known, credited, left, view, steps,
                 dstatus, prior>>

\* Without --wait the first run with the right head is the dispatched one.
ExamineCredit ==
  /\ dpc = "find" /\ unread # {} /\ ~wait
  /\ LET i == Newest(unread)
     IN  runs[i].sha = expected /\ EndStep(i, "dispatched")
  /\ UNCHANGED <<runs, tip, wait, expected>>

\* Mutant: a run without jobs is rejected before it has started.
ExamineViewOnce ==
  /\ dpc = "find" /\ unread # {} /\ wait
  /\ LET i == Newest(unread)
     IN  /\ runs[i].sha = expected
         /\ IF JobsShown(runs[i])
            THEN /\ credited' = i /\ dpc' = "wait" /\ left' = RunPolls
                 /\ unread' = {} /\ ignored' = {}
            ELSE /\ unread' = unread \ {i} /\ ignored' = ignored \cup {i}
                 /\ UNCHANGED <<dpc, credited, left>>
  /\ UNCHANGED <<runs, tip, wait, expected, known, view, steps, dstatus, prior>>

\* With --wait its view must hold a job of the profile: without one it is
\* rejected when completed and looked at again otherwise; so it is after an error.
ExamineView ==
  /\ dpc = "find" /\ unread # {} /\ wait
  /\ LET i == Newest(unread)
     IN  /\ runs[i].sha = expected
         /\ \/ unread' = unread \ {i} /\ UNCHANGED <<dpc, ignored, credited, left>>
            \/ /\ ~JobsShown(runs[i])
               /\ unread' = unread \ {i}
               /\ ignored' = IF runs[i].status = "completed" THEN ignored \cup {i}
                             ELSE ignored
               /\ UNCHANGED <<dpc, credited, left>>
            \/ /\ JobsShown(runs[i])
               /\ credited' = i /\ dpc' = "wait" /\ left' = RunPolls
               /\ unread' = {} /\ ignored' = {}
  /\ UNCHANGED <<runs, tip, wait, expected, known, view, steps, dstatus, prior>>

AppearTimeout ==
  /\ dpc = "find" /\ unread = {} /\ left = 0
  /\ EndStep(0, "fail")
  /\ UNCHANGED <<runs, tip, wait, expected>>

\* One poll of wait_for_run; a failed call leaves last_view alone.
PollRun ==
  /\ dpc = "wait" /\ left > 0
  /\ \E n \in 0..(left - 1) : left' = n
  /\ \/ UNCHANGED <<dpc, view>>
     \/ /\ view' = ViewOf(credited, Profile)
        /\ dpc' = IF runs[credited].status = "completed" THEN "judge" ELSE "wait"
  /\ UNCHANGED <<runs, tip, wait, expected, known, ignored, unread, credited, steps,
                 dstatus, prior>>

RunTimeout ==
  /\ dpc = "wait" /\ left = 0
  /\ dpc' = "judge"
  /\ UNCHANGED <<runs, tip, wait, expected, known, ignored, unread, credited, left,
                 view, steps, dstatus, prior>>

\* dispatch_profile: what the last view must show for the step to pass.
Accepts(v) ==
  /\ v # NoView /\ v.sha = expected
  /\ v.shown /\ v.job = "success" /\ v.conclusion = "success"

Judge ==
  /\ dpc = "judge"
  /\ EndStep(credited, IF Accepts(view) THEN "pass" ELSE "fail")
  /\ UNCHANGED <<runs, tip, wait, expected>>

DispatchStep ==
  \/ Precheck \/ ListBefore \/ TriggerRun \/ PollList \/ ExamineHead \/ ExamineCredit
  \/ ExamineView \/ AppearTimeout \/ PollRun \/ RunTimeout \/ Judge

Init == runs = <<>> /\ tip \in Commits /\ DispatchInit

Hosted == WorkflowStep /\ UNCHANGED dvars

Next == DispatchStep \/ Hosted

vars == <<wvars, dvars>>

Spec == Init /\ [][Next]_vars
-----------------------------------------------------------------------------
ViewType == [status : {"none", "queued", "in_progress", "completed"},
             sha : Commits \cup {"none"}, shown : BOOLEAN,
             job : Conclusions \cup {"skipped"}, conclusion : Conclusions]

\* Type invariant of the dispatcher and the workflow.
TypeOK ==
  /\ runs \in Seq(Runs) /\ Len(runs) <= MaxRuns /\ tip \in Commits
  /\ dpc \in {"start", "list", "trigger", "find", "wait", "judge", "done"}
  /\ wait \in BOOLEAN /\ expected \in Commits
  /\ known \subseteq DOMAIN runs /\ ignored \subseteq DOMAIN runs
  /\ unread \subseteq DOMAIN runs /\ prior \subseteq DOMAIN runs
  /\ credited \in 0..Len(runs)
  /\ left \in Nat /\ view \in ViewType
  /\ steps \in Seq([profile : Profiles, run : 0..Len(runs),
                    status : {"pass", "fail", "dispatched"}])
  /\ dstatus \in {"none", "pass", "fail"}

\* A passing --wait report names, for every requested profile, a run of the
\* expected head that ended with that profile's job and the run successful, whatever
\* other pushes and dispatches did meanwhile (dispatch_profile, main).
PassMeansSuccess ==
  dstatus = "pass" /\ wait =>
    /\ Len(steps) = Len(DispatchProfiles)
    /\ \A j \in DOMAIN steps :
         steps[j].run # 0 /\ Succeeded(runs[steps[j].run], DispatchProfiles[j], expected)

\* One run is never the evidence of two different profiles, although the view of
\* every run holds a job of every profile.
DistinctEvidence ==
  \A j, k \in DOMAIN steps :
    steps[j].status = "pass" /\ steps[k].status = "pass" /\ steps[j].run = steps[k].run
      => DispatchProfiles[j] = DispatchProfiles[k]

\* What find_new_run rejects for good can never become the evidence it looks for.
NoSuccessIgnored ==
  dpc = "find" /\ wait => \A i \in ignored : ~Succeeded(runs[i], Profile, expected)

\* When the listing before the trigger succeeded, a run that was listed then is not
\* taken for the dispatched one, also when there are more runs than a listing holds.
CreditedUnseen ==
  [][dpc = "find" /\ dpc' # "find" =>
       (IF dpc' = "wait" THEN credited' ELSE steps'[Len(steps')].run) \notin prior]_vars

\* With --wait a profile is triggered only when the runs of the earlier profiles have
\* succeeded: ci-evidence collects what smoke produced.
OrderedTriggers ==
  [][wait /\ dpc = "trigger" /\ dpc' # "trigger" =>
       \A j \in DOMAIN steps :
         steps[j].run # 0 /\ Succeeded(runs[steps[j].run], DispatchProfiles[j], expected)]_vars

\* A dispatch report is as good as the runs it names: a pass names a success of its own for
\* every profile, and no success was thrown away.
DispatchTrue == TypeOK /\ PassMeansSuccess /\ DistinctEvidence /\ NoSuccessIgnored

\* What is waited for is what was triggered, and it is triggered in order.
TriggersFollowed == CreditedUnseen /\ OrderedTriggers
=============================================================================
