------------------------------ MODULE Campaign ------------------------------
(***************************************************************************)
(* scripts/run_verification_campaign.py runs the steps of a profile over   *)
(* the working tree and reports; scripts/completion_audit.py reads that    *)
(* report, the gap audit, the remote evidence and git, and says whether    *)
(* the project is complete.  A campaign takes hours, and the developer     *)
(* edits, commits, checks out and builds between its steps.                *)
(***************************************************************************)
EXTENDS Integers, FiniteSets

CONSTANTS
  Trees,      \* contents of the working tree; a commit is named by its tree
  Last,       \* steps 1..Last of the signoff profile
  SmokeLast,  \* the smoke profile is its beginning, and ends with the RTL build
  MaxRuns,    \* bound: campaigns and completion audits
  MaxMoves,   \* bound: steps of the developer
  Quiet       \* the developer leaves a running campaign and a running audit alone

CampaignConstants ==
  /\ Last \in Nat /\ SmokeLast \in 1..Last /\ MaxRuns \in Nat /\ MaxMoves \in Nat
  /\ Quiet \in BOOLEAN /\ Trees \cap {"none"} = {}

Steps == 1..Last
Profiles == {"smoke", "signoff"}
EndOf(p) == IF p = "smoke" THEN SmokeLast ELSE Last

VARIABLES
  tree, head,   \* the working tree, and the commit checked out
  good,         \* the trees every step passes on
  built,        \* the tree the RTL in result/ was generated from
  cpc, prof, keep, at, \* the campaign: control, --profile, --keep-going, step
  git,          \* git metadata of the running campaign
  passed,       \* its steps that passed
  failed,
  signoff,      \* signoff.json
  apc, copy,    \* the completion audit: control, and what it has read
  verdict,      \* completion_audit.json: its status
  runs, moves

repo == <<tree, head>>
campaign == <<cpc, prof, keep, at, git, passed, failed>>
audit == <<apc, copy, verdict>>
vars == <<repo, good, built, campaign, signoff, audit, runs, moves>>

NoGit == [head |-> "none", dirty |-> TRUE]
NoReport == [status |-> "none", git |-> NoGit, passed |-> {}]
NoEvidence == [status |-> "none", expected |-> "none", run |-> "none"]
NoCopy == [signoff |-> NoReport, ci |-> NoEvidence, open |-> TRUE, head |-> "none"]

Init ==
  /\ tree \in Trees /\ head \in Trees /\ good \in [Steps -> SUBSET Trees]
  /\ built = "none"
  /\ cpc = "idle" /\ prof = "smoke" /\ keep = FALSE /\ at = 1
  /\ git = NoGit /\ passed = {} /\ failed = FALSE
  /\ signoff = NoReport
  /\ apc = "idle" /\ copy = NoCopy /\ verdict = "none"
  /\ runs = 0 /\ moves = 0
-----------------------------------------------------------------------------
\* The process ends; what it knew is gone.
Exit ==
  /\ cpc' = "idle" /\ prof' = "smoke" /\ keep' = FALSE /\ at' = 1
  /\ git' = NoGit /\ passed' = {} /\ failed' = FALSE

Begin(p, k) ==
  /\ cpc = "idle" /\ apc = "idle" /\ runs < MaxRuns /\ runs' = runs + 1
  /\ cpc' = "head" /\ prof' = p /\ keep' = k
  /\ UNCHANGED <<repo, good, built, at, git, passed, failed, signoff, audit, moves>>

\* git_metadata: git rev-parse HEAD, and then git status.
ReadHead ==
  /\ cpc = "head" /\ cpc' = "status"
  /\ git' = [git EXCEPT !.head = head]
  /\ UNCHANGED <<repo, good, built, prof, keep, at, passed, failed, signoff, audit,
                 runs, moves>>

ReadStatus ==
  /\ cpc = "status" /\ cpc' = "step"
  /\ git' = [git EXCEPT !.dirty = (tree # head)]
  /\ UNCHANGED <<repo, good, built, prof, keep, at, passed, failed, signoff, audit,
                 runs, moves>>

\* What a step looks at: the tree, or after the RTL build the RTL that lies in result/.
Subject(k) == IF k <= SmokeLast THEN tree ELSE built

\* One step of the profile; the first failure ends the loop unless --keep-going.
RunStep ==
  /\ cpc = "step"
  /\ LET ok == Subject(at) \in good[at] IN
     /\ built' = IF ok /\ at = SmokeLast THEN tree ELSE built
     /\ passed' = IF ok THEN passed \cup {at} ELSE passed
     /\ failed' = (failed \/ ~ok)
     /\ IF at = EndOf(prof) \/ (failed' /\ ~keep) THEN cpc' = "report" /\ UNCHANGED at
        ELSE at' = at + 1 /\ UNCHANGED cpc
  /\ UNCHANGED <<repo, good, prof, keep, git, signoff, audit, runs, moves>>

\* The report, in the file of the profile.
WriteReport ==
  /\ cpc = "report" /\ Exit
  /\ signoff' = IF prof # "signoff" THEN signoff
                ELSE [status |-> IF failed THEN "fail" ELSE "pass", git |-> git,
                      passed |-> passed]
  /\ UNCHANGED <<repo, good, built, audit, runs, moves>>

\* The campaign is killed; the report of an earlier one stays.
Kill ==
  /\ cpc # "idle" /\ Exit
  /\ UNCHANGED <<repo, good, built, signoff, audit, runs, moves>>
-----------------------------------------------------------------------------
\* build_report reads the reports, then git's head, then its status.
BeginAudit ==
  /\ apc = "idle" /\ cpc = "idle" /\ runs < MaxRuns /\ runs' = runs + 1
  /\ apc' = "reports" /\ copy' = [NoCopy EXCEPT !.signoff = signoff]
  /\ UNCHANGED <<repo, good, built, campaign, signoff, verdict, moves>>

\* Remote evidence passes for a commit its hosted run passed on, and for the expected
\* one where one was given.
Evidence ==
  {NoEvidence} \cup [status : {"fail"}, expected : Trees, run : {"none"}] \cup
  {[status |-> "pass", expected |-> e, run |-> c] : e \in Trees \cup {"none"}, c \in good[1]}

\* The reports of the other audits: the gap audit, the remote evidence and the preflight.
ReadReports ==
  /\ apc = "reports" /\ apc' = "head"
  /\ \E e \in Evidence, open \in BOOLEAN : copy' = [copy EXCEPT !.ci = e, !.open = open]
  /\ UNCHANGED <<repo, good, built, campaign, signoff, verdict, runs, moves>>

ReadAuditHead ==
  /\ apc = "head" /\ apc' = "status"
  /\ copy' = [copy EXCEPT !.head = head]
  /\ UNCHANGED <<repo, good, built, campaign, signoff, verdict, runs, moves>>

\* Mutant: a signoff of another commit counts.
SignoffAnyHead(c, dirty) ==
  c.signoff.status = "pass" /\ ~c.signoff.git.dirty /\ ~dirty

\* local_signoff passes: a passing report, of a clean tree, of this commit, and the tree
\* is clean now.
SignoffFresh(c, dirty) ==
  /\ c.signoff.status = "pass" /\ ~c.signoff.git.dirty
  /\ c.signoff.git.head = c.head /\ ~dirty

\* remote_ci passes: expected for this commit, and the runs were its.
CiCurrent(c) ==
  c.ci.status = "pass" /\ c.ci.expected = c.head /\ c.ci.run = c.head

WriteVerdict ==
  /\ apc = "status" /\ apc' = "idle" /\ copy' = NoCopy
  /\ verdict' = IF SignoffFresh(copy, tree # head) /\ CiCurrent(copy) /\ ~copy.open
                THEN "complete" ELSE "incomplete"
  /\ UNCHANGED <<repo, good, built, campaign, signoff, runs, moves>>
-----------------------------------------------------------------------------
\* The developer edits, commits the tree, checks out a commit, or builds RTL from the tree.
Developer ==
  /\ moves < MaxMoves /\ moves' = moves + 1
  /\ Quiet => cpc = "idle" /\ apc = "idle"
  /\ \/ tree' \in Trees /\ UNCHANGED <<head, built>>
     \/ head' = tree /\ UNCHANGED <<tree, built>>
     \/ tree = head /\ head' \in Trees /\ tree' = head' /\ UNCHANGED built
     \/ tree \in good[SmokeLast] /\ built' = tree /\ UNCHANGED repo
  /\ UNCHANGED <<good, campaign, signoff, audit, runs>>

CampaignStep == ReadHead \/ ReadStatus \/ RunStep \/ WriteReport
AuditStep == ReadReports \/ ReadAuditHead \/ WriteVerdict

Next ==
  \/ \E p \in Profiles, k \in BOOLEAN : Begin(p, k)
  \/ CampaignStep \/ Kill
  \/ BeginAudit \/ AuditStep
  \/ Developer

Spec == Init /\ [][Next]_vars
-----------------------------------------------------------------------------
\* Type invariant of the campaign, the reports and the audit.
TypeOK ==
  /\ tree \in Trees /\ head \in Trees /\ good \in [Steps -> SUBSET Trees]
  /\ built \in Trees \cup {"none"}
  /\ cpc \in {"idle", "head", "status", "step", "report"} /\ prof \in Profiles
  /\ keep \in BOOLEAN /\ at \in 1..EndOf(prof)
  /\ git \in [head : Trees \cup {"none"}, dirty : BOOLEAN]
  /\ passed \subseteq Steps /\ failed \in BOOLEAN
  /\ signoff.status \in {"none", "pass", "fail"} /\ signoff.passed \subseteq Steps
  /\ apc \in {"idle", "reports", "head", "status"} /\ copy.open \in BOOLEAN
  /\ verdict \in {"none", "complete", "incomplete"}
  /\ runs \in 0..MaxRuns /\ moves \in 0..MaxMoves

\* A passing signoff report is that of one campaign in which every step of the signoff
\* profile passed, whatever smaller campaigns, kills and failures came before it and
\* after it, and with --keep-going too.
PassCoversProfile == signoff.status = "pass" => signoff.passed = Steps

\* While campaigns and audits are left alone, the project is only called complete when
\* the commit checked out, with nothing uncommitted, passes every step of the signoff
\* profile and passed its hosted run: not on the strength of an old report, of a report
\* of another commit, or of RTL built from another tree.
CompleteIsTrue ==
  [][apc = "status" /\ verdict' = "complete" /\ apc' = "idle" =>
       /\ tree = head /\ \A k \in Steps : head \in good[k]
       /\ copy.ci.run = head]_vars
=============================================================================
