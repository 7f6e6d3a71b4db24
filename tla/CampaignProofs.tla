--------------------------- MODULE CampaignProofs ---------------------------
(***************************************************************************)
(* Proofs about the campaign and the completion audit, for every set of    *)
(* trees, every length of the profiles and any number of campaigns, audits *)
(* and steps of the developer.                                             *)
(***************************************************************************)
EXTENDS Campaign, TLAPS

Git == [head : Trees \cup {"none"}, dirty : BOOLEAN]
SignoffReport == [status : {"none", "pass", "fail"}, git : Git, passed : SUBSET Steps]
CiReport == [status : {"none", "pass", "fail"}, expected : Trees \cup {"none"},
             run : Trees \cup {"none"}]
Copy == [signoff : SignoffReport, ci : CiReport, open : BOOLEAN, head : Trees \cup {"none"}]

\* What the type invariant leaves open of the reports.
ReportTypes == signoff \in SignoffReport /\ copy \in Copy

\* Until a step has failed, the steps that passed are all those behind it.
Progress ==
  /\ cpc \in {"idle", "head", "status"} => passed = {} /\ ~failed /\ at = 1
  /\ cpc = "step" /\ ~failed => passed = 1..(at - 1)
  /\ cpc = "report" /\ ~failed => passed = 1..EndOf(prof)

\* Every step passes on the tree g.
PassesAll(g) == \A k \in Steps : g \in good[k]

\* While nobody works beside it: a campaign that found the tree clean is about that commit,
\* and so is what it has built.
CampaignEarned ==
  /\ cpc = "status" => git.head = head
  /\ cpc \in {"step", "report"} => git.head = head /\ (~git.dirty => tree = head)
  /\ cpc \in {"step", "report"} /\ ~failed /\ ~git.dirty =>
       /\ \A k \in passed : head \in good[k]
       /\ SmokeLast \in passed => built = head

\* A clean passing report names a commit that passes every step, also as it was copied.
Earned(r) == r.status = "pass" /\ ~r.git.dirty => PassesAll(r.git.head)
AuditEarned == apc = "status" => copy.head = head

IInv == TypeOK /\ ReportTypes /\ Progress /\ PassCoversProfile
QuietInv == CampaignEarned /\ AuditEarned /\ Earned(signoff) /\ Earned(copy.signoff)

LEMMA StepTypes ==
  ASSUME CampaignConstants
  PROVE  /\ 1 \in Steps /\ SmokeLast \in Steps /\ Last \in Steps
         /\ \A p \in Profiles :
              EndOf(p) \in Steps /\ 1..EndOf(p) \subseteq Steps /\ 1 \in 1..EndOf(p)
         /\ EndOf("signoff") = Last
  BY DEF CampaignConstants, Steps, Profiles, EndOf

LEMMA NoneTypes == NoReport \in SignoffReport /\ NoCopy \in Copy /\ NoGit \in Git
  <1>1. NoGit \in Git
    BY DEF NoGit, Git
  <1>2. NoReport \in SignoffReport
    BY <1>1 DEF NoReport, SignoffReport
  <1>3. NoEvidence \in CiReport
    BY DEF NoEvidence, CiReport
  <1>4. QED
    BY <1>1, <1>2, <1>3 DEF NoCopy, Copy

LEMMA InitHolds == ASSUME CampaignConstants, Init PROVE IInv
  <1>1. TypeOK
    <2>1. 0 \in 0..MaxRuns /\ 0 \in 0..MaxMoves /\ "smoke" \in Profiles
      BY DEF CampaignConstants, Profiles
    <2>2. git \in [head : Trees \cup {"none"}, dirty : BOOLEAN]
      BY NoneTypes DEF Init, Git
    <2>3. copy.open \in BOOLEAN /\ signoff.status = "none" /\ signoff.passed = {}
      BY DEF Init, NoCopy, NoReport
    <2>4. at \in 1..EndOf(prof)
      BY <2>1, StepTypes DEF Init
    <2>5. QED
      BY <2>1, <2>2, <2>3, <2>4 DEF Init, TypeOK
  <1>2. ReportTypes
    BY NoneTypes DEF Init, ReportTypes
  <1>3. Progress /\ PassCoversProfile
    BY DEF Init, Progress, PassCoversProfile, NoReport
  <1>4. QED
    BY <1>1, <1>2, <1>3 DEF IInv

LEMMA RunStepHolds == ASSUME CampaignConstants, IInv, RunStep PROVE IInv'
  <1> DEFINE ok == Subject(at) \in good[at]
  <1>1. /\ cpc = "step"
        /\ built' = (IF ok /\ at = SmokeLast THEN tree ELSE built)
        /\ passed' = (IF ok THEN passed \cup {at} ELSE passed)
        /\ failed' = (failed \/ ~ok)
        /\ \/ at = EndOf(prof) /\ cpc' = "report" /\ at' = at
           \/ failed' /\ cpc' = "report" /\ at' = at
           \/ at # EndOf(prof) /\ cpc' = "step" /\ at' = at + 1
        /\ UNCHANGED <<repo, good, prof, keep, git, signoff, audit, runs, moves>>
    BY DEF RunStep
  <1>2. /\ at \in 1..EndOf(prof) /\ EndOf(prof) \in Nat /\ at \in Nat /\ at \in Steps
    BY StepTypes DEF IInv, TypeOK, Steps
  <1>3. at' \in 1..EndOf(prof')
    BY <1>1, <1>2
  <1>4. failed' \in BOOLEAN /\ passed' \subseteq Steps /\ built' \in Trees \cup {"none"}
    BY <1>1, <1>2 DEF IInv, TypeOK
  <1>5. TypeOK'
    BY <1>1, <1>3, <1>4 DEF IInv, TypeOK, repo, audit
  <1>6. ReportTypes' /\ PassCoversProfile'
    BY <1>1 DEF IInv, ReportTypes, PassCoversProfile, audit
  <1>7. Progress'
    <2>1. ~failed' => passed' = 1..at
      <3>1. SUFFICES ASSUME ~failed' PROVE passed' = 1..at
        OBVIOUS
      <3>2. ~failed /\ passed' = passed \cup {at}
        BY <1>1, <3>1
      <3>3. passed = 1..(at - 1)
        BY <1>1, <3>2 DEF IInv, Progress
      <3>4. QED
        BY <1>2, <3>2, <3>3
    <2>2. CASE at = EndOf(prof) /\ cpc' = "report" /\ at' = at
      BY <1>1, <2>1, <2>2 DEF Progress
    <2>3. CASE failed' /\ cpc' = "report" /\ at' = at
      BY <2>3 DEF Progress
    <2>4. CASE at # EndOf(prof) /\ cpc' = "step" /\ at' = at + 1
      <3>1. at' - 1 = at
        BY <1>2, <2>4
      <3>2. QED
        BY <2>1, <2>4, <3>1 DEF Progress
    <2>5. QED
      BY <1>1, <2>2, <2>3, <2>4
  <1>8. QED
    BY <1>5, <1>6, <1>7 DEF IInv

LEMMA WriteReportHolds == ASSUME CampaignConstants, IInv, WriteReport PROVE IInv'
  <1>1. signoff' = signoff
        \/ /\ prof = "signoff"
           /\ signoff' = [status |-> IF failed THEN "fail" ELSE "pass", git |-> git,
                          passed |-> passed]
    BY DEF WriteReport
  <1>2. signoff' \in SignoffReport
    BY <1>1 DEF IInv, TypeOK, ReportTypes, SignoffReport, Git
  <1>3. PassCoversProfile'
    <2>1. CASE signoff' = signoff
      BY <2>1 DEF IInv, PassCoversProfile
    <2>2. CASE signoff' # signoff
      BY <1>1, <2>2, StepTypes DEF WriteReport, IInv, Progress, PassCoversProfile, Steps
    <2>3. QED
      BY <2>1, <2>2
  <1>4. TypeOK'
    BY <1>2, StepTypes, NoneTypes
       DEF WriteReport, Exit, IInv, TypeOK, SignoffReport, repo, audit, Profiles, Git
  <1>5. ReportTypes' /\ Progress'
    BY <1>2 DEF WriteReport, Exit, IInv, ReportTypes, Progress, audit
  <1>6. QED
    BY <1>3, <1>4, <1>5 DEF IInv

\* What the audit copies keeps its form.
LEMMA AuditHolds == ASSUME CampaignConstants, IInv, BeginAudit \/ AuditStep PROVE IInv'
  <1>1. copy' \in Copy
    <2>1. CASE BeginAudit
      BY <2>1, NoneTypes DEF BeginAudit, IInv, ReportTypes, Copy
    <2>2. CASE ReadReports
      <3>1. 1 \in Steps
        BY StepTypes
      <3>2. Evidence \subseteq CiReport
        BY <3>1 DEF Evidence, NoEvidence, CiReport, IInv, TypeOK
      <3>3. QED
        BY <2>2, <3>2 DEF ReadReports, IInv, ReportTypes, Copy
    <2>3. CASE ReadAuditHead
      BY <2>3 DEF ReadAuditHead, IInv, TypeOK, ReportTypes, Copy
    <2>4. CASE WriteVerdict
      BY <2>4, NoneTypes DEF WriteVerdict
    <2>5. QED
      BY <2>1, <2>2, <2>3, <2>4 DEF AuditStep
  <1>2. /\ UNCHANGED <<repo, good, built, campaign, signoff, moves>>
        /\ apc' \in {"idle", "reports", "head", "status"}
        /\ verdict' \in {"none", "complete", "incomplete"}
        /\ runs' \in 0..MaxRuns
    <2>1. CASE BeginAudit
      BY <2>1 DEF CampaignConstants, BeginAudit, IInv, TypeOK
    <2>2. CASE ReadReports \/ ReadAuditHead
      BY <2>2 DEF ReadReports, ReadAuditHead, IInv, TypeOK
    <2>3. CASE WriteVerdict
      BY <2>3 DEF WriteVerdict, IInv, TypeOK
    <2>4. QED
      BY <2>1, <2>2, <2>3 DEF AuditStep
  <1>3. copy'.open \in BOOLEAN
    BY <1>1 DEF Copy
  <1>4. TypeOK'
    BY <1>2, <1>3 DEF IInv, TypeOK, repo, campaign
  <1>5. ReportTypes' /\ Progress' /\ PassCoversProfile'
    BY <1>1, <1>2 DEF IInv, ReportTypes, Progress, PassCoversProfile, campaign
  <1>6. QED
    BY <1>4, <1>5 DEF IInv

LEMMA StepHolds == ASSUME CampaignConstants, IInv, [Next]_vars PROVE IInv'
  <1>1. ASSUME NEW p \in Profiles, NEW k \in BOOLEAN, Begin(p, k) PROVE IInv'
    <2>1. at = 1 /\ runs' \in 0..MaxRuns
      BY <1>1 DEF CampaignConstants, Begin, IInv, TypeOK, Progress
    <2>2. TypeOK'
      BY <1>1, <2>1, StepTypes DEF Begin, IInv, TypeOK, repo, audit
    <2>3. ReportTypes' /\ Progress' /\ PassCoversProfile'
      BY <1>1 DEF Begin, IInv, ReportTypes, Progress, PassCoversProfile, audit
    <2>4. QED
      BY <2>2, <2>3 DEF IInv
  <1>2. CASE ReadHead \/ ReadStatus
    <2>1. /\ UNCHANGED <<repo, good, built, prof, keep, at, passed, failed, signoff, audit,
                         runs, moves>>
          /\ \/ cpc = "head" /\ cpc' = "status"
             \/ cpc = "status" /\ cpc' = "step"
          /\ git' \in Git
      BY <1>2 DEF ReadHead, ReadStatus, IInv, TypeOK, Git
    <2>2. TypeOK'
      BY <2>1 DEF IInv, TypeOK, repo, audit, Git
    <2>3. passed = {} /\ at = 1 /\ ~failed
      BY <2>1 DEF IInv, Progress
    <2>4. ReportTypes' /\ Progress' /\ PassCoversProfile'
      BY <2>1, <2>3 DEF IInv, ReportTypes, Progress, PassCoversProfile, audit
    <2>5. QED
      BY <2>2, <2>4 DEF IInv
  <1>3. CASE Kill
    <2>1. TypeOK'
      BY <1>3, StepTypes, NoneTypes
         DEF Kill, Exit, IInv, TypeOK, repo, audit, Profiles, Git
    <2>2. ReportTypes' /\ Progress' /\ PassCoversProfile'
      BY <1>3 DEF Kill, Exit, IInv, ReportTypes, Progress, PassCoversProfile, audit
    <2>3. QED
      BY <2>1, <2>2 DEF IInv
  <1>4. CASE Developer
    <2>1. /\ tree' \in Trees /\ head' \in Trees /\ built' \in Trees \cup {"none"}
          /\ moves' \in 0..MaxMoves
          /\ UNCHANGED <<good, campaign, signoff, audit, runs>>
      BY <1>4 DEF CampaignConstants, Developer, IInv, TypeOK, repo
    <2>2. TypeOK'
      BY <2>1 DEF IInv, TypeOK, campaign, audit
    <2>3. ReportTypes' /\ Progress' /\ PassCoversProfile'
      BY <2>1 DEF IInv, ReportTypes, Progress, PassCoversProfile, campaign, audit
    <2>4. QED
      BY <2>2, <2>3 DEF IInv
  <1>5. CASE UNCHANGED vars
    BY <1>5 DEF vars, repo, campaign, audit, IInv, TypeOK, ReportTypes, Progress,
                PassCoversProfile
  <1>6. QED
    BY <1>1, <1>2, <1>3, <1>4, <1>5, RunStepHolds, WriteReportHolds, AuditHolds
       DEF Next, CampaignStep

LEMMA InvariantHolds == ASSUME CampaignConstants PROVE Spec => []IInv
  <1>1. Init => IInv
    BY InitHolds
  <1>2. IInv /\ [Next]_vars => IInv'
    BY StepHolds
  <1>3. QED
    BY <1>1, <1>2, PTL DEF Spec

\* The campaign, the reports and the audit stay within their types.
THEOREM TypeCorrect == ASSUME CampaignConstants PROVE Spec => []TypeOK
  <1>1. IInv => TypeOK
    BY DEF IInv
  <1>2. QED
    BY <1>1, InvariantHolds, PTL

\* A passing signoff report covers every step of the profile, whoever worked beside it.
THEOREM PassesCover == ASSUME CampaignConstants PROVE Spec => []PassCoversProfile
  <1>1. IInv => PassCoversProfile
    BY DEF IInv
  <1>2. QED
    BY <1>1, InvariantHolds, PTL
-----------------------------------------------------------------------------
\* A developer who keeps away from a running campaign and a running audit.

LEMMA QuietInit == ASSUME Init PROVE QuietInv
  BY DEF Init, QuietInv, CampaignEarned, AuditEarned, Earned, NoReport, NoCopy

\* Nothing is known of a campaign that is not running.
LEMMA IdleEarned == ASSUME cpc' \in {"idle", "head"} PROVE CampaignEarned'
  BY DEF CampaignEarned

LEMMA RunStepEarned ==
  ASSUME CampaignConstants, IInv, QuietInv, RunStep
  PROVE  CampaignEarned'
  <1> DEFINE ok == Subject(at) \in good[at]
  <1>1. /\ cpc = "step" /\ cpc' \in {"step", "report"}
        /\ built' = (IF ok /\ at = SmokeLast THEN tree ELSE built)
        /\ passed' = (IF ok THEN passed \cup {at} ELSE passed)
        /\ failed' = (failed \/ ~ok)
        /\ UNCHANGED <<tree, head, good, git>>
    BY DEF RunStep, repo
  <1>2. git'.head = head' /\ (~git'.dirty => tree' = head')
    BY <1>1 DEF QuietInv, CampaignEarned
  <1>3. ASSUME ~failed', ~git.dirty
        PROVE  (\A k \in passed' : head \in good[k]) /\ (SmokeLast \in passed' => built' = head)
    <2>1. /\ ok /\ ~failed /\ tree = head /\ passed' = passed \cup {at}
          /\ \A k \in passed : head \in good[k]
          /\ SmokeLast \in passed => built = head
      BY <1>1, <1>3 DEF QuietInv, CampaignEarned
    <2>2. passed = 1..(at - 1) /\ at \in Nat /\ at >= 1 /\ SmokeLast \in Nat /\ SmokeLast >= 1
      BY <1>1, <2>1, StepTypes DEF CampaignConstants, IInv, Progress, TypeOK, Steps
    <2>3. Subject(at) = head
      <3>1. CASE at <= SmokeLast
        BY <2>1, <3>1 DEF Subject
      <3>2. CASE ~(at <= SmokeLast)
        <4>1. SmokeLast \in passed
          BY <2>2, <3>2
        <4>2. QED
          BY <2>1, <3>2, <4>1 DEF Subject
      <3>3. QED
        BY <3>1, <3>2
    <2>4. \A k \in passed' : head \in good[k]
      BY <2>1, <2>3
    <2>5. SmokeLast \in passed' => built' = head
      BY <1>1, <2>1
    <2>6. QED
      BY <2>4, <2>5
  <1>4. QED
    BY <1>1, <1>2, <1>3 DEF CampaignEarned

LEMMA QuietStep == ASSUME CampaignConstants, Quiet, IInv, QuietInv, [Next]_vars PROVE QuietInv'
  <1>1. CASE \E p \in Profiles, k \in BOOLEAN : Begin(p, k)
    BY <1>1, IdleEarned DEF Begin, QuietInv, AuditEarned, Earned, PassesAll, audit
  <1>2. CASE ReadHead \/ ReadStatus
    <2>1. CampaignEarned'
      <3>1. passed = {}
        BY <1>2 DEF ReadHead, ReadStatus, IInv, Progress
      <3>2. QED
        BY <1>2, <3>1
           DEF ReadHead, ReadStatus, QuietInv, CampaignEarned, IInv, TypeOK, repo
    <2>2. QED
      BY <1>2, <2>1
         DEF ReadHead, ReadStatus, QuietInv, AuditEarned, Earned, PassesAll, repo, audit
  <1>3. CASE RunStep
    BY <1>3, RunStepEarned DEF RunStep, QuietInv, AuditEarned, Earned, PassesAll, repo, audit
  <1>4. CASE WriteReport
    <2>1. CampaignEarned'
      BY <1>4, IdleEarned DEF WriteReport, Exit
    <2>2. Earned(signoff)'
      <3>1. CASE prof # "signoff"
        BY <1>4, <3>1 DEF WriteReport, QuietInv, Earned, PassesAll
      <3>2. CASE prof = "signoff"
        <4>1. /\ cpc = "report" /\ good' = good
              /\ signoff' = [status |-> IF failed THEN "fail" ELSE "pass", git |-> git,
                             passed |-> passed]
          BY <1>4, <3>2 DEF WriteReport
        <4>2. ASSUME ~failed, ~git.dirty PROVE PassesAll(git.head)
          <5>1. passed = Steps
            BY <3>2, <4>1, <4>2, StepTypes DEF IInv, Progress, Steps
          <5>2. git.head = head /\ \A k \in passed : head \in good[k]
            BY <4>1, <4>2 DEF QuietInv, CampaignEarned
          <5>3. QED
            BY <5>1, <5>2 DEF PassesAll
        <4>3. QED
          BY <4>1, <4>2 DEF Earned, PassesAll
      <3>3. QED
        BY <3>1, <3>2
    <2>3. AuditEarned' /\ Earned(copy.signoff)'
      BY <1>4 DEF WriteReport, QuietInv, AuditEarned, Earned, PassesAll, repo, audit
    <2>4. QED
      BY <2>1, <2>2, <2>3 DEF QuietInv
  <1>5. CASE Kill
    BY <1>5, IdleEarned DEF Kill, Exit, QuietInv, AuditEarned, Earned, PassesAll, repo, audit
  <1>6. CASE BeginAudit \/ AuditStep
    <2>1. UNCHANGED <<repo, good, built, campaign, signoff>>
      BY <1>6 DEF BeginAudit, AuditStep, ReadReports, ReadAuditHead, WriteVerdict
    <2>2. CampaignEarned' /\ Earned(signoff)'
      BY <2>1 DEF QuietInv, CampaignEarned, Earned, PassesAll, repo, campaign
    <2>3. copy \in Copy
      BY DEF IInv, ReportTypes
    <2>4. AuditEarned' /\ copy'.signoff \in {signoff, NoReport, copy.signoff}
      <3>1. CASE BeginAudit
        BY <3>1, <2>3 DEF BeginAudit, AuditEarned, NoCopy
      <3>2. CASE ReadReports
        BY <3>2, <2>3 DEF ReadReports, AuditEarned, Copy
      <3>3. CASE ReadAuditHead
        BY <3>3, <2>3 DEF ReadAuditHead, AuditEarned, Copy, repo
      <3>4. CASE WriteVerdict
        BY <3>4, <2>3 DEF WriteVerdict, AuditEarned, NoCopy
      <3>5. QED
        BY <1>6, <3>1, <3>2, <3>3, <3>4 DEF AuditStep
    <2>5. Earned(copy.signoff)'
      BY <2>1, <2>4 DEF QuietInv, Earned, PassesAll, NoReport
    <2>6. QED
      BY <2>2, <2>4, <2>5 DEF QuietInv
  <1>7. CASE Developer
    <2>1. cpc = "idle" /\ apc = "idle" /\ UNCHANGED <<good, campaign, signoff, audit>>
      BY <1>7 DEF Developer
    <2>2. QED
      BY <2>1, IdleEarned DEF QuietInv, AuditEarned, Earned, PassesAll, campaign, audit
  <1>8. CASE UNCHANGED vars
    BY <1>8 DEF vars, repo, campaign, audit, QuietInv, CampaignEarned, AuditEarned, Earned,
                PassesAll
  <1>9. QED
    BY <1>1, <1>2, <1>3, <1>4, <1>5, <1>6, <1>7, <1>8 DEF Next, CampaignStep

\* The audit says complete of a commit that has earned it.
LEMMA CompleteEarned ==
  ASSUME IInv, QuietInv, Next, apc = "status", verdict' = "complete", apc' = "idle"
  PROVE  /\ tree = head /\ \A k \in Steps : head \in good[k]
         /\ copy.ci.run = head
  <1>1. WriteVerdict
    BY DEF Next, Begin, CampaignStep, ReadHead, ReadStatus, RunStep, WriteReport, Kill,
                BeginAudit, AuditStep, ReadReports, ReadAuditHead, Developer, audit
  <1>2. SignoffFresh(copy, tree # head) /\ CiCurrent(copy)
    BY <1>1 DEF WriteVerdict
  <1>3. copy.head = head
    BY DEF QuietInv, AuditEarned
  <1>4. PassesAll(copy.signoff.git.head)
    BY <1>2 DEF QuietInv, Earned, SignoffFresh
  <1>5. QED
    BY <1>2, <1>3, <1>4 DEF SignoffFresh, CiCurrent, PassesAll

\* While campaigns and audits are left alone, what is called complete is the commit checked
\* out, clean, and it passes every step of the signoff profile and passed its hosted run.
THEOREM CompletionIsEarned == ASSUME CampaignConstants, Quiet PROVE Spec => CompleteIsTrue
  <1> DEFINE True == apc = "status" /\ verdict' = "complete" /\ apc' = "idle" =>
               /\ tree = head /\ \A k \in Steps : head \in good[k]
               /\ copy.ci.run = head
  <1>1. Init => QuietInv
    BY QuietInit
  <1>2. IInv /\ QuietInv /\ [Next]_vars => QuietInv'
    BY QuietStep
  <1>3. IInv /\ QuietInv /\ [Next]_vars => [True]_vars
    BY CompleteEarned DEF True
  <1>4. QED
    BY <1>1, <1>2, <1>3, InvariantHolds, PTL DEF CompleteIsTrue, True, Spec
=============================================================================
