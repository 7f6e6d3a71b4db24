------------------------------ MODULE MCSignoff ------------------------------
(***************************************************************************)
(* The scripts that decide whether the project is done and what is         *)
(* released: the verification campaign with the completion audit, the gap  *)
(* audit, and the release packages.  Each behaviour is one of one of them; *)
(* the others rest.                                                        *)
(***************************************************************************)
EXTENDS PackageRelease

CONSTANTS
  Last, SmokeLast, Quiet, CampaignRuns, CampaignMoves, \* the campaign's
  AuditedGaps

VARIABLES
  script,     \* the script that works
  ctree, chead, good, built, cpc, prof, keep, cat, git, passed, failed, signoff,
  apc, copy, verdict, cruns, cmoves,
  gap, facts

campaignVars == <<ctree, chead, good, built, cpc, prof, keep, cat, git, passed, failed, signoff,
                  apc, copy, verdict, cruns, cmoves>>
gapVars == <<gap, facts>>

Campaigns == INSTANCE Campaign WITH
  MaxRuns <- CampaignRuns, MaxMoves <- CampaignMoves,
  tree <- ctree, head <- chead, at <- cat, runs <- cruns, moves <- cmoves
Gaps == INSTANCE OpenGaps

ASSUME SignoffConstants == Campaigns!CampaignConstants /\ Gaps!GapsConstants

\* One of the trees, which are alike.
First == CHOOSE t \in Trees : TRUE

RestRelease ==
  /\ tree = First /\ head = First
  /\ sound = [t \in Trees |-> 1..Variants]
  /\ link = "none" /\ out = [t \in Tags |-> NoTemp] /\ sums = NoSums
  /\ pc = [p \in Procs |-> "idle"] /\ at = [p \in Procs |-> 1]
  /\ tag = [p \in Procs |-> "none"] /\ commit = [p \in Procs |-> "none"]
  /\ input = [p \in Procs |-> "none"] /\ temp = [p \in Procs |-> NoTemp]
  /\ listed = [p \in Procs |-> NoSums]
  /\ runs = 0 /\ moves = 0
RestCampaign ==
  /\ ctree = 0 /\ chead = 0 /\ good = 0 /\ built = 0 /\ cpc = "rest" /\ prof = 0 /\ keep = 0
  /\ cat = 0 /\ git = 0 /\ passed = 0 /\ failed = 0 /\ signoff = 0 /\ apc = "rest" /\ copy = 0
  /\ verdict = 0 /\ cruns = 0 /\ cmoves = 0
RestGaps == gap = "rest" /\ facts = {}

MCInit ==
  \/ script = "release" /\ Init /\ RestCampaign /\ RestGaps
  \/ script = "campaign" /\ Campaigns!Init /\ RestRelease /\ RestGaps
  \/ script = "gaps" /\ Gaps!Init /\ RestRelease /\ RestCampaign

MCNext ==
  \/ script = "release" /\ Next /\ UNCHANGED <<script, campaignVars, gapVars>>
  \/ script = "campaign" /\ Campaigns!Next /\ UNCHANGED <<script, vars, gapVars>>
  \/ script = "gaps" /\ Gaps!Next /\ UNCHANGED <<script, vars, campaignVars>>

MCSpec == MCInit /\ [][MCNext]_<<script, vars, campaignVars, gapVars>>
-----------------------------------------------------------------------------
\* run_verification_campaign.py, completion_audit.py: a passing signoff report is that of one
\* campaign in which every step of the signoff profile passed, whatever ran or was killed
\* before and after it; and while campaigns and audits are left alone, "complete" is only
\* said of a clean checkout whose commit passes every step and passed its hosted run.
SignoffEarned ==
  /\ [](script = "campaign" => Campaigns!TypeOK /\ Campaigns!PassCoversProfile)
  /\ Campaigns!CompleteIsTrue

\* open_gap_audit.py, external_iss_full_report.py: but for the facts that OpenGaps names, a
\* closed gap lists nothing as missing and one that is not closed says why.  The gap of the
\* external simulators is held to that whenever its composite report is computed; it stays
\* closed on a composite that has become stale, where run gaps_disagree finds it.
GapsAgree ==
  /\ [](script = "gaps" => Gaps!TypeOK /\ Gaps!DriftKnown)
  /\ Gaps!CompositeEarned
=============================================================================
