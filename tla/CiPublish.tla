----------------------------- MODULE CiPublish ------------------------------
(***************************************************************************)
(* scripts/ci_remote_publish.py: audit the local repository by separate    *)
(* git calls, then create the hosted repository, set the origin and push   *)
(* the branch where the flags allow it, and compare what is hosted with    *)
(* the audited head.  The developer goes on working between the calls and  *)
(* others push to the hosted repositories.                                 *)
(***************************************************************************)
EXTENDS Integers, FiniteSets

CONSTANTS
  Repos,      \* hosted repositories
  Branches,
  Commits,
  MaxMoves    \* bound: steps of developers in one run of the script

ASSUME PublishAssumption ==
  /\ MaxMoves \in Nat
  /\ {"none", "absent"} \cap (Repos \cup Branches \cup Commits) = {}

VARIABLES
  heads,      \* commit of every local branch, of a detached HEAD under "none"
  branch,     \* the branch checked out, "none" when detached
  dirty,      \* git status has something to say
  origin,     \* URL of the remote: the repository and the form
  exists,     \* hosted repositories that exist
  hosted,     \* hosted[r][b], "absent" without the branch
  moves,      \* steps developers have made
  shown,      \* history: <<r, b, c>> that were hosted since the script began
  ppc,        \* control of the script
  args,       \* --repo ("none" when not given), --confirm-create, --confirm-push
  git,        \* report["git"]
  target,     \* git["target_repository"]
  missing,    \* report["missing"] is not empty
  sha,        \* remote_branch: the hosted commit, "absent" if it is not readable
  pstatus     \* report["status"], "none" before the report

world == <<heads, branch, dirty, origin, exists, hosted, moves, shown>>
report == <<args, git, target, missing, sha, pstatus>>
vars == <<world, ppc, report>>

NoOrigin == [repo |-> "none", form |-> "none"]
Foreign == [repo |-> "none", form |-> "other"]
Origins == [repo : Repos, form : {"ssh", "https"}] \cup {NoOrigin, Foreign}

ExpectedOrigin(r) == [repo |-> r, form |-> "ssh"]

NoGit == [branch |-> "none", head |-> "none", origin |-> NoOrigin]

\* What is hosted now; a repository that does not exist shows nothing.
Visible(e, h) == {<<r, b, h[r][b]>> : r \in e, b \in Branches}
-----------------------------------------------------------------------------
Init ==
  /\ heads \in [Branches \cup {"none"} -> Commits] /\ branch \in Branches \cup {"none"}
  /\ dirty \in BOOLEAN /\ origin \in Origins /\ exists \in SUBSET Repos
  /\ hosted \in [Repos -> [Branches -> Commits \cup {"absent"}]]
  /\ \A r \in Repos \ exists, b \in Branches : hosted[r][b] = "absent"
  /\ moves = 0 /\ shown = Visible(exists, hosted)
  /\ ppc = "root"
  /\ args \in [repo : Repos \cup {"none"}, create : BOOLEAN, push : BOOLEAN]
  /\ git = NoGit /\ target = args.repo /\ missing = FALSE /\ sha = "absent"
  /\ pstatus = "none"

Report(result) == ppc' = "done" /\ pstatus' = result

Blocked == Report("blocked") /\ missing' = TRUE

\* gh on the path, inside a work tree, and the top level is this repository.  Outside
\* a work tree nothing else is read.
ReadRoot ==
  /\ ppc = "root"
  /\ \/ Blocked
     \/ ppc' = "branch" /\ missing' \in BOOLEAN /\ UNCHANGED pstatus
  /\ UNCHANGED <<world, args, git, target, sha>>

ReadBranch ==
  /\ ppc = "branch" /\ ppc' = "head"
  /\ \/ git' = [git EXCEPT !.branch = branch] /\ missing' = (missing \/ branch = "none")
     \/ missing' = TRUE /\ UNCHANGED git
  /\ UNCHANGED <<world, args, target, sha, pstatus>>

ReadHead ==
  /\ ppc = "head" /\ ppc' = "status"
  /\ \/ git' = [git EXCEPT !.head = heads[branch]] /\ UNCHANGED missing
     \/ missing' = TRUE /\ UNCHANGED git
  /\ UNCHANGED <<world, args, target, sha, pstatus>>

ReadStatus ==
  /\ ppc = "status" /\ ppc' = "origin"
  /\ missing' \in {missing \/ dirty, TRUE}
  /\ UNCHANGED <<world, args, git, target, sha, pstatus>>

\* The origin, the repository it names unless --repo does, and the end of the audit.
ReadOrigin ==
  /\ ppc = "origin"
  /\ git' = [git EXCEPT !.origin = origin]
  /\ target' = IF args.repo = "none" THEN origin.repo ELSE args.repo
  /\ IF missing \/ target' = "none" THEN Blocked
     ELSE ppc' = "probe" /\ UNCHANGED <<missing, pstatus>>
  /\ UNCHANGED <<world, args, sha>>

\* gh repo view; it can fail for a repository that exists.
Probe ==
  /\ ppc = "probe"
  /\ \/ target \in exists /\ ppc' = "configure" /\ UNCHANGED <<missing, pstatus>>
     \/ args.create /\ ppc' = "create" /\ UNCHANGED <<missing, pstatus>>
     \/ ~args.create /\ Blocked
  /\ UNCHANGED <<world, args, git, target, sha>>

\* gh repo create fails for a repository that exists.
Create ==
  /\ ppc = "create"
  /\ \/ /\ target \notin exists
        /\ exists' = exists \cup {target}
        /\ shown' = shown \cup Visible(exists', hosted)
        /\ ppc' = "reprobe"
        /\ UNCHANGED <<missing, pstatus>>
     \/ Blocked /\ UNCHANGED <<exists, shown>>
  /\ UNCHANGED <<heads, branch, dirty, origin, hosted, moves, args, git, target, sha>>

\* Mutant: any GitHub origin is good enough.
ConfigureOnlyMissing ==
  /\ ppc = "configure"
  /\ origin' = IF git.origin.repo = "none" THEN ExpectedOrigin(target) ELSE origin
  /\ args.push /\ ppc' = "compare"
  /\ UNCHANGED <<heads, branch, dirty, exists, hosted, moves, shown, report>>

Reprobe ==
  /\ ppc = "reprobe"
  /\ \/ target \in exists /\ ppc' = "configure" /\ UNCHANGED <<missing, pstatus>>
     \/ Blocked
  /\ UNCHANGED <<world, args, git, target, sha>>

\* The origin must have the ssh form of the target; git remote add or set-url can fail.
Configure ==
  /\ ppc = "configure"
  /\ \/ /\ git.origin = ExpectedOrigin(target)
        /\ ppc' = "compare" /\ UNCHANGED <<origin, missing, pstatus>>
     \/ /\ git.origin # ExpectedOrigin(target) /\ args.push
        /\ origin' = ExpectedOrigin(target)
        /\ ppc' = "compare" /\ UNCHANGED <<missing, pstatus>>
     \/ git.origin # ExpectedOrigin(target) /\ Blocked /\ UNCHANGED origin
  /\ UNCHANGED <<heads, branch, dirty, exists, hosted, moves, shown, args, git, target, sha>>

\* remote_branch: the ref of the audited branch, or nothing after an error.
Compare ==
  /\ ppc = "compare"
  /\ sha' \in {hosted[target][git.branch], "absent"}
  /\ IF sha' = git.head THEN Report("pass") /\ UNCHANGED missing
     ELSE IF args.push THEN ppc' = "push" /\ UNCHANGED <<missing, pstatus>>
     ELSE Blocked
  /\ UNCHANGED <<world, args, git, target>>

\* git push -u origin branch: the branch as it is now, to the origin as it is now; a
\* push that is no fast-forward and one that is refused change nothing.
Push ==
  /\ ppc = "push"
  /\ \/ /\ origin.repo \in exists
        /\ hosted' = [hosted EXCEPT ![origin.repo][git.branch] = heads[git.branch]]
        /\ shown' = shown \cup Visible(exists, hosted')
        /\ ppc' = "verify"
        /\ UNCHANGED <<missing, pstatus>>
     \/ Blocked /\ UNCHANGED <<hosted, shown>>
  /\ UNCHANGED <<heads, branch, dirty, origin, exists, moves, args, git, target, sha>>

\* Mutant: the pushed ref only has to be there.
VerifyReadable ==
  /\ ppc = "verify"
  /\ sha' \in {hosted[target][git.branch], "absent"}
  /\ IF sha' # "absent" THEN Report("pass") /\ UNCHANGED missing ELSE Blocked
  /\ UNCHANGED <<world, args, git, target>>

\* The ref is read again and compared with the audited head.
Verify ==
  /\ ppc = "verify"
  /\ sha' \in {hosted[target][git.branch], "absent"}
  /\ IF sha' = git.head THEN Report("pass") /\ UNCHANGED missing ELSE Blocked
  /\ UNCHANGED <<world, args, git, target>>

PublishStep ==
  \/ ReadRoot \/ ReadBranch \/ ReadHead \/ ReadStatus \/ ReadOrigin \/ Probe \/ Create
  \/ Reprobe \/ Configure \/ Compare \/ Push \/ Verify
-----------------------------------------------------------------------------
\* The developer edits, commits or checks something out; a coworker pushes.
Move == moves < MaxMoves /\ moves' = moves + 1 /\ UNCHANGED <<origin, exists, ppc, report>>

Edit == Move /\ dirty' = TRUE /\ UNCHANGED <<heads, branch, hosted, shown>>

CommitAll(c) ==
  /\ Move
  /\ heads' = [heads EXCEPT ![branch] = c] /\ dirty' = FALSE
  /\ UNCHANGED <<branch, hosted, shown>>

Checkout(b) == Move /\ branch' = b /\ UNCHANGED <<heads, dirty, hosted, shown>>

CoworkerPush(r, b, c) ==
  /\ Move /\ r \in exists
  /\ hosted' = [hosted EXCEPT ![r][b] = c]
  /\ shown' = shown \cup Visible(exists, hosted')
  /\ UNCHANGED <<heads, branch, dirty>>

DeveloperStep ==
  \/ Edit
  \/ \E c \in Commits : CommitAll(c)
  \/ \E b \in Branches \cup {"none"} : Checkout(b)
  \/ \E r \in Repos, b \in Branches, c \in Commits : CoworkerPush(r, b, c)

Next == PublishStep \/ DeveloperStep

Spec == Init /\ [][Next]_vars
-----------------------------------------------------------------------------
\* Type invariant of the script and the repositories.
TypeOK ==
  /\ heads \in [Branches \cup {"none"} -> Commits] /\ branch \in Branches \cup {"none"}
  /\ dirty \in BOOLEAN /\ origin \in Origins /\ exists \subseteq Repos
  /\ hosted \in [Repos -> [Branches -> Commits \cup {"absent"}]]
  /\ moves \in 0..MaxMoves
  /\ shown \subseteq Repos \X Branches \X (Commits \cup {"absent"})
  /\ ppc \in {"root", "branch", "head", "status", "origin", "probe", "create", "reprobe",
              "configure", "compare", "push", "verify", "done"}
  /\ args \in [repo : Repos \cup {"none"}, create : BOOLEAN, push : BOOLEAN]
  /\ git \in [branch : Branches \cup {"none"}, head : Commits \cup {"none"}, origin : Origins]
  /\ target \in Repos \cup {"none"} /\ missing \in BOOLEAN
  /\ sha \in Commits \cup {"absent"} /\ pstatus \in {"none", "pass", "blocked"}

\* A pass means that the target repository exists, that the origin names it in the form
\* git pushes to, and that the audited branch was hosted at the audited head while the
\* script ran, although branch and head are read by different calls and the push sends
\* whatever the branch has become.
PassIsPublished ==
  pstatus = "pass" =>
    /\ target \in exists /\ origin = ExpectedOrigin(target)
    /\ <<target, git.branch, git.head>> \in shown

\* What the script changes outside itself needs its flag: a repository is created only
\* under --confirm-create, the origin set and a branch pushed only under --confirm-push.
WritesConfirmed ==
  [][UNCHANGED moves =>
       /\ exists' # exists => args.create
       /\ origin' # origin \/ hosted' # hosted => args.push]_vars

\* A push reaches the audited branch of the target and nothing else: an origin that named
\* another repository has been replaced before, and a run that could not replace it stops.
PushReachesTarget ==
  [][UNCHANGED moves =>
       \A r \in Repos, b \in Branches :
         hosted'[r][b] # hosted[r][b] => r = target /\ b = git.branch]_vars

\* Nothing is created, configured or pushed after an audit that found something missing,
\* and the report says "pass" only without a blocker, "blocked" only with one.
BlockersRespected ==
  /\ missing => ppc \in {"branch", "head", "status", "origin", "done"}
  /\ pstatus # "none" => (pstatus = "pass" <=> ~missing)

\* What the report says of the publication is true, and a blocker stops the script.
PublicationTrue == TypeOK /\ PassIsPublished /\ BlockersRespected

\* The script writes what its flags allow, where the audit looked.
WritesBounded == WritesConfirmed /\ PushReachesTarget
=============================================================================
