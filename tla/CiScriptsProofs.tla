--------------------------- MODULE CiScriptsProofs ---------------------------
(***************************************************************************)
(* Proofs about the publisher, for every set of repositories, branches and *)
(* commits and any number of steps of the developers, and about the        *)
(* dispatcher and the evidence collector, for any number of runs, any      *)
(* profiles and any limits of the listings, while the hosted workflow does *)
(* what it likes between their calls.                                      *)
(***************************************************************************)
EXTENDS MCCiScripts, TLAPS, SequenceTheorems, FiniteSetTheorems, NaturalsInduction

(***************************************************************************)
(* The publisher.                                                          *)
(***************************************************************************)
\* The parts of the script behind the audit.
Hosting == {"probe", "create", "reprobe", "configure", "compare", "push", "verify"}
Pushing == {"compare", "push", "verify"}

\* History: what is hosted has been shown.
ShownIsHosted == Visible(exists, hosted) \subseteq shown

\* What the script knows by the part it is at.
Known ==
  /\ ppc # "done" => pstatus = "none"
  /\ ppc \notin {"root", "branch"} /\ ~missing => git.branch \in Branches
  /\ ppc \in Hosting => target \in Repos
  /\ ppc \in Hosting \ Pushing => git.origin = origin
  /\ ppc \in Pushing \cup {"configure"} => target \in exists
  /\ ppc \in Pushing => origin = ExpectedOrigin(target)
  /\ ppc = "create" => args.create
  /\ ppc \in {"push", "verify"} => args.push

IInv == TypeOK /\ ShownIsHosted /\ Known /\ BlockersRespected /\ PassIsPublished

\* The reserved names are no commits, and the branch of a checkout is one of its heads.
LEMMA Names ==
  /\ "absent" \notin Commits /\ "none" \notin Commits
  /\ "none" \notin Repos /\ "none" \notin Branches
  BY PublishAssumption

LEMMA OriginTypes ==
  /\ \A o \in Origins : o.repo \in Repos \cup {"none"}
  /\ \A r \in Repos : ExpectedOrigin(r) \in Origins /\ ExpectedOrigin(r).repo = r
  /\ NoGit \in [branch : Branches \cup {"none"}, head : Commits \cup {"none"}, origin : Origins]
  <1>1. NoOrigin \in Origins
    BY DEF Origins
  <1>2. \A o \in Origins : o.repo \in Repos \cup {"none"}
    BY DEF Origins, NoOrigin, Foreign
  <1>3. \A r \in Repos : ExpectedOrigin(r) \in Origins /\ ExpectedOrigin(r).repo = r
    BY DEF Origins, ExpectedOrigin
  <1>4. QED
    BY <1>1, <1>2, <1>3 DEF NoGit

LEMMA InitHolds == ASSUME Init PROVE IInv
  <1>1. Visible(exists, hosted) \subseteq Repos \X Branches \X (Commits \cup {"absent"})
    BY DEF Init, Visible
  <1>2. TypeOK
    <2>1. target \in Repos \cup {"none"} /\ 0 \in 0..MaxMoves /\ exists \subseteq Repos
      BY PublishAssumption DEF Init
    <2>2. shown \subseteq Repos \X Branches \X (Commits \cup {"absent"})
      BY <1>1 DEF Init
    <2>3. QED
      BY <2>1, <2>2, OriginTypes DEF Init, TypeOK
  <1>3. ShownIsHosted
    BY DEF Init, ShownIsHosted
  <1>4. Known
    BY DEF Init, Known, Hosting, Pushing
  <1>5. BlockersRespected /\ PassIsPublished
    BY DEF Init, BlockersRespected, PassIsPublished
  <1>6. QED
    BY <1>2, <1>3, <1>4, <1>5 DEF IInv

\* A report that something is missing.
LEMMA BlockedHolds ==
  ASSUME IInv, Blocked, ppc # "done", UNCHANGED <<world, args, sha>>,
         git' \in [branch : Branches \cup {"none"}, head : Commits \cup {"none"}, origin : Origins],
         target' \in Repos \cup {"none"}
  PROVE  IInv'
  <1>1. TypeOK'
    BY DEF IInv, TypeOK, Blocked, Report, world
  <1>2. ShownIsHosted'
    BY DEF IInv, ShownIsHosted, Visible, world
  <1>3. Known' /\ BlockersRespected' /\ PassIsPublished'
    BY DEF Blocked, Report, Known, Hosting, Pushing, BlockersRespected, PassIsPublished
  <1>4. QED
    BY <1>1, <1>2, <1>3 DEF IInv

LEMMA AuditHolds == ASSUME IInv, ReadRoot \/ ReadBranch \/ ReadHead \/ ReadStatus PROVE IInv'
  <1> USE DEF IInv
  <1>1. CASE ReadRoot
    <2>1. CASE Blocked
      BY <1>1, <2>1, BlockedHolds DEF ReadRoot, TypeOK
    <2>2. CASE ~Blocked
      <3>1. /\ ppc' = "branch" /\ missing' \in BOOLEAN /\ UNCHANGED pstatus /\ ppc = "root"
            /\ UNCHANGED <<world, args, git, target, sha>>
        BY <1>1, <2>2 DEF ReadRoot
      <3>2. TypeOK'
        BY <3>1 DEF TypeOK, world
      <3>3. ShownIsHosted' /\ Known' /\ BlockersRespected' /\ PassIsPublished'
        BY <3>1 DEF ShownIsHosted, Visible, Known, Hosting, Pushing, BlockersRespected,
                    PassIsPublished, world
      <3>4. QED
        BY <3>2, <3>3
    <2>3. QED
      BY <2>1, <2>2
  <1>2. CASE ReadBranch
    <2>1. /\ ppc = "branch" /\ ppc' = "head" /\ pstatus' = pstatus
          /\ missing' \in BOOLEAN
          /\ git' \in [branch : Branches \cup {"none"}, head : Commits \cup {"none"},
                       origin : Origins]
          /\ ~missing' => git'.branch \in Branches
          /\ UNCHANGED <<world, args, target, sha>>
      BY <1>2 DEF ReadBranch, TypeOK
    <2>2. TypeOK'
      BY <2>1 DEF TypeOK, world
    <2>3. ShownIsHosted' /\ Known' /\ BlockersRespected' /\ PassIsPublished'
      BY <2>1 DEF ShownIsHosted, Visible, Known, Hosting, Pushing, BlockersRespected,
                  PassIsPublished, world
    <2>4. QED
      BY <2>2, <2>3
  <1>3. CASE ReadHead
    <2>1. /\ ppc = "head" /\ ppc' = "status" /\ pstatus' = pstatus
          /\ missing' \in BOOLEAN /\ (~missing' => ~missing)
          /\ git' \in [branch : Branches \cup {"none"}, head : Commits \cup {"none"},
                       origin : Origins]
          /\ git'.branch = git.branch
          /\ UNCHANGED <<world, args, target, sha>>
      BY <1>3 DEF ReadHead, TypeOK
    <2>2. TypeOK'
      BY <2>1 DEF TypeOK, world
    <2>3. ShownIsHosted' /\ Known' /\ BlockersRespected' /\ PassIsPublished'
      BY <2>1 DEF ShownIsHosted, Visible, Known, Hosting, Pushing, BlockersRespected,
                  PassIsPublished, world
    <2>4. QED
      BY <2>2, <2>3
  <1>4. CASE ReadStatus
    <2>1. /\ ppc = "status" /\ ppc' = "origin"
          /\ missing' \in BOOLEAN /\ (~missing' => ~missing)
          /\ UNCHANGED <<world, args, git, target, sha, pstatus>>
      BY <1>4 DEF ReadStatus, TypeOK
    <2>2. TypeOK'
      BY <2>1 DEF TypeOK, world
    <2>3. ShownIsHosted' /\ Known' /\ BlockersRespected' /\ PassIsPublished'
      BY <2>1 DEF ShownIsHosted, Visible, Known, Hosting, Pushing, BlockersRespected,
                  PassIsPublished, world
    <2>4. QED
      BY <2>2, <2>3
  <1>5. QED
    BY <1>1, <1>2, <1>3, <1>4

\* The parts of the script between the audit and the first look at the branch.
LEMMA ProbeHolds == ASSUME IInv, ReadOrigin \/ Probe \/ Reprobe PROVE IInv'
  <1> USE DEF IInv
  <1>1. CASE ReadOrigin
    <2>1. /\ ppc = "origin" /\ git' = [git EXCEPT !.origin = origin]
          /\ target' = (IF args.repo = "none" THEN origin.repo ELSE args.repo)
          /\ UNCHANGED <<world, args, sha>>
      BY <1>1 DEF ReadOrigin
    <2>2. target' \in Repos \cup {"none"}
      BY <2>1, OriginTypes DEF TypeOK
    <2>3. /\ git' \in [branch : Branches \cup {"none"}, head : Commits \cup {"none"},
                       origin : Origins]
          /\ git'.branch = git.branch /\ git'.origin = origin
      BY <2>1 DEF TypeOK
    <2>4. CASE missing \/ target' = "none"
      <3>1. Blocked
        BY <1>1, <2>4 DEF ReadOrigin
      <3>2. QED
        BY <2>1, <2>2, <2>3, <3>1, BlockedHolds
    <2>5. CASE ~(missing \/ target' = "none")
      <3>1. ppc' = "probe" /\ UNCHANGED <<missing, pstatus>>
        BY <1>1, <2>5 DEF ReadOrigin
      <3>2. TypeOK'
        BY <2>1, <2>2, <2>3, <3>1 DEF TypeOK, world
      <3>3. Known'
        BY <2>1, <2>2, <2>3, <2>5, <3>1 DEF Known, Hosting, Pushing, world
      <3>4. ShownIsHosted' /\ BlockersRespected' /\ PassIsPublished'
        BY <2>1, <2>5, <3>1 DEF ShownIsHosted, Visible, Known, BlockersRespected,
                                PassIsPublished, world
      <3>5. QED
        BY <3>2, <3>3, <3>4
    <2>6. QED
      BY <2>4, <2>5
  <1>2. CASE Probe \/ Reprobe
    <2>1. /\ ppc \in {"probe", "reprobe"}
          /\ UNCHANGED <<world, args, git, target, sha>>
          /\ \/ Blocked
             \/ /\ UNCHANGED <<missing, pstatus>>
                /\ \/ target \in exists /\ ppc' = "configure"
                   \/ args.create /\ ppc' = "create"
      BY <1>2 DEF Probe, Reprobe
    <2>2. CASE Blocked
      BY <2>1, <2>2, BlockedHolds DEF TypeOK
    <2>3. CASE ~Blocked
      <3>1. TypeOK'
        BY <2>1, <2>3 DEF TypeOK, world
      <3>2. Known'
        BY <2>1, <2>3 DEF Known, Hosting, Pushing, BlockersRespected, world
      <3>3. ShownIsHosted' /\ BlockersRespected' /\ PassIsPublished'
        BY <2>1, <2>3 DEF ShownIsHosted, Visible, Known, BlockersRespected, PassIsPublished,
                          world
      <3>4. QED
        BY <3>1, <3>2, <3>3
    <2>4. QED
      BY <2>2, <2>3
  <1>3. QED
    BY <1>1, <1>2

LEMMA CreateHolds == ASSUME IInv, Create PROVE IInv'
  <1> USE DEF IInv
  <1>1. CASE Blocked /\ UNCHANGED <<exists, shown>>
    BY <1>1, BlockedHolds DEF Create, TypeOK, world
  <1>2. CASE /\ target \notin exists
             /\ exists' = exists \cup {target}
             /\ shown' = shown \cup Visible(exists', hosted)
             /\ ppc' = "reprobe"
             /\ UNCHANGED <<missing, pstatus>>
    <2>1. /\ ppc = "create" /\ target \in Repos
          /\ UNCHANGED <<heads, branch, dirty, origin, hosted, moves, args, git, target, sha>>
      BY DEF Create, Known, Hosting
    <2>2. exists' \subseteq Repos
      BY <1>2, <2>1 DEF TypeOK
    <2>3. Visible(exists', hosted) \subseteq Repos \X Branches \X (Commits \cup {"absent"})
      BY <2>2 DEF Visible, TypeOK
    <2>4. TypeOK'
      BY <1>2, <2>1, <2>2, <2>3 DEF TypeOK
    <2>5. ShownIsHosted'
      BY <1>2, <2>1 DEF ShownIsHosted, Visible
    <2>6. Known' /\ BlockersRespected' /\ PassIsPublished'
      BY <1>2, <2>1 DEF Known, Hosting, Pushing, BlockersRespected, PassIsPublished
    <2>7. QED
      BY <2>4, <2>5, <2>6
  <1>3. QED
    BY <1>1, <1>2 DEF Create

LEMMA ConfigureHolds == ASSUME IInv, Configure PROVE IInv'
  <1> USE DEF IInv
  <1>1. CASE Blocked /\ UNCHANGED origin
    BY <1>1, BlockedHolds DEF Configure, TypeOK, world
  <1>2. CASE ~(Blocked /\ UNCHANGED origin)
    <2>1. /\ ppc = "configure" /\ ppc' = "compare" /\ target \in Repos
          /\ origin' = ExpectedOrigin(target)
          /\ UNCHANGED <<heads, branch, dirty, exists, hosted, moves, shown, report>>
      BY <1>2 DEF Configure, Known, Hosting, Pushing, report
    <2>2. TypeOK'
      BY <2>1, OriginTypes DEF TypeOK, report
    <2>3. ShownIsHosted'
      BY <2>1 DEF ShownIsHosted, Visible
    <2>4. Known' /\ BlockersRespected' /\ PassIsPublished'
      BY <2>1 DEF Known, Hosting, Pushing, BlockersRespected, PassIsPublished, report
    <2>5. QED
      BY <2>2, <2>3, <2>4
  <1>3. QED
    BY <1>1, <1>2

\* A look at the hosted branch that finds the audited head has found it hosted.
LEMMA FoundIsShown ==
  ASSUME IInv, ppc \in Pushing, ~missing,
         sha' \in {hosted[target][git.branch], "absent"}, sha' = git.head
  PROVE  <<target, git.branch, git.head>> \in shown
  <1>1. target \in Repos /\ target \in exists /\ git.branch \in Branches
    BY DEF IInv, Known, Hosting, Pushing
  <1>2. git.head # "absent"
    BY Names DEF IInv, TypeOK, PublishAssumption
  <1>3. git.head = hosted[target][git.branch]
    BY <1>2
  <1>4. <<target, git.branch, git.head>> \in Visible(exists, hosted)
    BY <1>1, <1>3 DEF Visible
  <1>5. QED
    BY <1>4 DEF IInv, ShownIsHosted

\* The two looks: a pass, another part of the script, or a report of what is missing.
LEMMA LookHolds ==
  ASSUME IInv, ppc \in Pushing, sha' \in {hosted[target][git.branch], "absent"},
         UNCHANGED <<world, args, git, target>>,
         \/ sha' = git.head /\ Report("pass") /\ UNCHANGED missing
         \/ args.push /\ ppc' = "push" /\ UNCHANGED <<missing, pstatus>>
         \/ Blocked
  PROVE  IInv'
  <1>1. ~missing /\ pstatus = "none" /\ target \in Repos /\ target \in exists
        /\ git.branch \in Branches /\ origin = ExpectedOrigin(target)
    BY DEF IInv, BlockersRespected, Known, Pushing, Hosting
  <1>2. sha' \in Commits \cup {"absent"}
    BY <1>1 DEF IInv, TypeOK
  <1>3. TypeOK'
    BY <1>2 DEF IInv, TypeOK, Report, Blocked, world
  <1>4. ShownIsHosted'
    BY DEF IInv, ShownIsHosted, Visible, world
  <1>5. CASE sha' = git.head /\ Report("pass") /\ UNCHANGED missing
    <2>1. <<target, git.branch, git.head>> \in shown
      BY <1>1, <1>5, FoundIsShown
    <2>2. Known' /\ BlockersRespected' /\ PassIsPublished'
      BY <1>1, <1>5, <2>1 DEF Known, Hosting, Pushing, BlockersRespected, PassIsPublished, Report,
                              world
    <2>3. QED
      BY <1>3, <1>4, <2>2 DEF IInv
  <1>6. CASE args.push /\ ppc' = "push" /\ UNCHANGED <<missing, pstatus>>
    <2>1. Known' /\ BlockersRespected' /\ PassIsPublished'
      BY <1>1, <1>6 DEF Known, Hosting, Pushing, BlockersRespected, PassIsPublished, world
    <2>2. QED
      BY <1>3, <1>4, <2>1 DEF IInv
  <1>7. CASE Blocked
    <2>1. Known' /\ BlockersRespected' /\ PassIsPublished'
      BY <1>7 DEF Blocked, Report, Known, Hosting, Pushing, BlockersRespected, PassIsPublished
    <2>2. QED
      BY <1>3, <1>4, <2>1 DEF IInv
  <1>8. QED
    BY <1>5, <1>6, <1>7

\* What a push does: the branch of the target, and nothing else.
LEMMA PushReaches ==
  ASSUME IInv, ppc = "push", hosted' = [hosted EXCEPT ![origin.repo][git.branch] = heads[git.branch]]
  PROVE  /\ hosted' \in [Repos -> [Branches -> Commits \cup {"absent"}]]
         /\ \A r \in Repos, b \in Branches :
              hosted'[r][b] # hosted[r][b] => r = target /\ b = git.branch
  <1>1. target \in Repos /\ origin.repo = target /\ git.branch \in Branches
    BY OriginTypes DEF IInv, BlockersRespected, Known, Pushing, Hosting
  <1>2. heads[git.branch] \in Commits
    BY <1>1 DEF IInv, TypeOK
  <1>3. QED
    BY <1>1, <1>2 DEF IInv, TypeOK

LEMMA PushHolds == ASSUME IInv, Push PROVE IInv'
  <1>1. CASE Blocked /\ UNCHANGED <<hosted, shown>>
    BY <1>1, BlockedHolds DEF Push, IInv, TypeOK, world
  <1>2. CASE ~(Blocked /\ UNCHANGED <<hosted, shown>>)
    <2>1. /\ hosted' = [hosted EXCEPT ![origin.repo][git.branch] = heads[git.branch]]
          /\ shown' = shown \cup Visible(exists, hosted')
          /\ ppc = "push" /\ ppc' = "verify"
          /\ UNCHANGED <<missing, pstatus>>
          /\ UNCHANGED <<heads, branch, dirty, origin, exists, moves, args, git, target, sha>>
      BY <1>2 DEF Push
    <2>2. hosted' \in [Repos -> [Branches -> Commits \cup {"absent"}]]
      BY <2>1, PushReaches
    <2>3. Visible(exists, hosted') \subseteq Repos \X Branches \X (Commits \cup {"absent"})
      BY <2>2 DEF IInv, TypeOK, Visible
    <2>4. TypeOK'
      <3>1. shown' \subseteq Repos \X Branches \X (Commits \cup {"absent"})
        BY <2>1, <2>3 DEF IInv, TypeOK
      <3>2. ppc' \in {"verify"}
        BY <2>1
      <3>3. /\ heads' = heads /\ branch' = branch /\ dirty' = dirty /\ origin' = origin
            /\ exists' = exists /\ moves' = moves /\ args' = args /\ git' = git
            /\ target' = target /\ missing' = missing /\ sha' = sha /\ pstatus' = pstatus
        BY <2>1
      <3>4. QED
        BY <2>2, <3>1, <3>2, <3>3 DEF IInv, TypeOK
    <2>5. ShownIsHosted'
      BY <2>1 DEF ShownIsHosted, Visible
    <2>6. Known' /\ BlockersRespected' /\ PassIsPublished'
      BY <2>1 DEF IInv, Known, Hosting, Pushing, BlockersRespected, PassIsPublished
    <2>7. QED
      BY <2>4, <2>5, <2>6 DEF IInv
  <1>3. QED
    BY <1>1, <1>2

LEMMA DeveloperHolds == ASSUME IInv, DeveloperStep PROVE IInv'
  <1>1. /\ moves' \in 0..MaxMoves /\ UNCHANGED <<origin, exists, ppc, report>>
        /\ shown \subseteq shown'
    BY PublishAssumption
       DEF DeveloperStep, Edit, CommitAll, Checkout, CoworkerPush, Move, IInv, TypeOK
  <1>2. /\ heads' \in [Branches \cup {"none"} -> Commits] /\ branch' \in Branches \cup {"none"}
        /\ dirty' \in BOOLEAN
    <2>1. Edit \/ (\E b \in Branches \cup {"none"} : Checkout(b))
             \/ (\E r \in Repos, b \in Branches, c \in Commits : CoworkerPush(r, b, c)) =>
            heads' = heads /\ branch' \in Branches \cup {"none"} /\ dirty' \in BOOLEAN
      BY DEF Edit, Checkout, CoworkerPush, IInv, TypeOK
    <2>2. ASSUME NEW c \in Commits, CommitAll(c)
          PROVE  heads' \in [Branches \cup {"none"} -> Commits] /\ branch' = branch /\ dirty' = FALSE
      BY <2>2 DEF CommitAll, IInv, TypeOK
    <2>3. QED
      BY <2>1, <2>2 DEF DeveloperStep, IInv, TypeOK
  <1>3. /\ hosted' \in [Repos -> [Branches -> Commits \cup {"absent"}]]
        /\ \/ UNCHANGED <<hosted, shown>>
           \/ shown' = shown \cup Visible(exists, hosted')
    BY DEF DeveloperStep, Edit, CommitAll, Checkout, CoworkerPush, IInv, TypeOK
  <1>4. Visible(exists, hosted') \subseteq Repos \X Branches \X (Commits \cup {"absent"})
    BY <1>3 DEF IInv, TypeOK, Visible
  <1>5. TypeOK'
    BY <1>1, <1>2, <1>3, <1>4 DEF IInv, TypeOK, report
  <1>6. ShownIsHosted'
    BY <1>1, <1>3 DEF IInv, ShownIsHosted, Visible
  <1>7. Known' /\ BlockersRespected' /\ PassIsPublished'
    BY <1>1 DEF IInv, Known, Hosting, Pushing, BlockersRespected, PassIsPublished, report
  <1>8. QED
    BY <1>5, <1>6, <1>7 DEF IInv

LEMMA StepHolds == ASSUME IInv, [Next]_vars PROVE IInv'
  <1>1. CASE Compare \/ Verify
    BY <1>1, LookHolds DEF Compare, Verify, Pushing
  <1>2. CASE UNCHANGED vars
    BY <1>2 DEF vars, world, report, IInv, TypeOK, ShownIsHosted, Visible, Known, Hosting, Pushing,
                BlockersRespected, PassIsPublished
  <1>3. QED
    BY <1>1, <1>2, AuditHolds, ProbeHolds, CreateHolds, ConfigureHolds, PushHolds, DeveloperHolds
       DEF Next, PublishStep

LEMMA InvariantHolds == Spec => []IInv
  <1>1. Init => IInv
    BY InitHolds
  <1>2. IInv /\ [Next]_vars => IInv'
    BY StepHolds
  <1>3. QED
    BY <1>1, <1>2, PTL DEF Spec

\* The script and the repositories stay within their types.
THEOREM TypeCorrect == Spec => []TypeOK
  <1>1. IInv => TypeOK
    BY DEF IInv
  <1>2. QED
    BY <1>1, InvariantHolds, PTL

\* A pass is never reported of a head that was not hosted while the script ran, whatever
\* is committed, checked out or pushed between its git calls.
THEOREM PassesArePublished == Spec => []PassIsPublished
  <1>1. IInv => PassIsPublished
    BY DEF IInv
  <1>2. QED
    BY <1>1, InvariantHolds, PTL

\* After a blocker nothing is created, configured or pushed.
THEOREM BlockersStop == Spec => []BlockersRespected
  <1>1. IInv => BlockersRespected
    BY DEF IInv
  <1>2. QED
    BY <1>1, InvariantHolds, PTL

\* The developers count their steps; a step that counts nothing is one of the script.
LEMMA ScriptSteps == ASSUME IInv, Next, UNCHANGED moves PROVE PublishStep
  <1>1. moves \in Nat
    BY PublishAssumption DEF IInv, TypeOK
  <1>2. ~DeveloperStep
    BY <1>1 DEF DeveloperStep, Edit, CommitAll, Checkout, CoworkerPush, Move
  <1>3. QED
    BY <1>2 DEF Next

\* Nothing outside the script is changed without the flag that confirms it.
THEOREM WritesNeedFlags == Spec => WritesConfirmed
  <1> DEFINE Confirmed == UNCHANGED moves =>
               /\ exists' # exists => args.create
               /\ origin' # origin \/ hosted' # hosted => args.push
  <1>1. ASSUME IInv, Next, UNCHANGED moves
        PROVE  /\ exists' # exists => args.create
               /\ origin' # origin \/ hosted' # hosted => args.push
    <2>1. ReadRoot \/ ReadBranch \/ ReadHead \/ ReadStatus \/ ReadOrigin \/ Probe \/ Reprobe
             \/ Compare \/ Verify => UNCHANGED world
      BY DEF ReadRoot, ReadBranch, ReadHead, ReadStatus, ReadOrigin, Probe, Reprobe, Compare,
             Verify
    <2>2. Create => args.create /\ UNCHANGED <<origin, hosted>>
      BY <1>1 DEF Create, IInv, Known
    <2>3. Configure => UNCHANGED <<exists, hosted>> /\ (origin' # origin => args.push)
      BY <1>1 DEF Configure, IInv, Known, Hosting, Pushing
    <2>4. Push => args.push /\ UNCHANGED <<exists, origin>>
      BY <1>1 DEF Push, IInv, Known
    <2>5. PublishStep
      BY <1>1, ScriptSteps
    <2>6. QED
      BY <2>1, <2>2, <2>3, <2>4, <2>5 DEF PublishStep, world
  <1>2. IInv /\ [Next]_vars => [Confirmed]_vars
    BY <1>1 DEF Confirmed
  <1>3. QED
    BY <1>2, InvariantHolds, PTL DEF WritesConfirmed, Confirmed, Spec

\* The script's push changes the audited branch of the target and no other.
THEOREM PushesReachTarget == Spec => PushReachesTarget
  <1> DEFINE Reaches == UNCHANGED moves =>
               \A r \in Repos, b \in Branches :
                 hosted'[r][b] # hosted[r][b] => r = target /\ b = git.branch
  <1>1. ASSUME IInv, Next, UNCHANGED moves
        PROVE  \A r \in Repos, b \in Branches :
                 hosted'[r][b] # hosted[r][b] => r = target /\ b = git.branch
    <2>1. ~Push /\ PublishStep => hosted' = hosted
      BY DEF PublishStep, ReadRoot, ReadBranch, ReadHead, ReadStatus, ReadOrigin, Probe, Reprobe,
             Create, Configure, Compare, Verify, world
    <2>2. Push => \/ hosted' = hosted
                  \/ /\ ppc = "push"
                     /\ hosted' = [hosted EXCEPT ![origin.repo][git.branch] = heads[git.branch]]
      BY DEF Push
    <2>3. QED
      BY <1>1, <2>1, <2>2, ScriptSteps, PushReaches
  <1>2. IInv /\ [Next]_vars => [Reaches]_vars
    BY <1>1 DEF Reaches
  <1>3. QED
    BY <1>2, InvariantHolds, PTL DEF PushReachesTarget, Reaches, Spec

\* What the report says of the publication is true, and a blocker stops the script.
THEOREM TruePublication == Spec => []PublicationTrue
  <1>1. TypeOK /\ PassIsPublished /\ BlockersRespected => PublicationTrue
    BY DEF PublicationTrue
  <1>2. QED
    BY <1>1, TypeCorrect, PassesArePublished, BlockersStop, PTL

\* The script writes what its flags allow, where the audit looked.
THEOREM BoundedWrites == Spec => WritesBounded
  BY WritesNeedFlags, PushesReachTarget DEF WritesBounded

(***************************************************************************)
(* The workflow.  Its definitions are those of both instances.             *)
(***************************************************************************)
\* A run has a conclusion when it is completed, and a successful one comes from its job.
Sound(r) ==
  /\ r.conclusion # "none" <=> r.status = "completed"
  /\ r.conclusion = "success" => r.job = "success"

RunsSound == runs \in Seq(Evidence!Runs) /\ \A i \in DOMAIN runs : Sound(runs[i])

\* What becomes of a run r: only a run that is not completed changes, but for its listing.
Becomes(r, s) ==
  /\ s.sha = r.sha /\ s.profile = r.profile /\ s.event = r.event
  /\ r.listed => s.listed
  /\ r.status = "completed" =>
       /\ s.status = r.status /\ s.conclusion = r.conclusion
       /\ s.job = r.job /\ s.uploaded = r.uploaded

Grows ==
  /\ DOMAIN runs \subseteq DOMAIN runs'
  /\ \A i \in DOMAIN runs : Becomes(runs[i], runs'[i])

LEMMA SameRuns == Dispatch!Runs = Evidence!Runs
  BY DEF Dispatch!Runs, Evidence!Runs, Dispatch!Conclusions, Evidence!Conclusions

\* One run changes.
LEMMA RunChanges ==
  ASSUME RunsSound, NEW i \in DOMAIN runs, NEW r \in Evidence!Runs, Sound(r),
         Becomes(runs[i], r), runs' = [runs EXCEPT ![i] = r]
  PROVE  RunsSound' /\ Grows /\ Len(runs') = Len(runs)
  <1>1. DOMAIN runs = 1..Len(runs) /\ runs \in Seq(Evidence!Runs)
    BY DEF RunsSound
  <1>2. runs' \in Seq(Evidence!Runs) /\ Len(runs') = Len(runs)
    BY <1>1, ExceptSeq
  <1>3. \A j \in DOMAIN runs : Becomes(runs[j], runs'[j]) /\ Sound(runs'[j])
    BY <1>1 DEF RunsSound, Becomes
  <1>4. DOMAIN runs' = DOMAIN runs
    OBVIOUS
  <1>5. QED
    BY <1>2, <1>3, <1>4 DEF RunsSound, Grows

\* A run is superseded by a new one.
LEMMA SupersededBecomes ==
  ASSUME NEW r \in Evidence!Runs, Sound(r), NEW event, NEW p
  PROVE  LET s == Evidence!Superseded(r, event, p)
         IN  s \in Evidence!Runs /\ Sound(s) /\ Becomes(r, s)
  BY DEF Evidence!Superseded, Evidence!Runs, Evidence!Conclusions, Sound, Becomes

\* A run is created.
LEMMA RunCreated ==
  ASSUME RunsSound, NEW event \in {"push", "workflow_dispatch"}, NEW p \in Profiles,
         NEW c \in Commits,
         runs' = Append([i \in DOMAIN runs |-> Evidence!Superseded(runs[i], event, p)],
                        Evidence!NewRun(event, p, c))
  PROVE  RunsSound' /\ Grows /\ Len(runs') = Len(runs) + 1
  <1> DEFINE old == [i \in DOMAIN runs |-> Evidence!Superseded(runs[i], event, p)]
             new == Evidence!NewRun(event, p, c)
  <1>1. DOMAIN runs = 1..Len(runs) /\ Len(runs) \in Nat
        /\ \A i \in DOMAIN runs : runs[i] \in Evidence!Runs /\ Sound(runs[i])
    BY DEF RunsSound
  <1>2. \A i \in DOMAIN runs :
          old[i] \in Evidence!Runs /\ Sound(old[i]) /\ Becomes(runs[i], old[i])
    BY <1>1, SupersededBecomes
  <1>3. new \in Evidence!Runs /\ Sound(new)
    BY DEF Evidence!NewRun, Evidence!Runs, Evidence!Conclusions, Sound
  <1> HIDE DEF new
  <1>4. old \in Seq(Evidence!Runs) /\ Len(old) = Len(runs)
    <2>1. old \in [1..Len(runs) -> Evidence!Runs]
      BY <1>1, <1>2
    <2>2. QED
      BY <1>1, <2>1, SeqDef
  <1> HIDE DEF old
  <1>5. /\ runs' \in Seq(Evidence!Runs) /\ Len(runs') = Len(runs) + 1
        /\ \A i \in 1..Len(runs) : runs'[i] = old[i]
        /\ runs'[Len(runs) + 1] = new
    BY <1>3, <1>4, AppendProperties DEF old, new
  <1>6. DOMAIN runs' = 1..(Len(runs) + 1)
    BY <1>1, <1>5
  <1>7. \A i \in DOMAIN runs' : Sound(runs'[i])
    BY <1>1, <1>2, <1>3, <1>5, <1>6
  <1>8. QED
    BY <1>1, <1>2, <1>5, <1>6, <1>7 DEF RunsSound, Grows

\* What happens to one run: it is listed, starts, ends its job, or is completed.
LEMMA RunMoves ==
  ASSUME RunsSound, NEW i \in DOMAIN runs,
         \/ runs' = [runs EXCEPT ![i].listed = TRUE]
         \/ runs[i].status = "queued" /\ runs' = [runs EXCEPT ![i].status = "in_progress"]
         \/ /\ runs[i].status = "in_progress"
            /\ \E c \in {"success", "failure"}, u \in BOOLEAN :
                 runs' = [runs EXCEPT ![i].job = c, ![i].uploaded = u]
         \/ /\ runs[i].status = "in_progress" /\ runs[i].job # "none"
            /\ runs' = [runs EXCEPT ![i].status = "completed", ![i].conclusion = runs[i].job]
  PROVE  RunsSound' /\ Grows /\ Len(runs') = Len(runs)
  <1>1. runs[i] \in Evidence!Runs /\ Sound(runs[i])
    BY DEF RunsSound
  <1>2. \E r : /\ r \in Evidence!Runs /\ Sound(r) /\ Becomes(runs[i], r)
               /\ runs' = [runs EXCEPT ![i] = r]
    <2>1. CASE runs' = [runs EXCEPT ![i].listed = TRUE]
      <3> WITNESS [runs[i] EXCEPT !.listed = TRUE]
      <3> QED BY <1>1, <2>1 DEF Evidence!Runs, Sound, Becomes
    <2>2. CASE runs[i].status = "queued" /\ runs' = [runs EXCEPT ![i].status = "in_progress"]
      <3> WITNESS [runs[i] EXCEPT !.status = "in_progress"]
      <3> QED BY <1>1, <2>2 DEF Evidence!Runs, Sound, Becomes
    <2>3. CASE /\ runs[i].status = "in_progress"
               /\ \E c \in {"success", "failure"}, u \in BOOLEAN :
                    runs' = [runs EXCEPT ![i].job = c, ![i].uploaded = u]
      <3>1. PICK c \in {"success", "failure"}, u \in BOOLEAN :
              runs' = [runs EXCEPT ![i].job = c, ![i].uploaded = u]
        BY <2>3
      <3> WITNESS [runs[i] EXCEPT !.job = c, !.uploaded = u]
      <3> QED BY <1>1, <2>3, <3>1
              DEF Evidence!Runs, Evidence!Conclusions, Sound, Becomes
    <2>4. CASE /\ runs[i].status = "in_progress" /\ runs[i].job # "none"
               /\ runs' = [runs EXCEPT ![i].status = "completed", ![i].conclusion = runs[i].job]
      <3> WITNESS [runs[i] EXCEPT !.status = "completed", !.conclusion = runs[i].job]
      <3> QED BY <1>1, <2>4 DEF Evidence!Runs, Sound, Becomes
    <2>5. QED
      BY <2>1, <2>2, <2>3, <2>4
  <1>3. QED
    BY <1>2, RunChanges

\* A success stays one.
LEMMA SuccessStays ==
  ASSUME Grows, NEW i \in DOMAIN runs, NEW p, NEW c, Evidence!Succeeded(runs[i], p, c)
  PROVE  Evidence!Succeeded(runs'[i], p, c)
  BY DEF Grows, Becomes, Evidence!Succeeded

(***************************************************************************)
(* The dispatcher.                                                         *)
(***************************************************************************)
\* The steps so far are those of the first profiles, and a step that passed names a
\* successful run of its profile on the expected head.
StepsTrue ==
  /\ Len(steps) <= Len(DispatchProfiles)
  /\ dpc # "done" => /\ dstatus = "none" /\ Len(steps) < Len(DispatchProfiles)
                     /\ \A j \in DOMAIN steps : steps[j].status # "fail"
  /\ dstatus = "pass" => /\ Len(steps) = Len(DispatchProfiles)
                         /\ \A j \in DOMAIN steps : steps[j].status # "fail"
  /\ wait => \A j \in DOMAIN steps : steps[j].status # "dispatched"
  /\ \A j \in DOMAIN steps :
       steps[j].status = "pass" =>
         steps[j].run # 0 /\ Dispatch!Succeeded(runs[steps[j].run], DispatchProfiles[j], expected)

\* The last view is one of the run that was taken, perhaps an old one; a successful view
\* cannot be old.
ViewTrue ==
  /\ dpc \in {"wait", "judge"} => wait /\ credited # 0
  /\ dpc \notin {"wait", "judge"} => credited = 0 /\ view = Dispatch!NoView
  /\ view # Dispatch!NoView =>
       /\ view.sha = runs[credited].sha
       /\ view.conclusion = "success" =>
            /\ runs[credited].status = "completed" /\ runs[credited].conclusion = "success"
            /\ view.job = Dispatch!JobConclusion(runs[credited], Dispatch!Profile)

\* What is rejected has another head, or ended without having started.
IgnoredForGood ==
  /\ dpc # "find" => ignored = {} /\ unread = {}
  /\ \A i \in ignored :
       runs[i].sha # expected \/ (runs[i].status = "completed" /\ runs[i].job = "none")

NewerListed(i) == {j \in {k \in DOMAIN runs : runs[k].listed} : j > i}

\* A run that was listed before the trigger and did not fit in the listing does not fit in
\* later ones, so no run that is looked at was listed before.
OldAreOut ==
  /\ \A i \in prior \ known : BeforeLimit <= Cardinality(NewerListed(i))
  /\ unread \cap prior = {}

DispatchInv ==
  Dispatch!TypeOK /\ RunsSound /\ StepsTrue /\ ViewTrue /\ IgnoredForGood /\ OldAreOut

LEMMA DispatchAssumed == Dispatch!DispatchConstants
  BY ScriptConstants

\* A step of the hosted workflow.
LEMMA DispatchHosted ==
  ASSUME RunsSound, Len(runs) <= DispatchRuns, tip \in Commits, Dispatch!WorkflowStep
  PROVE  RunsSound' /\ Grows /\ Len(runs') <= DispatchRuns /\ tip' \in Commits
  <1>1. ASSUME NEW event \in {"push", "workflow_dispatch"}, NEW p \in Profiles,
               NEW c \in Commits, Dispatch!Trigger(event, p, c)
        PROVE  RunsSound' /\ Grows /\ Len(runs') <= DispatchRuns
    <2>1. Len(runs') = Len(runs) + 1 /\ RunsSound' /\ Grows
      BY <1>1, RunCreated
         DEF Dispatch!Trigger, Dispatch!Superseded, Dispatch!SameGroup, Dispatch!NewRun,
             Evidence!Superseded, Evidence!SameGroup, Evidence!NewRun
    <2>2. Len(runs) \in Nat /\ DispatchRuns \in Nat /\ Len(runs) < DispatchRuns
      BY <1>1, DispatchAssumed
         DEF RunsSound, Dispatch!Trigger, Dispatch!DispatchConstants, Dispatch!WorkflowConstants
    <2>3. QED
      BY <2>1, <2>2
  <1>2. CASE \E c \in Commits : Dispatch!PushCommit(c)
    BY <1>1, <1>2, DispatchAssumed
       DEF Dispatch!PushCommit, Dispatch!DispatchConstants, Dispatch!WorkflowConstants
  <1>3. CASE \E p \in Profiles : Dispatch!OtherDispatch(p)
    BY <1>1, <1>3 DEF Dispatch!OtherDispatch
  <1>4. ASSUME NEW i \in DOMAIN runs,
               \/ Dispatch!AppearRun(i) \/ Dispatch!StartRun(i)
               \/ Dispatch!FinishJob(i) \/ Dispatch!CompleteRun(i)
        PROVE  RunsSound' /\ Grows /\ Len(runs') <= DispatchRuns /\ tip' \in Commits
    BY <1>4, RunMoves
       DEF Dispatch!AppearRun, Dispatch!StartRun, Dispatch!FinishJob, Dispatch!CompleteRun
  <1>5. QED
    BY <1>2, <1>3, <1>4 DEF Dispatch!WorkflowStep

\* More runs are listed as time passes.
LEMMA NewerGrow ==
  ASSUME RunsSound, RunsSound', Grows, NEW i \in DOMAIN runs, BeforeLimit <= Cardinality(NewerListed(i))
  PROVE  BeforeLimit <= Cardinality(NewerListed(i)')
  <1>1. NewerListed(i) \subseteq NewerListed(i)'
    BY DEF NewerListed, Grows, Becomes
  <1>2. IsFiniteSet(NewerListed(i)')
    <2>1. DOMAIN runs' = 1..Len(runs') /\ Len(runs') \in Nat
      BY DEF RunsSound
    <2>2. IsFiniteSet(1..Len(runs'))
      BY <2>1, FS_Interval
    <2>3. QED
      BY <2>1, <2>2, FS_Subset DEF NewerListed
  <1>3. Cardinality(NewerListed(i)) <= Cardinality(NewerListed(i)')
        /\ IsFiniteSet(NewerListed(i))
    BY <1>1, <1>2, FS_Subset
  <1>4. Cardinality(NewerListed(i)) \in Nat /\ Cardinality(NewerListed(i)') \in Nat
    BY <1>2, <1>3, FS_CardinalityType
  <1>5. BeforeLimit \in Nat
    BY DispatchAssumed DEF Dispatch!DispatchConstants
  <1>6. QED
    BY <1>3, <1>4, <1>5

LEMMA LargerSeq ==
  ASSUME NEW S, NEW T, S \subseteq T, NEW s \in Seq(S)
  PROVE  s \in Seq(T)
  <1>1. s \in [1..Len(s) -> T] /\ Len(s) \in Nat
    BY LenProperties
  <1>2. QED
    BY <1>1, SeqDef

StepType(n) == [profile : Profiles, run : 0..n, status : {"pass", "fail", "dispatched"}]

LEMMA StepTypes ==
  ASSUME Dispatch!TypeOK
  PROVE  /\ steps \in Seq(StepType(Len(runs))) /\ DOMAIN steps = 1..Len(steps)
         /\ Len(steps) \in Nat
         /\ \A j \in DOMAIN steps : steps[j].run \in 0..Len(runs)
  <1>1. steps \in Seq(StepType(Len(runs)))
    BY DEF Dispatch!TypeOK, StepType
  <1>2. \A j \in 1..Len(steps) : steps[j] \in StepType(Len(runs))
    BY <1>1, ElementOfSeq
  <1>3. QED
    BY <1>1, <1>2, LenProperties DEF StepType

\* What the dispatcher knows stays true while the runs go on, also when it creates one.
LEMMA KnowledgeStays ==
  ASSUME DispatchInv, RunsSound', Grows, Len(runs') <= DispatchRuns, tip' \in Commits,
         UNCHANGED <<wait, expected, known, ignored, unread, credited, view, steps, dstatus, prior>>,
         left' \in Nat, dpc' = dpc \/ (dpc = "trigger" /\ dpc' = "find")
  PROVE  DispatchInv'
  <1>1. /\ wait' = wait /\ expected' = expected /\ known' = known
        /\ ignored' = ignored /\ unread' = unread /\ credited' = credited /\ left' \in Nat
        /\ view' = view /\ steps' = steps /\ dstatus' = dstatus /\ prior' = prior
        /\ (dpc' = dpc \/ (dpc = "trigger" /\ dpc' = "find"))
    OBVIOUS
  <1>2. /\ DOMAIN runs = 1..Len(runs) /\ DOMAIN runs' = 1..Len(runs')
        /\ Len(runs) \in Nat /\ Len(runs') \in Nat /\ Len(runs) <= Len(runs')
    BY DEF DispatchInv, RunsSound, Grows
  <1>3. Dispatch!TypeOK'
    <2>1. runs' \in Seq(Dispatch!Runs)
      BY SameRuns DEF RunsSound
    <2>2. /\ known' \subseteq DOMAIN runs' /\ ignored' \subseteq DOMAIN runs'
          /\ unread' \subseteq DOMAIN runs' /\ prior' \subseteq DOMAIN runs'
          /\ credited' \in 0..Len(runs')
      BY <1>1, <1>2 DEF DispatchInv, Dispatch!TypeOK
    <2>3. steps' \in Seq([profile : Profiles, run : 0..Len(runs'),
                          status : {"pass", "fail", "dispatched"}])
      <3>1. StepType(Len(runs)) \subseteq StepType(Len(runs'))
        BY <1>2 DEF StepType
      <3>2. steps \in Seq(StepType(Len(runs')))
        BY <3>1, StepTypes, LargerSeq DEF DispatchInv
      <3>3. QED
        BY <1>1, <3>2 DEF StepType
    <2>4. QED
      BY <1>1, <2>1, <2>2, <2>3 DEF DispatchInv, Dispatch!TypeOK
  <1>4. StepsTrue'
    <2>1. ASSUME NEW j \in DOMAIN steps, steps[j].status = "pass"
          PROVE  Dispatch!Succeeded(runs'[steps[j].run], DispatchProfiles[j], expected)
      <3>1. steps[j].run \in DOMAIN runs
            /\ Dispatch!Succeeded(runs[steps[j].run], DispatchProfiles[j], expected)
        BY <1>2, <2>1, StepTypes DEF DispatchInv, StepsTrue
      <3>2. QED
        BY <3>1, SuccessStays DEF Dispatch!Succeeded, Evidence!Succeeded
    <2>2. QED
      BY <1>1, <2>1 DEF DispatchInv, StepsTrue
  <1>5. ViewTrue'
    <2>1. credited # 0 => credited \in DOMAIN runs
      BY <1>2 DEF DispatchInv, Dispatch!TypeOK
    <2>2. Dispatch!Profile' = Dispatch!Profile
      BY <1>1 DEF Dispatch!Profile
    <2>3. view # Dispatch!NoView => credited # 0
      BY DEF DispatchInv, ViewTrue
    <2>4. QED
      BY <1>1, <2>1, <2>2, <2>3
         DEF DispatchInv, ViewTrue, Grows, Becomes, Dispatch!JobConclusion
  <1>6. IgnoredForGood'
    BY <1>1 DEF DispatchInv, IgnoredForGood, Dispatch!TypeOK, Grows, Becomes
  <1>7. OldAreOut'
    <2>1. \A i \in prior \ known : i \in DOMAIN runs /\ BeforeLimit <= Cardinality(NewerListed(i))
      BY DEF DispatchInv, OldAreOut, Dispatch!TypeOK
    <2>2. RunsSound
      BY DEF DispatchInv
    <2>3. \A i \in prior \ known : BeforeLimit <= Cardinality(NewerListed(i)')
      BY <2>1, <2>2, NewerGrow
    <2>4. \A i \in prior' \ known' : BeforeLimit <= Cardinality(NewerListed(i))'
      BY <1>1, <2>3 DEF NewerListed
    <2>5. QED
      BY <1>1, <2>4 DEF DispatchInv, OldAreOut
  <1>8. QED
    BY <1>3, <1>4, <1>5, <1>6, <1>7 DEF DispatchInv

\* The profile of a step that is not finished is one of those asked for.
LEMMA ProfileType ==
  ASSUME DispatchInv, dpc # "done"
  PROVE  Dispatch!Profile \in Profiles /\ Dispatch!Profile = DispatchProfiles[Len(steps) + 1]
         /\ Len(steps) < Len(DispatchProfiles) /\ Len(DispatchProfiles) \in Nat
  <1>1. DispatchProfiles \in Seq(Profiles)
    BY DispatchAssumed DEF Dispatch!DispatchConstants
  <1>2. Len(steps) < Len(DispatchProfiles) /\ Len(DispatchProfiles) \in Nat
    BY <1>1, LenProperties DEF DispatchInv, StepsTrue
  <1>3. Len(steps) + 1 \in 1..Len(DispatchProfiles)
    BY <1>2, StepTypes DEF DispatchInv
  <1>4. DispatchProfiles[Len(steps) + 1] \in Profiles
    BY <1>1, <1>3, ElementOfSeq
  <1>5. QED
    BY <1>2, <1>4 DEF Dispatch!Profile

\* The end of a step keeps the report true if what it adds to the report is.
LEMMA StepEnds ==
  ASSUME DispatchInv, dpc # "done", NEW run \in 0..Len(runs),
         NEW result \in {"pass", "fail", "dispatched"},
         result = "pass" =>
           run # 0 /\ Dispatch!Succeeded(runs[run], Dispatch!Profile, expected),
         result = "dispatched" => ~wait,
         Dispatch!EndStep(run, result), UNCHANGED <<runs, tip, wait, expected>>
  PROVE  DispatchInv'
  <1> DEFINE new == [profile |-> Dispatch!Profile, run |-> run, status |-> result]
  <1>1. /\ steps' = Append(steps, new)
        /\ known' = {} /\ ignored' = {} /\ unread' = {} /\ credited' = 0 /\ left' = 0
        /\ view' = Dispatch!NoView /\ prior' = {}
        /\ runs' = runs /\ tip' = tip /\ wait' = wait /\ expected' = expected
    BY DEF Dispatch!EndStep
  <1>2. new \in StepType(Len(runs))
    BY ProfileType DEF StepType
  <1>3. /\ Len(steps') = Len(steps) + 1 /\ DOMAIN steps' = 1..(Len(steps) + 1)
        /\ steps' \in Seq(StepType(Len(runs)))
        /\ \A j \in DOMAIN steps : steps'[j] = steps[j]
        /\ steps'[Len(steps) + 1] = new
        /\ DOMAIN steps = 1..Len(steps) /\ Len(steps) \in Nat
    <2>1. steps \in Seq(StepType(Len(runs))) /\ DOMAIN steps = 1..Len(steps) /\ Len(steps) \in Nat
      BY StepTypes DEF DispatchInv
    <2>2. QED
      BY <1>1, <1>2, <2>1, AppendProperties, LenProperties
  <1>4. IF result = "fail" THEN dpc' = "done" /\ dstatus' = "fail"
        ELSE IF Len(steps) + 1 = Len(DispatchProfiles)
        THEN dpc' = "done" /\ dstatus' = "pass"
        ELSE dpc' = "list" /\ dstatus' = dstatus
    BY DEF Dispatch!EndStep
  <1>5. Dispatch!TypeOK'
    <2>1. dpc' \in {"start", "list", "trigger", "find", "wait", "judge", "done"}
          /\ dstatus' \in {"none", "pass", "fail"}
      BY <1>4 DEF DispatchInv, Dispatch!TypeOK
    <2>2. view' \in Dispatch!ViewType
      BY <1>1 DEF Dispatch!NoView, Dispatch!ViewType, Dispatch!Conclusions
    <2>3. credited' \in 0..Len(runs') /\ left' \in Nat
      BY <1>1 DEF DispatchInv, Dispatch!TypeOK
    <2>4. QED
      BY <1>1, <1>3, <2>1, <2>2, <2>3 DEF DispatchInv, Dispatch!TypeOK, StepType
  <1>6. StepsTrue'
    <2>1. Len(steps) < Len(DispatchProfiles) /\ Len(DispatchProfiles) \in Nat
          /\ Dispatch!Profile = DispatchProfiles[Len(steps) + 1]
      BY ProfileType
    <2>2. \A j \in DOMAIN steps : steps[j].status # "fail" /\ (wait => steps[j].status # "dispatched")
          /\ (steps[j].status = "pass" =>
               steps[j].run # 0
               /\ Dispatch!Succeeded(runs[steps[j].run], DispatchProfiles[j], expected))
      BY DEF DispatchInv, StepsTrue
    <2>3. \A j \in DOMAIN steps' : j \in DOMAIN steps \/ j = Len(steps) + 1
      BY <1>3
    <2>4. dstatus = "none"
      BY DEF DispatchInv, StepsTrue
    <2>5. ASSUME NEW j \in DOMAIN steps', steps'[j].status = "pass"
          PROVE  steps'[j].run # 0
                 /\ Dispatch!Succeeded(runs[steps'[j].run], DispatchProfiles[j], expected)
      <3>1. CASE j \in DOMAIN steps
        BY <1>3, <2>2, <2>5, <3>1
      <3>2. CASE j = Len(steps) + 1
        BY <1>3, <2>1, <2>5, <3>2
      <3>3. QED
        BY <2>3, <3>1, <3>2
    <2>6. wait => \A j \in DOMAIN steps' : steps'[j].status # "dispatched"
      BY <1>3, <2>2, <2>3
    <2>7. result # "fail" => \A j \in DOMAIN steps' : steps'[j].status # "fail"
      BY <1>3, <2>2, <2>3
    <2>8. Len(steps') <= Len(DispatchProfiles)
      BY <1>3, <2>1
    <2>9. QED
      BY <1>1, <1>3, <1>4, <2>1, <2>4, <2>5, <2>6, <2>7, <2>8 DEF StepsTrue
  <1>7. ViewTrue' /\ IgnoredForGood' /\ OldAreOut' /\ RunsSound'
    BY <1>1, <1>4 DEF ViewTrue, IgnoredForGood, OldAreOut, DispatchInv, RunsSound
  <1>8. QED
    BY <1>5, <1>6, <1>7 DEF DispatchInv

LEMMA DispatchInit ==
  ASSUME Dispatch!Init PROVE DispatchInv
  <1>1. Dispatch!TypeOK
    <2>1. runs = <<>> /\ steps = <<>> /\ <<>> \in Seq(Dispatch!Runs) /\ Len(<<>>) = 0
          /\ <<>> \in Seq([profile : Profiles, run : 0..0, status : {"pass", "fail", "dispatched"}])
      BY EmptySeq DEF Dispatch!Init, Dispatch!DispatchInit
    <2>2. Len(runs) <= DispatchRuns
      BY <2>1, DispatchAssumed DEF Dispatch!DispatchConstants, Dispatch!WorkflowConstants
    <2>3. view \in Dispatch!ViewType
      BY DEF Dispatch!Init, Dispatch!DispatchInit, Dispatch!NoView, Dispatch!ViewType,
             Dispatch!Conclusions
    <2>4. QED
      BY <2>1, <2>2, <2>3 DEF Dispatch!Init, Dispatch!DispatchInit, Dispatch!TypeOK
  <1>2. RunsSound
    BY EmptySeq DEF RunsSound, Dispatch!Init
  <1>3. StepsTrue
    <2>1. DispatchProfiles \in Seq(Profiles) /\ DispatchProfiles # <<>>
      BY DispatchAssumed DEF Dispatch!DispatchConstants
    <2>2. Len(DispatchProfiles) \in Nat /\ Len(DispatchProfiles) # 0
      BY <2>1, EmptySeq, LenProperties
    <2>3. steps = <<>> /\ Len(steps) = 0 /\ DOMAIN steps = {}
      BY EmptySeq DEF Dispatch!Init, Dispatch!DispatchInit
    <2>4. QED
      BY <2>2, <2>3 DEF StepsTrue, Dispatch!Init, Dispatch!DispatchInit
  <1>4. ViewTrue /\ IgnoredForGood /\ OldAreOut
    BY DEF ViewTrue, IgnoredForGood, OldAreOut, Dispatch!Init, Dispatch!DispatchInit
  <1>5. QED
    BY <1>1, <1>2, <1>3, <1>4 DEF DispatchInv

\* The listing through the instance counts as this module does.
LEMMA SameCardinality == ASSUME NEW S PROVE Dispatch!Cardinality(S) = Cardinality(S)
  BY Zenon DEF Dispatch!Cardinality, Cardinality

LEMMA ListingIs ==
  ASSUME NEW n
  PROVE  Dispatch!Listing(n) =
           {i \in DOMAIN runs : runs[i].listed /\ Cardinality(NewerListed(i)) < n}
  <1> DEFINE here == {i \in DOMAIN runs : runs[i].listed}
  <1>1. Dispatch!Listing(n) = {i \in here : Dispatch!Cardinality({j \in here : j > i}) < n}
    BY Zenon DEF Dispatch!Listing
  <1>2. \A i : {j \in here : j > i} = NewerListed(i)
    BY DEF NewerListed
  <1>3. \A i : i \in Dispatch!Listing(n) <=> i \in here /\ Cardinality(NewerListed(i)) < n
    BY <1>1, <1>2, SameCardinality, Zenon
  <1>4. QED
    BY <1>3

LEMMA NewerCount ==
  ASSUME RunsSound, NEW i
  PROVE  Cardinality(NewerListed(i)) \in Nat
  <1>1. DOMAIN runs = 1..Len(runs) /\ Len(runs) \in Nat
    BY DEF RunsSound
  <1>2. IsFiniteSet(1..Len(runs)) /\ NewerListed(i) \in SUBSET (1..Len(runs))
    BY <1>1, FS_Interval DEF NewerListed
  <1>3. QED
    BY <1>2, FS_Subset, FS_CardinalityType

LEMMA PrecheckHolds == ASSUME DispatchInv, Dispatch!Precheck PROVE DispatchInv'
  <1>1. Dispatch!TypeOK' /\ RunsSound'
    BY DEF DispatchInv, Dispatch!TypeOK, Dispatch!Precheck, RunsSound
  <1>2. StepsTrue'
    BY DEF DispatchInv, StepsTrue, Dispatch!Precheck
  <1>3. ViewTrue'
    BY DEF DispatchInv, ViewTrue, Dispatch!Precheck
  <1>4. IgnoredForGood' /\ OldAreOut'
    BY DEF DispatchInv, IgnoredForGood, OldAreOut, NewerListed, Dispatch!Precheck
  <1>5. QED
    BY <1>1, <1>2, <1>3, <1>4 DEF DispatchInv

LEMMA ListBeforeHolds == ASSUME DispatchInv, Dispatch!ListBefore PROVE DispatchInv'
  <1>1. Dispatch!Listing(BeforeLimit) \subseteq DOMAIN runs
        /\ Dispatch!Listing(DispatchRuns) \subseteq DOMAIN runs
    BY ListingIs
  <1>2. Dispatch!TypeOK' /\ RunsSound'
    BY <1>1 DEF DispatchInv, Dispatch!TypeOK, Dispatch!ListBefore, RunsSound
  <1>3. StepsTrue' /\ ViewTrue' /\ IgnoredForGood'
    BY DEF DispatchInv, StepsTrue, ViewTrue, Dispatch!Profile, IgnoredForGood, Dispatch!ListBefore
  <1>4. OldAreOut'
    <2>1. RunsSound /\ BeforeLimit \in Nat
      BY DispatchAssumed DEF DispatchInv, Dispatch!DispatchConstants
    <2>2. \A i \in Dispatch!Listing(DispatchRuns) \ Dispatch!Listing(BeforeLimit) :
            BeforeLimit <= Cardinality(NewerListed(i))
      BY <2>1, NewerCount, ListingIs
    <2>3. \A i : NewerListed(i)' = NewerListed(i)
      BY DEF Dispatch!ListBefore, NewerListed
    <2>4. unread' = {}
      BY DEF DispatchInv, IgnoredForGood, Dispatch!ListBefore
    <2>5. QED
      BY <2>2, <2>3, <2>4 DEF Dispatch!ListBefore, OldAreOut
  <1>5. QED
    BY <1>2, <1>3, <1>4 DEF DispatchInv

LEMMA TriggerRunHolds == ASSUME DispatchInv, Dispatch!TriggerRun PROVE DispatchInv'
  <1>1. dpc = "trigger" /\ UNCHANGED <<tip, wait, expected>>
    BY DEF Dispatch!TriggerRun
  <1>2. CASE /\ Dispatch!Trigger("workflow_dispatch", Dispatch!Profile, tip)
             /\ dpc' = "find" /\ left' = AppearPolls
             /\ UNCHANGED <<known, ignored, unread, credited, view, steps, dstatus, prior>>
    <2>1. Dispatch!Profile \in Profiles /\ tip \in Commits /\ RunsSound
      BY <1>1, ProfileType DEF DispatchInv, Dispatch!TypeOK
    <2>2. Len(runs') = Len(runs) + 1 /\ RunsSound' /\ Grows
      BY <1>2, <2>1, RunCreated
         DEF Dispatch!Trigger, Dispatch!Superseded, Dispatch!SameGroup, Dispatch!NewRun,
             Evidence!Superseded, Evidence!SameGroup, Evidence!NewRun
    <2>3. Len(runs) \in Nat /\ DispatchRuns \in Nat /\ Len(runs) < DispatchRuns
          /\ AppearPolls \in Nat
      BY <1>2, <2>1, DispatchAssumed
         DEF RunsSound, Dispatch!Trigger, Dispatch!DispatchConstants, Dispatch!WorkflowConstants
    <2>4. QED
      BY <1>1, <1>2, <2>1, <2>2, <2>3, KnowledgeStays
  <1>3. CASE Dispatch!EndStep(0, "fail") /\ UNCHANGED runs
    <2>1. 0 \in 0..Len(runs)
      BY DEF DispatchInv, Dispatch!TypeOK
    <2>2. QED
      BY <1>1, <1>3, <2>1, StepEnds
  <1>4. QED
    BY <1>2, <1>3 DEF Dispatch!TriggerRun

LEMMA PollListHolds == ASSUME DispatchInv, Dispatch!PollList PROVE DispatchInv'
  <1>1. Dispatch!Listing(FindLimit) \subseteq DOMAIN runs
    BY ListingIs
  <1>2. left' \in Nat /\ unread' \subseteq DOMAIN runs
    BY <1>1 DEF DispatchInv, Dispatch!TypeOK, Dispatch!PollList
  <1>3. Dispatch!TypeOK' /\ RunsSound'
    BY <1>2 DEF DispatchInv, Dispatch!TypeOK, Dispatch!PollList, RunsSound
  <1>4. StepsTrue' /\ ViewTrue' /\ IgnoredForGood'
    BY DEF DispatchInv, StepsTrue, ViewTrue, Dispatch!Profile, IgnoredForGood, Dispatch!PollList
  <1>5. OldAreOut'
    <2>1. FindLimit <= BeforeLimit /\ FindLimit \in Nat /\ BeforeLimit \in Nat /\ RunsSound
      BY DispatchAssumed DEF DispatchInv, Dispatch!DispatchConstants
    <2>2. \A i \in prior \ known : i \notin Dispatch!Listing(FindLimit)
      BY <2>1, NewerCount, ListingIs DEF DispatchInv, OldAreOut
    <2>3. (Dispatch!Listing(FindLimit) \ (known \cup ignored)) \cap prior = {}
      BY <2>2
    <2>4. \A i : NewerListed(i)' = NewerListed(i)
      BY DEF Dispatch!PollList, NewerListed
    <2>5. QED
      BY <2>3, <2>4 DEF DispatchInv, OldAreOut, Dispatch!PollList
  <1>6. QED
    BY <1>3, <1>4, <1>5 DEF DispatchInv

\* Among finitely many positions there is a last one.
LEMMA Greatest ==
  ASSUME NEW n \in Nat, NEW S, S \subseteq 1..n, S # {}
  PROVE  \E i \in S : \A j \in S : j <= i
  <1> DEFINE T == {n - i : i \in S}
             R == OpToRel(<, Nat)
  <1>1. IsWellFoundedOn(R, Nat)
    BY NatLessThanWellFounded
  <1>2. T \subseteq Nat
    OBVIOUS
  <1>3. T # {}
    <2>1. PICK i \in S : TRUE
      OBVIOUS
    <2>2. n - i \in T
      OBVIOUS
    <2>3. QED
      BY <2>2
  <1>4. \E x \in T : \A y \in T : <<y, x>> \notin R
    BY <1>1, <1>2, <1>3, WFMin
  <1>5. PICK i \in S : \A y \in T : <<y, n - i>> \notin R
    BY <1>4
  <1>6. ASSUME NEW j \in S PROVE ~(n - j < n - i)
    <2>1. n - j \in T /\ n - j \in Nat /\ n - i \in Nat
      OBVIOUS
    <2>2. <<n - j, n - i>> \notin R
      BY <1>5, <2>1
    <2>3. QED
      BY <2>1, <2>2 DEF OpToRel
  <1>7. QED
    BY <1>6

LEMMA NewestIn ==
  ASSUME DispatchInv, unread # {}
  PROVE  Dispatch!Newest(unread) \in unread /\ Dispatch!Newest(unread) \in DOMAIN runs
  <1>1. unread \subseteq 1..Len(runs) /\ Len(runs) \in Nat /\ DOMAIN runs = 1..Len(runs)
    BY DEF DispatchInv, Dispatch!TypeOK, RunsSound
  <1>2. \E i \in unread : \A j \in unread : j <= i
    BY <1>1, Greatest
  <1>3. QED
    BY <1>1, <1>2 DEF Dispatch!Newest

LEMMA ExamineHeadHolds == ASSUME DispatchInv, Dispatch!ExamineHead PROVE DispatchInv'
  <1> DEFINE i == Dispatch!Newest(unread)
  <1>1. /\ dpc = "find" /\ i \in unread /\ i \in DOMAIN runs /\ runs[i].sha # expected
        /\ ignored' = ignored \cup {i} /\ unread' = unread \ {i}
        /\ UNCHANGED <<runs, tip, dpc, wait, expected, known, credited, left, view, steps,
                       dstatus, prior>>
    BY NewestIn DEF Dispatch!ExamineHead
  <1> HIDE DEF i
  <1>2. Dispatch!TypeOK' /\ RunsSound'
    BY <1>1 DEF DispatchInv, Dispatch!TypeOK, RunsSound
  <1>3. StepsTrue' /\ ViewTrue' /\ IgnoredForGood'
    BY <1>1 DEF DispatchInv, StepsTrue, ViewTrue, Dispatch!Profile, IgnoredForGood
  <1>4. OldAreOut'
    BY <1>1 DEF DispatchInv, OldAreOut, NewerListed
  <1>5. QED
    BY <1>2, <1>3, <1>4 DEF DispatchInv

LEMMA ExamineViewHolds == ASSUME DispatchInv, Dispatch!ExamineView PROVE DispatchInv'
  <1> DEFINE i == Dispatch!Newest(unread)
  <1>1. /\ dpc = "find" /\ wait /\ i \in unread /\ i \in DOMAIN runs /\ runs[i].sha = expected
        /\ \/ unread' = unread \ {i} /\ UNCHANGED <<dpc, ignored, credited, left>>
           \/ /\ ~Dispatch!JobsShown(runs[i])
              /\ unread' = unread \ {i}
              /\ ignored' = IF runs[i].status = "completed" THEN ignored \cup {i} ELSE ignored
              /\ UNCHANGED <<dpc, credited, left>>
           \/ /\ credited' = i /\ dpc' = "wait" /\ left' = RunPolls
              /\ unread' = {} /\ ignored' = {}
        /\ UNCHANGED <<runs, tip, wait, expected, known, view, steps, dstatus, prior>>
    BY NewestIn DEF Dispatch!ExamineView
  <1> HIDE DEF i
  <1>2. RunPolls \in Nat /\ i # 0 /\ i \in 0..Len(runs)
    BY <1>1, DispatchAssumed DEF DispatchInv, RunsSound, Dispatch!DispatchConstants
  <1>3. Dispatch!TypeOK' /\ RunsSound'
    BY <1>1, <1>2 DEF DispatchInv, Dispatch!TypeOK, RunsSound
  <1>4. StepsTrue'
    BY <1>1 DEF DispatchInv, StepsTrue
  <1>5. ViewTrue'
    BY <1>1, <1>2 DEF DispatchInv, ViewTrue, Dispatch!Profile
  <1>6. IgnoredForGood'
    <2>1. ~Dispatch!JobsShown(runs[i]) /\ runs[i].status = "completed" => runs[i].job = "none"
      BY DEF Dispatch!JobsShown
    <2>2. QED
      BY <1>1, <2>1 DEF DispatchInv, IgnoredForGood
  <1>7. OldAreOut'
    BY <1>1 DEF DispatchInv, OldAreOut, NewerListed
  <1>8. QED
    BY <1>3, <1>4, <1>5, <1>6, <1>7 DEF DispatchInv

LEMMA ExamineCreditHolds == ASSUME DispatchInv, Dispatch!ExamineCredit PROVE DispatchInv'
  <1>1. /\ dpc = "find" /\ ~wait /\ unread # {}
        /\ Dispatch!EndStep(Dispatch!Newest(unread), "dispatched")
        /\ UNCHANGED <<runs, tip, wait, expected>>
    BY DEF Dispatch!ExamineCredit
  <1>2. Dispatch!Newest(unread) \in 0..Len(runs)
    BY <1>1, NewestIn DEF DispatchInv, RunsSound
  <1>3. QED
    BY <1>1, <1>2, StepEnds

LEMMA AppearTimeoutHolds == ASSUME DispatchInv, Dispatch!AppearTimeout PROVE DispatchInv'
  <1>1. 0 \in 0..Len(runs)
    BY DEF DispatchInv, Dispatch!TypeOK
  <1>2. QED
    BY <1>1, StepEnds DEF Dispatch!AppearTimeout

LEMMA PollRunHolds == ASSUME DispatchInv, Dispatch!PollRun PROVE DispatchInv'
  <1>1. /\ dpc = "wait" /\ left \in Nat /\ left' \in Nat /\ credited \in DOMAIN runs
        /\ UNCHANGED <<runs, tip, wait, expected, known, ignored, unread, credited, steps,
                       dstatus, prior>>
    BY DEF DispatchInv, RunsSound, ViewTrue, Dispatch!TypeOK, Dispatch!PollRun
  <1>2. runs[credited] \in Evidence!Runs /\ Sound(runs[credited])
    BY <1>1 DEF DispatchInv, RunsSound
  <1>3. view' = view \/ view' = Dispatch!ViewOf(credited, Dispatch!Profile)
    BY DEF Dispatch!PollRun
  <1>4. dpc' \in {"wait", "judge"}
    BY <1>1 DEF Dispatch!PollRun
  <1>5. Dispatch!TypeOK' /\ RunsSound'
    <2>1. Dispatch!ViewOf(credited, Dispatch!Profile) \in Dispatch!ViewType
      BY <1>2 DEF Dispatch!ViewOf, Dispatch!ViewType, Dispatch!JobsShown, Dispatch!JobConclusion,
                  Dispatch!Conclusions, Evidence!Runs, Evidence!Conclusions
    <2>2. QED
      BY <1>1, <1>3, <1>4, <2>1 DEF DispatchInv, Dispatch!TypeOK, RunsSound
  <1>6. StepsTrue'
    BY <1>1, <1>4 DEF DispatchInv, StepsTrue
  <1>7. ViewTrue'
    <2>1. Dispatch!Profile' = Dispatch!Profile
      BY <1>1 DEF Dispatch!Profile
    <2>2. CASE view' = view
      BY <1>1, <1>4, <2>1, <2>2 DEF DispatchInv, ViewTrue, Dispatch!JobConclusion
    <2>3. CASE view' = Dispatch!ViewOf(credited, Dispatch!Profile)
      BY <1>1, <1>2, <1>4, <2>1, <2>3
         DEF DispatchInv, ViewTrue, Dispatch!ViewOf, Dispatch!JobConclusion, Sound
    <2>4. QED
      BY <1>3, <2>2, <2>3
  <1>8. IgnoredForGood' /\ OldAreOut'
    BY <1>1, <1>4 DEF DispatchInv, IgnoredForGood, OldAreOut, NewerListed
  <1>9. QED
    BY <1>5, <1>6, <1>7, <1>8 DEF DispatchInv

LEMMA RunTimeoutHolds == ASSUME DispatchInv, Dispatch!RunTimeout PROVE DispatchInv'
  <1>1. Dispatch!TypeOK' /\ RunsSound'
    BY DEF DispatchInv, Dispatch!TypeOK, RunsSound, Dispatch!RunTimeout
  <1>2. StepsTrue' /\ ViewTrue'
    BY DEF DispatchInv, StepsTrue, ViewTrue, Dispatch!Profile, Dispatch!RunTimeout
  <1>3. IgnoredForGood' /\ OldAreOut'
    BY DEF DispatchInv, IgnoredForGood, OldAreOut, NewerListed, Dispatch!RunTimeout
  <1>4. QED
    BY <1>1, <1>2, <1>3 DEF DispatchInv

\* What the last view must show makes the run a success of the profile.
LEMMA AcceptedSucceeded ==
  ASSUME DispatchInv, dpc = "judge", Dispatch!Accepts(view)
  PROVE  credited # 0 /\ Dispatch!Succeeded(runs[credited], Dispatch!Profile, expected)
  <1>1. credited # 0 /\ credited \in DOMAIN runs /\ Sound(runs[credited])
    BY DEF DispatchInv, RunsSound, ViewTrue, Dispatch!TypeOK
  <1>2. QED
    BY <1>1 DEF DispatchInv, ViewTrue, Dispatch!Accepts, Dispatch!Succeeded, Sound,
                Dispatch!JobConclusion

LEMMA JudgeHolds == ASSUME DispatchInv, Dispatch!Judge PROVE DispatchInv'
  <1>1. /\ dpc = "judge" /\ wait /\ credited \in 0..Len(runs)
        /\ UNCHANGED <<runs, tip, wait, expected>>
        /\ Dispatch!EndStep(credited, IF Dispatch!Accepts(view) THEN "pass" ELSE "fail")
    BY DEF DispatchInv, ViewTrue, Dispatch!TypeOK, Dispatch!Judge
  <1>2. CASE Dispatch!Accepts(view)
    BY <1>1, <1>2, AcceptedSucceeded, StepEnds
  <1>3. CASE ~Dispatch!Accepts(view)
    BY <1>1, <1>3, StepEnds
  <1>4. QED
    BY <1>2, <1>3

LEMMA DispatchStays ==
  ASSUME DispatchInv, [Dispatch!Next]_(Dispatch!vars)
  PROVE  DispatchInv'
  <1>1. CASE Dispatch!DispatchStep
    BY <1>1, PrecheckHolds, ListBeforeHolds, TriggerRunHolds, PollListHolds, ExamineHeadHolds,
       ExamineCreditHolds, ExamineViewHolds, AppearTimeoutHolds, PollRunHolds, RunTimeoutHolds,
       JudgeHolds
       DEF Dispatch!DispatchStep
  <1>2. RunsSound /\ Len(runs) <= DispatchRuns /\ tip \in Commits /\ left \in Nat
    BY DEF DispatchInv, Dispatch!TypeOK
  <1>3. CASE Dispatch!Hosted
    <2>1. RunsSound' /\ Grows /\ Len(runs') <= DispatchRuns /\ tip' \in Commits
      BY <1>2, <1>3, DispatchHosted DEF Dispatch!Hosted
    <2>2. UNCHANGED Dispatch!dvars
      BY <1>3 DEF Dispatch!Hosted
    <2>3. QED
      BY <1>2, <2>1, <2>2, KnowledgeStays DEF Dispatch!dvars
  <1>4. CASE UNCHANGED Dispatch!vars
    <2>1. runs' = runs /\ tip' = tip /\ UNCHANGED Dispatch!dvars
      BY <1>4 DEF Dispatch!vars, Dispatch!wvars
    <2>2. RunsSound' /\ Grows
      BY <1>2, <2>1 DEF RunsSound, Grows, Becomes
    <2>3. QED
      BY <1>2, <2>1, <2>2, KnowledgeStays DEF Dispatch!dvars
  <1>5. QED
    BY <1>1, <1>3, <1>4 DEF Dispatch!Next

LEMMA DispatchInvTrue == ASSUME DispatchInv PROVE Dispatch!DispatchTrue
  <1>1. /\ \A j \in DOMAIN steps : steps[j].status \in {"pass", "fail", "dispatched"}
        /\ DOMAIN steps = 1..Len(steps)
    <2>1. \A j \in 1..Len(steps) : steps[j] \in StepType(Len(runs))
      BY StepTypes, ElementOfSeq DEF DispatchInv
    <2>2. QED
      BY <2>1, StepTypes DEF DispatchInv, StepType
  <1>2. Dispatch!PassMeansSuccess
    BY <1>1 DEF DispatchInv, StepsTrue, Dispatch!PassMeansSuccess
  <1>3. Dispatch!DistinctEvidence
    BY <1>1 DEF DispatchInv, StepsTrue, Dispatch!DistinctEvidence, Dispatch!Succeeded
  <1>4. Dispatch!NoSuccessIgnored
    BY DEF DispatchInv, IgnoredForGood, Dispatch!NoSuccessIgnored, Dispatch!Succeeded
  <1>5. QED
    BY <1>2, <1>3, <1>4 DEF DispatchInv, Dispatch!DispatchTrue

\* What is taken was not listed before the trigger.
LEMMA TakenIsNew ==
  ASSUME DispatchInv, [Dispatch!Next]_(Dispatch!vars), dpc = "find", dpc' # "find"
  PROVE  (IF dpc' = "wait" THEN credited' ELSE steps'[Len(steps')].run) \notin prior
  <1>1. Dispatch!ExamineCredit \/ Dispatch!ExamineView \/ Dispatch!AppearTimeout
    <2>1. ~Dispatch!Hosted /\ ~UNCHANGED Dispatch!vars
      BY DEF Dispatch!Hosted, Dispatch!vars, Dispatch!dvars
    <2>2. QED
      BY <2>1 DEF Dispatch!Next, Dispatch!DispatchStep, Dispatch!Precheck, Dispatch!ListBefore,
                  Dispatch!TriggerRun, Dispatch!PollList, Dispatch!ExamineHead, Dispatch!PollRun,
                  Dispatch!RunTimeout, Dispatch!Judge
  <1>2. ASSUME NEW run \in 0..Len(runs), NEW result \in {"pass", "fail", "dispatched"},
               Dispatch!EndStep(run, result)
        PROVE  dpc' # "wait" /\ steps'[Len(steps')].run = run
    <2> DEFINE new == [profile |-> Dispatch!Profile, run |-> run, status |-> result]
    <2>1. new \in StepType(Len(runs)) /\ steps \in Seq(StepType(Len(runs)))
      BY ProfileType, StepTypes DEF StepType, DispatchInv
    <2>2. steps' = Append(steps, new)
      BY <1>2 DEF Dispatch!EndStep
    <2> HIDE DEF new
    <2>3. steps'[Len(steps')] = new
      BY <2>1, <2>2, AppendProperties
    <2>4. new.run = run
      BY DEF new
    <2>5. dpc' # "wait"
      BY <1>2 DEF Dispatch!EndStep
    <2>6. QED
      BY <2>3, <2>4, <2>5
  <1>3. CASE Dispatch!ExamineCredit
    <2>1. unread # {} /\ Dispatch!EndStep(Dispatch!Newest(unread), "dispatched")
      BY <1>3 DEF Dispatch!ExamineCredit
    <2>2. Dispatch!Newest(unread) \in unread /\ Dispatch!Newest(unread) \in 0..Len(runs)
      BY <2>1, NewestIn DEF DispatchInv, RunsSound
    <2>3. QED
      BY <1>2, <2>1, <2>2 DEF DispatchInv, OldAreOut
  <1>4. CASE Dispatch!ExamineView
    <2>1. unread # {} /\ credited' = Dispatch!Newest(unread) /\ dpc' = "wait"
      BY <1>4 DEF Dispatch!ExamineView
    <2>2. QED
      BY <2>1, NewestIn DEF DispatchInv, OldAreOut
  <1>5. CASE Dispatch!AppearTimeout
    <2>1. Dispatch!EndStep(0, "fail") /\ 0 \in 0..Len(runs) /\ 0 \notin prior
      BY <1>5 DEF Dispatch!AppearTimeout, DispatchInv, RunsSound, Dispatch!TypeOK
    <2>2. QED
      BY <1>2, <2>1
  <1>6. QED
    BY <1>1, <1>3, <1>4, <1>5

\* With --wait every step before the one in progress has passed.
LEMMA EarlierSucceeded ==
  ASSUME DispatchInv, wait, dpc = "trigger"
  PROVE  \A j \in DOMAIN steps :
           steps[j].run # 0
           /\ Dispatch!Succeeded(runs[steps[j].run], DispatchProfiles[j], expected)
  <1>1. \A j \in 1..Len(steps) : steps[j] \in StepType(Len(runs))
    BY StepTypes, ElementOfSeq DEF DispatchInv
  <1>2. QED
    BY <1>1, StepTypes DEF DispatchInv, StepsTrue, StepType

\* The dispatcher of the composition: its invariant holds where it works, and it rests
\* where another script does.
DispatchThere ==
  /\ script = "dispatch" => DispatchInv
  /\ script # "dispatch" => dpc = "rest"

LEMMA DispatchThereHolds == MCSpec => []DispatchThere
  <1>1. MCInit => DispatchThere
    BY DispatchInit DEF MCInit, RestDispatch, DispatchThere
  <1>2. DispatchThere /\ [MCNext]_<<script, vars, runVars, dispatchVars, evidenceVars>>
        => DispatchThere'
    <2> SUFFICES ASSUME DispatchThere,
                        [MCNext]_<<script, vars, runVars, dispatchVars, evidenceVars>>
                 PROVE  DispatchThere'
      OBVIOUS
    <2>1. script' = script
      BY DEF MCNext
    <2>2. CASE script = "dispatch"
      <3>1. [Dispatch!Next]_(Dispatch!vars)
        BY <2>2 DEF MCNext, Dispatch!vars, Dispatch!wvars, Dispatch!dvars, runVars, dispatchVars
      <3>2. QED
        BY <2>1, <2>2, <3>1, DispatchStays DEF DispatchThere
    <2>3. CASE script # "dispatch"
      BY <2>1, <2>3 DEF DispatchThere, MCNext, dispatchVars
    <2>4. QED
      BY <2>2, <2>3
  <1>3. QED
    BY <1>1, <1>2, PTL DEF MCSpec

\* scripts/ci_remote_dispatch.py: whatever pushes, dispatches and cancellations do meanwhile,
\* a passing --wait report names for every requested profile a run of the expected head that
\* ended with that profile's job and the run successful; one run is never the evidence of two
\* profiles; and what find_new_run rejects for good never becomes such a run.
THEOREM TrueDispatch == MCSpec => []DispatchIsTrue
  <1>1. DispatchThere => DispatchIsTrue
    BY DispatchInvTrue DEF DispatchThere, DispatchIsTrue
  <1>2. QED
    BY <1>1, DispatchThereHolds, PTL

\* The run that the dispatcher takes for its own was not listed before the trigger, although
\* the listings are cut off, and with --wait a profile is triggered only when the runs of the
\* earlier ones have succeeded.
THEOREM OrderlyTriggers == MCSpec => TriggersAreFollowed
  <1> DEFINE Taken == dpc = "find" /\ dpc' # "find" =>
               (IF dpc' = "wait" THEN credited' ELSE steps'[Len(steps')].run) \notin prior
             Ordered == wait /\ dpc = "trigger" /\ dpc' # "trigger" =>
               \A j \in DOMAIN steps :
                 steps[j].run # 0
                 /\ Dispatch!Succeeded(runs[steps[j].run], DispatchProfiles[j], expected)
  <1>1. DispatchThere /\ [MCNext]_<<script, vars, runVars, dispatchVars, evidenceVars>>
        => [Taken]_(Dispatch!vars) /\ [Ordered]_(Dispatch!vars)
    <2> SUFFICES ASSUME DispatchThere,
                        [MCNext]_<<script, vars, runVars, dispatchVars, evidenceVars>>
                 PROVE  Taken /\ Ordered
      OBVIOUS
    <2>1. CASE script = "dispatch"
      <3>1. [Dispatch!Next]_(Dispatch!vars)
        BY <2>1 DEF MCNext, Dispatch!vars, Dispatch!wvars, Dispatch!dvars, runVars, dispatchVars
      <3>2. QED
        BY <2>1, <3>1, TakenIsNew, EarlierSucceeded DEF DispatchThere
    <2>2. CASE script # "dispatch"
      BY <2>2 DEF DispatchThere
    <2>3. QED
      BY <2>1, <2>2
  <1>2. QED
    BY <1>1, DispatchThereHolds, PTL
       DEF MCSpec, TriggersAreFollowed, Dispatch!TriggersFollowed, Dispatch!CreditedUnseen,
           Dispatch!OrderedTriggers

(***************************************************************************)
(* The evidence collector.                                                 *)
(***************************************************************************)
EntryType ==
  [event : {"push", "workflow_dispatch"}, sha : Commits,
   status : {"queued", "in_progress", "completed"}, conclusion : Evidence!Conclusions,
   job : Evidence!Conclusions \cup {"skipped"}, jobs : BOOLEAN, artifact : BOOLEAN]

\* What is known of a listed run: if it was completed when it was listed, everything that
\* was read later is read of the same, finished run.
EntryTrue(i) ==
  LET e == entries[i]
  IN  /\ e.sha = runs[i].sha
      /\ e.status = "completed" =>
           /\ runs[i].status = "completed" /\ e.conclusion = runs[i].conclusion
           /\ e.job = "success" => runs[i].profile = SmokeProfile /\ runs[i].job = "success"
           /\ e.artifact => runs[i].profile = SmokeProfile /\ runs[i].uploaded

EntriesTrue ==
  /\ entries \in [DOMAIN entries -> EntryType]
  /\ \A i \in DOMAIN entries : EntryTrue(i)

\* A run that was evidence when it was listed is still, and as long as no call fails its
\* entry says so as far as it has been read.
SeenTrue ==
  \A i \in seen :
    /\ Evidence!IsEvidence(i)
    /\ entries[i].status = "completed" /\ entries[i].conclusion = "success"
    /\ ~failed => /\ i \notin queue => entries[i].job = "success" /\ entries[i].artifact
                  /\ epc = "artifacts" /\ i = Evidence!Newest(queue) => entries[i].job = "success"

ReportTrue ==
  /\ epc # "done" => estatus = "none" /\ satisfied = 0
  /\ epc = "artifacts" => queue # {}
  /\ epc = "start" => seen = {} /\ queue = {}
  /\ estatus = "pass" => satisfied \in DOMAIN entries /\ Evidence!Satisfies(entries[satisfied])
  /\ estatus = "missing" /\ ~failed => seen = {}

EvidenceInv == Evidence!TypeOK /\ RunsSound /\ EntriesTrue /\ SeenTrue /\ ReportTrue

LEMMA EvidenceAssumed ==
  /\ SmokeProfile \in Profiles /\ EvidenceRuns \in Nat /\ EvidenceLimit \in Nat
  BY ScriptConstants DEF Evidence!EvidenceConstants, Evidence!WorkflowConstants

\* A step of the hosted workflow.
LEMMA EvidenceHosted ==
  ASSUME RunsSound, tip \in Commits, Evidence!WorkflowStep
  PROVE  RunsSound' /\ Grows /\ tip' \in Commits
  <1>1. ASSUME NEW event \in {"push", "workflow_dispatch"}, NEW p \in Profiles,
               NEW c \in Commits, Evidence!Trigger(event, p, c)
        PROVE  RunsSound' /\ Grows
    BY <1>1, RunCreated DEF Evidence!Trigger
  <1>2. CASE \E c \in Commits : Evidence!PushCommit(c)
    BY <1>1, <1>2, EvidenceAssumed DEF Evidence!PushCommit
  <1>3. CASE \E p \in Profiles : Evidence!OtherDispatch(p)
    BY <1>1, <1>3 DEF Evidence!OtherDispatch
  <1>4. ASSUME NEW i \in DOMAIN runs,
               \/ Evidence!AppearRun(i) \/ Evidence!StartRun(i)
               \/ Evidence!FinishJob(i) \/ Evidence!CompleteRun(i)
        PROVE  RunsSound' /\ Grows /\ tip' \in Commits
    BY <1>4, RunMoves
       DEF Evidence!AppearRun, Evidence!StartRun, Evidence!FinishJob, Evidence!CompleteRun
  <1>5. QED
    BY <1>2, <1>3, <1>4 DEF Evidence!WorkflowStep

\* What the collector knows stays true while the runs go on.
LEMMA EvidenceKnowledgeStays ==
  ASSUME EvidenceInv, RunsSound', Grows, tip' \in Commits, UNCHANGED Evidence!evars
  PROVE  EvidenceInv'
  <1>1. /\ epc' = epc /\ ehead' = ehead /\ entries' = entries /\ queue' = queue
        /\ satisfied' = satisfied /\ estatus' = estatus /\ seen' = seen /\ failed' = failed
    BY DEF Evidence!evars
  <1>2. DOMAIN entries \subseteq DOMAIN runs /\ seen \subseteq DOMAIN entries
    BY DEF EvidenceInv, Evidence!TypeOK
  <1>3. Evidence!TypeOK'
    BY <1>1 DEF EvidenceInv, Evidence!TypeOK, RunsSound, Grows
  <1>4. EntriesTrue'
    BY <1>1, <1>2 DEF EvidenceInv, EntriesTrue, EntryTrue, Grows, Becomes
  <1>5. SeenTrue'
    <2>1. \A i \in seen : Evidence!IsEvidence(i)'
      BY <1>1, <1>2 DEF EvidenceInv, SeenTrue, Evidence!IsEvidence, Evidence!Succeeded,
                        Grows, Becomes
    <2>2. Evidence!Newest(queue)' = Evidence!Newest(queue)
      BY <1>1 DEF Evidence!Newest
    <2>3. QED
      BY <1>1, <2>1, <2>2 DEF EvidenceInv, SeenTrue
  <1>6. ReportTrue'
    BY <1>1 DEF EvidenceInv, ReportTrue, Evidence!Satisfies, Evidence!ClassifiedSmoke
  <1>7. QED
    BY <1>3, <1>4, <1>5, <1>6 DEF EvidenceInv

LEMMA NewestQueued ==
  ASSUME EvidenceInv, NEW S, S \subseteq DOMAIN entries, S # {}
  PROVE  Evidence!Newest(S) \in S
  <1>1. S \subseteq 1..Len(runs) /\ Len(runs) \in Nat
    BY DEF EvidenceInv, Evidence!TypeOK, RunsSound
  <1>2. \E i \in S : \A j \in S : j <= i
    BY <1>1, Greatest
  <1>3. QED
    BY <1>2 DEF Evidence!Newest

LEMMA EvidenceInit == ASSUME Evidence!Init PROVE EvidenceInv
  <1>1. runs = <<>> /\ runs \in Seq(Evidence!Runs) /\ DOMAIN runs = {}
        /\ entries = <<>> /\ DOMAIN entries = {}
    BY EmptySeq DEF Evidence!Init, Evidence!EvidenceInit
  <1>2. Evidence!TypeOK
    BY <1>1 DEF Evidence!Init, Evidence!EvidenceInit, Evidence!TypeOK
  <1>3. entries \in [DOMAIN entries -> EntryType]
    BY <1>1, EmptySeq
  <1>4. QED
    BY <1>1, <1>2, <1>3
       DEF Evidence!Init, Evidence!EvidenceInit, EvidenceInv, RunsSound, EntriesTrue, SeenTrue,
           ReportTrue

LEMMA ListRunsHolds == ASSUME EvidenceInv, Evidence!ListRuns PROVE EvidenceInv'
  <1>1. epc = "start" /\ UNCHANGED <<runs, tip, ehead, satisfied>> /\ RunsSound
        /\ estatus = "none" /\ seen = {}
    BY DEF EvidenceInv, ReportTrue, Evidence!ListRuns
  <1>2. CASE /\ epc' = "jobs"
             /\ queue' = Evidence!Listing(EvidenceLimit)
             /\ entries' = [i \in queue' |-> Evidence!Entry(i)]
             /\ seen' = {i \in queue' : Evidence!IsEvidence(i)}
             /\ UNCHANGED <<estatus, failed>>
    <2>1. queue' \subseteq DOMAIN runs /\ DOMAIN entries' = queue' /\ seen' \subseteq queue'
      BY <1>2 DEF Evidence!Listing
    <2>2. ASSUME NEW i \in queue'
          PROVE  /\ entries'[i] = Evidence!Entry(i) /\ entries'[i] \in EntryType
                 /\ EntryTrue(i)'
      <3>1. runs[i] \in Evidence!Runs /\ runs' = runs
        BY <1>1, <2>1 DEF RunsSound
      <3>2. entries'[i] = Evidence!Entry(i)
        BY <1>2
      <3>3. Evidence!Entry(i) \in EntryType
        BY <3>1 DEF Evidence!Runs, Evidence!Entry, EntryType, Evidence!Conclusions
      <3>4. /\ Evidence!Entry(i).sha = runs[i].sha /\ Evidence!Entry(i).status = runs[i].status
            /\ Evidence!Entry(i).conclusion = runs[i].conclusion
            /\ Evidence!Entry(i).job = "none" /\ Evidence!Entry(i).artifact = FALSE
        BY DEF Evidence!Entry
      <3>5. QED
        BY <3>1, <3>2, <3>3, <3>4 DEF EntryTrue
    <2>3. EntriesTrue'
      <3>1. entries' \in [DOMAIN entries' -> EntryType]
        BY <1>2, <2>1, <2>2
      <3>2. QED
        BY <2>1, <2>2, <3>1 DEF EntriesTrue
    <2>4. SeenTrue'
      BY <1>1, <1>2, <2>1, <2>2
         DEF SeenTrue, Evidence!IsEvidence, Evidence!Succeeded, Evidence!Entry
    <2>5. Evidence!TypeOK'
      <3>1. satisfied' = 0
        BY <1>1 DEF EvidenceInv, ReportTrue
      <3>2. QED
        BY <1>1, <1>2, <2>1, <3>1 DEF EvidenceInv, Evidence!TypeOK
    <2>6. RunsSound'
      BY <1>1 DEF RunsSound
    <2>7. ReportTrue'
      <3>1. satisfied' = 0 /\ estatus' = "none"
        BY <1>1, <1>2 DEF EvidenceInv, ReportTrue
      <3>2. QED
        BY <1>2, <3>1 DEF ReportTrue
    <2>8. QED
      BY <2>3, <2>4, <2>5, <2>6, <2>7 DEF EvidenceInv
  <1>3. CASE /\ epc' = "done" /\ estatus' = "missing" /\ failed' = TRUE
             /\ UNCHANGED <<queue, entries, seen>>
    BY <1>1, <1>3
       DEF EvidenceInv, Evidence!TypeOK, RunsSound, EntriesTrue, EntryTrue, SeenTrue, ReportTrue
  <1>4. QED
    BY <1>2, <1>3 DEF Evidence!ListRuns

LEMMA ReadJobsHolds == ASSUME EvidenceInv, Evidence!ReadJobs PROVE EvidenceInv'
  <1> DEFINE i == Evidence!Newest(queue)
             visible == Evidence!JobsShown(runs[i])
             job == IF visible THEN Evidence!JobConclusion(runs[i], SmokeProfile) ELSE "none"
  <1>1. /\ epc = "jobs" /\ queue # {} /\ epc' = "artifacts"
        /\ UNCHANGED <<runs, tip, ehead, queue, satisfied, estatus, seen>>
        /\ \/ entries' = [entries EXCEPT ![i].jobs = visible, ![i].job = job] /\ UNCHANGED failed
           \/ failed' = TRUE /\ UNCHANGED entries
    BY DEF Evidence!ReadJobs
  <1>2. i \in queue /\ queue \subseteq DOMAIN entries /\ DOMAIN entries \subseteq DOMAIN runs
        /\ seen \subseteq DOMAIN entries
    BY <1>1, NewestQueued DEF EvidenceInv, Evidence!TypeOK
  <1>3. runs[i] \in Evidence!Runs
    BY <1>2 DEF EvidenceInv, RunsSound
  <1>4. /\ job \in Evidence!Conclusions \cup {"skipped"} /\ visible \in BOOLEAN
        /\ job = "success" => runs[i].profile = SmokeProfile /\ runs[i].job = "success"
        /\ Evidence!IsEvidence(i) => job = "success"
    BY <1>3 DEF Evidence!Runs, Evidence!Conclusions, Evidence!JobsShown, Evidence!JobConclusion,
                Evidence!IsEvidence, Evidence!Succeeded
  <1>5. Evidence!Newest(queue)' = i
    BY <1>1 DEF Evidence!Newest
  <1> HIDE DEF i, visible, job
  <1>6. CASE failed' = TRUE /\ UNCHANGED entries
    <2>1. Evidence!TypeOK' /\ RunsSound' /\ EntriesTrue'
      BY <1>1, <1>6 DEF EvidenceInv, Evidence!TypeOK, RunsSound, EntriesTrue, EntryTrue
    <2>2. SeenTrue'
      BY <1>1, <1>6 DEF EvidenceInv, SeenTrue, Evidence!IsEvidence
    <2>3. ReportTrue'
      BY <1>1, <1>6 DEF EvidenceInv, ReportTrue
    <2>4. QED
      BY <2>1, <2>2, <2>3 DEF EvidenceInv
  <1>7. CASE entries' = [entries EXCEPT ![i].jobs = visible, ![i].job = job] /\ UNCHANGED failed
    <2>1. entries \in [DOMAIN entries -> EntryType]
      BY DEF EvidenceInv, EntriesTrue
    <2>2. /\ DOMAIN entries' = DOMAIN entries
          /\ entries' \in [DOMAIN entries' -> EntryType]
          /\ \A k \in DOMAIN entries : k # i => entries'[k] = entries[k]
          /\ entries'[i] = [entries[i] EXCEPT !.jobs = visible, !.job = job]
      <3>1. entries[i] \in EntryType
        BY <1>2, <2>1
      <3>2. [entries[i] EXCEPT !.jobs = visible, !.job = job] \in EntryType
        BY <1>4, <3>1 DEF EntryType
      <3>3. entries' = [entries EXCEPT ![i] = [entries[i] EXCEPT !.jobs = visible, !.job = job]]
        BY <1>7
      <3>4. QED
        BY <1>2, <2>1, <3>2, <3>3
    <2>3. /\ entries'[i].sha = entries[i].sha /\ entries'[i].status = entries[i].status
          /\ entries'[i].conclusion = entries[i].conclusion /\ entries'[i].job = job
          /\ entries'[i].artifact = entries[i].artifact
      BY <1>2, <2>1, <2>2 DEF EntryType
    <2>4. Evidence!TypeOK' /\ RunsSound'
      BY <1>1, <2>2 DEF EvidenceInv, Evidence!TypeOK, RunsSound
    <2>5. EntriesTrue'
      <3>1. ASSUME NEW k \in DOMAIN entries PROVE EntryTrue(k)'
        <4>1. EntryTrue(k)
          BY DEF EvidenceInv, EntriesTrue
        <4>2. CASE k = i
          BY <1>1, <1>4, <2>3, <4>1, <4>2 DEF EntryTrue
        <4>3. CASE k # i
          BY <1>1, <2>2, <4>1, <4>3 DEF EntryTrue
        <4>4. QED
          BY <4>2, <4>3
      <3>2. QED
        BY <2>2, <3>1 DEF EntriesTrue
    <2>6. SeenTrue'
      <3>1. ASSUME NEW k \in seen
            PROVE  /\ Evidence!IsEvidence(k)'
                   /\ entries'[k].status = "completed" /\ entries'[k].conclusion = "success"
                   /\ ~failed' => /\ k \notin queue' => entries'[k].job = "success" /\ entries'[k].artifact
                                  /\ k = i => entries'[k].job = "success"
        <4>1. /\ Evidence!IsEvidence(k)
              /\ entries[k].status = "completed" /\ entries[k].conclusion = "success"
              /\ ~failed => (k \notin queue => entries[k].job = "success" /\ entries[k].artifact)
          BY DEF EvidenceInv, SeenTrue
        <4>2. Evidence!IsEvidence(k)'
          BY <1>1, <4>1 DEF Evidence!IsEvidence
        <4>3. CASE k = i
          BY <1>1, <1>2, <1>4, <2>3, <4>1, <4>2, <4>3
        <4>4. CASE k # i
          BY <1>1, <1>2, <1>7, <2>2, <4>1, <4>2, <4>4
        <4>5. QED
          BY <4>3, <4>4
      <3>2. QED
        BY <1>1, <1>5, <3>1 DEF SeenTrue
    <2>7. ReportTrue'
      BY <1>1, <1>7 DEF EvidenceInv, ReportTrue
    <2>8. QED
      BY <2>4, <2>5, <2>6, <2>7 DEF EvidenceInv
  <1>8. QED
    BY <1>1, <1>6, <1>7

LEMMA ReadArtifactsHolds == ASSUME EvidenceInv, Evidence!ReadArtifacts PROVE EvidenceInv'
  <1> DEFINE i == Evidence!Newest(queue)
             found == runs[i].uploaded /\ runs[i].profile = SmokeProfile
  <1>1. /\ epc = "artifacts" /\ queue # {} /\ epc' = "jobs" /\ queue' = queue \ {i}
        /\ UNCHANGED <<runs, tip, ehead, satisfied, estatus, seen>>
        /\ \/ entries' = [entries EXCEPT ![i].artifact = found] /\ UNCHANGED failed
           \/ failed' = TRUE /\ UNCHANGED entries
    BY DEF EvidenceInv, ReportTrue, Evidence!ReadArtifacts
  <1>2. i \in queue /\ queue \subseteq DOMAIN entries /\ DOMAIN entries \subseteq DOMAIN runs
        /\ seen \subseteq DOMAIN entries
    BY <1>1, NewestQueued DEF EvidenceInv, Evidence!TypeOK
  <1>3. runs[i] \in Evidence!Runs
    BY <1>2 DEF EvidenceInv, RunsSound
  <1>4. /\ found \in BOOLEAN
        /\ found => runs[i].profile = SmokeProfile /\ runs[i].uploaded
        /\ Evidence!IsEvidence(i) => found
    BY <1>3 DEF Evidence!Runs, Evidence!IsEvidence, Evidence!Succeeded
  <1>5. i = Evidence!Newest(queue)
    OBVIOUS
  <1> HIDE DEF i, found
  <1>6. CASE failed' = TRUE /\ UNCHANGED entries
    <2>1. Evidence!TypeOK' /\ RunsSound' /\ EntriesTrue'
      BY <1>1, <1>6 DEF EvidenceInv, Evidence!TypeOK, RunsSound, EntriesTrue, EntryTrue
    <2>2. SeenTrue'
      BY <1>1, <1>6 DEF EvidenceInv, SeenTrue, Evidence!IsEvidence
    <2>3. ReportTrue'
      BY <1>1, <1>6 DEF EvidenceInv, ReportTrue
    <2>4. QED
      BY <2>1, <2>2, <2>3 DEF EvidenceInv
  <1>7. CASE entries' = [entries EXCEPT ![i].artifact = found] /\ UNCHANGED failed
    <2>1. entries \in [DOMAIN entries -> EntryType]
      BY DEF EvidenceInv, EntriesTrue
    <2>2. /\ DOMAIN entries' = DOMAIN entries
          /\ entries' \in [DOMAIN entries' -> EntryType]
          /\ \A k \in DOMAIN entries : k # i => entries'[k] = entries[k]
          /\ entries'[i] = [entries[i] EXCEPT !.artifact = found]
      <3>1. entries[i] \in EntryType
        BY <1>2, <2>1
      <3>2. [entries[i] EXCEPT !.artifact = found] \in EntryType
        BY <1>4, <3>1 DEF EntryType
      <3>3. entries' = [entries EXCEPT ![i] = [entries[i] EXCEPT !.artifact = found]]
        BY <1>7
      <3>4. QED
        BY <1>2, <2>1, <3>2, <3>3
    <2>3. /\ entries'[i].sha = entries[i].sha /\ entries'[i].status = entries[i].status
          /\ entries'[i].conclusion = entries[i].conclusion /\ entries'[i].job = entries[i].job
          /\ entries'[i].artifact = found
      BY <1>2, <2>1, <2>2 DEF EntryType
    <2>4. Evidence!TypeOK' /\ RunsSound'
      BY <1>1, <2>2 DEF EvidenceInv, Evidence!TypeOK, RunsSound
    <2>5. EntriesTrue'
      <3>1. ASSUME NEW k \in DOMAIN entries PROVE EntryTrue(k)'
        <4>1. EntryTrue(k)
          BY DEF EvidenceInv, EntriesTrue
        <4>2. CASE k = i
          BY <1>1, <1>4, <2>3, <4>1, <4>2 DEF EntryTrue
        <4>3. CASE k # i
          BY <1>1, <2>2, <4>1, <4>3 DEF EntryTrue
        <4>4. QED
          BY <4>2, <4>3
      <3>2. QED
        BY <2>2, <3>1 DEF EntriesTrue
    <2>6. SeenTrue'
      <3>1. ASSUME NEW k \in seen
            PROVE  /\ Evidence!IsEvidence(k)'
                   /\ entries'[k].status = "completed" /\ entries'[k].conclusion = "success"
                   /\ ~failed' => (k \notin queue' => entries'[k].job = "success" /\ entries'[k].artifact)
        <4>1. /\ Evidence!IsEvidence(k)
              /\ entries[k].status = "completed" /\ entries[k].conclusion = "success"
              /\ ~failed => /\ k \notin queue => entries[k].job = "success" /\ entries[k].artifact
                            /\ k = i => entries[k].job = "success"
          BY <1>1, <1>5 DEF EvidenceInv, SeenTrue
        <4>2. Evidence!IsEvidence(k)'
          BY <1>1, <4>1 DEF Evidence!IsEvidence
        <4>3. CASE k = i
          BY <1>1, <1>2, <1>4, <1>7, <2>3, <4>1, <4>2, <4>3
        <4>4. CASE k # i
          BY <1>1, <1>2, <1>7, <2>2, <4>1, <4>2, <4>4
        <4>5. QED
          BY <4>3, <4>4
      <3>2. QED
        BY <1>1, <3>1 DEF SeenTrue
    <2>7. ReportTrue'
      BY <1>1, <1>7 DEF EvidenceInv, ReportTrue
    <2>8. QED
      BY <2>4, <2>5, <2>6, <2>7 DEF EvidenceInv
  <1>8. QED
    BY <1>1, <1>6, <1>7

LEMMA CollectHolds == ASSUME EvidenceInv, Evidence!Collect PROVE EvidenceInv'
  <1> DEFINE good == {i \in DOMAIN entries : Evidence!Satisfies(entries[i])}
  <1>1. /\ epc = "jobs" /\ queue = {} /\ epc' = "done"
        /\ UNCHANGED <<runs, tip, ehead, entries, queue, seen, failed>>
        /\ \/ good = {} /\ estatus' = "missing" /\ UNCHANGED satisfied
           \/ good # {} /\ estatus' = "pass" /\ satisfied' = Evidence!Newest(good)
    BY DEF Evidence!Collect
  <1>2. good # {} => Evidence!Newest(good) \in good
    BY NewestQueued
  <1>3. good = {} /\ ~failed => seen = {}
    <2>1. ASSUME NEW i \in seen, ~failed PROVE i \in good
      <3>1. i \in DOMAIN entries /\ EntryTrue(i)
        BY DEF EvidenceInv, Evidence!TypeOK, EntriesTrue
      <3>2. /\ Evidence!IsEvidence(i)
            /\ entries[i].status = "completed" /\ entries[i].conclusion = "success"
            /\ entries[i].job = "success" /\ entries[i].artifact
        BY <1>1, <2>1 DEF EvidenceInv, SeenTrue
      <3>3. QED
        BY <3>1, <3>2 DEF EntryTrue, Evidence!Satisfies, Evidence!ClassifiedSmoke,
                          Evidence!IsEvidence, Evidence!Succeeded
    <2>2. QED
      BY <2>1
  <1>4. Evidence!TypeOK' /\ RunsSound' /\ EntriesTrue' /\ SeenTrue'
    <2>1. satisfied' \in {0} \cup DOMAIN entries'
      BY <1>1, <1>2 DEF EvidenceInv, Evidence!TypeOK
    <2>2. Evidence!TypeOK' /\ RunsSound'
      BY <1>1, <2>1 DEF EvidenceInv, Evidence!TypeOK, RunsSound
    <2>3. EntriesTrue' /\ SeenTrue'
      BY <1>1 DEF EvidenceInv, EntriesTrue, EntryTrue, SeenTrue, Evidence!IsEvidence
    <2>4. QED
      BY <2>2, <2>3
  <1>5. ReportTrue'
    <2>1. estatus' = "pass" => satisfied' \in DOMAIN entries
                               /\ Evidence!Satisfies(entries[satisfied'])
      BY <1>1, <1>2
    <2>2. Evidence!Satisfies(entries[satisfied])' <=> Evidence!Satisfies(entries[satisfied'])
      BY <1>1 DEF Evidence!Satisfies, Evidence!ClassifiedSmoke
    <2>3. QED
      BY <1>1, <1>3, <2>1, <2>2 DEF ReportTrue
  <1>6. QED
    BY <1>4, <1>5 DEF EvidenceInv

LEMMA EvidenceStays ==
  ASSUME EvidenceInv, [Evidence!Next]_(Evidence!vars)
  PROVE  EvidenceInv'
  <1>1. RunsSound /\ tip \in Commits
    BY DEF EvidenceInv, Evidence!TypeOK
  <1>2. CASE Evidence!EvidenceStep
    BY <1>2, ListRunsHolds, ReadJobsHolds, ReadArtifactsHolds, CollectHolds
       DEF Evidence!EvidenceStep
  <1>3. CASE Evidence!WorkflowStep /\ UNCHANGED Evidence!evars
    BY <1>1, <1>3, EvidenceHosted, EvidenceKnowledgeStays
  <1>4. CASE UNCHANGED Evidence!vars
    <2>1. runs' = runs /\ tip' = tip /\ UNCHANGED Evidence!evars
      BY <1>4 DEF Evidence!vars, Evidence!wvars
    <2>2. RunsSound' /\ Grows
      BY <1>1, <2>1 DEF RunsSound, Grows, Becomes
    <2>3. QED
      BY <1>1, <2>1, <2>2, EvidenceKnowledgeStays
  <1>5. QED
    BY <1>2, <1>3, <1>4 DEF Evidence!Next

\* An entry that is accepted is one of a run that is evidence.
LEMMA EvidenceInvTrue == ASSUME EvidenceInv PROVE Evidence!EvidenceTrue
  <1>1. Evidence!PassIsEvidence
    <2>1. ASSUME estatus = "pass" PROVE satisfied # 0 /\ Evidence!IsEvidence(satisfied)
      <3>1. satisfied \in DOMAIN entries /\ Evidence!Satisfies(entries[satisfied])
        BY <2>1 DEF EvidenceInv, ReportTrue
      <3>2. satisfied \in 1..Len(runs) /\ EntryTrue(satisfied) /\ Sound(runs[satisfied])
        BY <3>1 DEF EvidenceInv, Evidence!TypeOK, RunsSound, EntriesTrue
      <3>3. QED
        BY <3>1, <3>2 DEF Evidence!Satisfies, EntryTrue, Evidence!IsEvidence, Evidence!Succeeded
    <2>2. QED
      BY <2>1 DEF Evidence!PassIsEvidence
  <1>2. Evidence!EvidenceKept
    BY DEF EvidenceInv, ReportTrue, Evidence!EvidenceKept
  <1>3. QED
    BY <1>1, <1>2 DEF EvidenceInv, Evidence!EvidenceTrue

\* scripts/ci_remote_evidence.py: a passing report names a run that executed the smoke profile
\* on the expected head successfully and left its artifact, although runs, jobs and artifacts
\* are read by different calls while the runs go on; and when no call failed, a run that was
\* evidence when it was listed is not overlooked.
THEOREM TrueEvidence == MCSpec => []EvidenceIsTrue
  <1> DEFINE There == script = "evidence" => EvidenceInv
  <1>1. MCInit => There
    BY EvidenceInit DEF MCInit
  <1>2. There /\ [MCNext]_<<script, vars, runVars, dispatchVars, evidenceVars>> => There'
    <2> SUFFICES ASSUME There, script = "evidence",
                        [MCNext]_<<script, vars, runVars, dispatchVars, evidenceVars>>
                 PROVE  EvidenceInv'
      BY DEF MCNext
    <2>1. [Evidence!Next]_(Evidence!vars)
      BY DEF MCNext, Evidence!vars, Evidence!wvars, Evidence!evars, runVars, evidenceVars
    <2>2. QED
      BY <2>1, EvidenceStays
  <1>3. There => EvidenceIsTrue
    BY EvidenceInvTrue DEF EvidenceIsTrue
  <1>4. QED
    BY <1>1, <1>2, <1>3, PTL DEF MCSpec
=============================================================================
