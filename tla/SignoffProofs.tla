---------------------------- MODULE SignoffProofs ----------------------------
(***************************************************************************)
(* Proofs about what decides that the project is done: the release         *)
(* packager, for any number of concurrent runs, tags, trees and variants;  *)
(* the campaign with the completion audit, from the invariants of          *)
(* CampaignProofs; and the gap audit, for every order in which reports     *)
(* and files change.                                                       *)
(***************************************************************************)
EXTENDS MCSignoff, TLAPS

\* The archive a run has staged for v is of its tag, its commit and its input, and
\* passed the audit.
Staged(p, v) ==
  /\ temp[p][v] \in Archive
  /\ temp[p][v].tag = tag[p] /\ temp[p][v].commit = commit[p] /\ temp[p][v].rtl = input[p]
  /\ v \in sound[input[p]]

\* What a run knows by the part it is at.
RunOK(p) ==
  /\ pc[p] # "idle" => tag[p] \in Tags /\ link \in Trees
  /\ pc[p] \notin {"idle", "commit"} => commit[p] \in Trees /\ input[p] \in Trees
  /\ pc[p] \in {"idle", "commit"} => at[p] = 1
  /\ pc[p] = "stage" => \A v \in 1..Variants : v < at[p] => Staged(p, v)
  /\ pc[p] \in {"verify", "move", "sums"} => \A v \in 1..Variants : Staged(p, v)
  /\ pc[p] \in {"move", "sums"} => listed[p] = [tag |-> tag[p], of |-> temp[p]]

\* The checksums were computed of one run's archives.
SumsOfOneRun ==
  sums # NoSums =>
    \A v, w \in 1..Variants :
      /\ sums.of[v].tag = sums.tag
      /\ sums.of[v].commit = sums.of[w].commit /\ sums.of[v].rtl = sums.of[w].rtl

IInv == TypeOK /\ (\A p \in Procs : RunOK(p)) /\ SumsOfOneRun /\ ReleasedIsAudited

\* No archive is not an archive.
LEMMA NoArchiveIsNone == NoArchive \notin Archive
  BY ReleaseAssumption DEF NoArchive, Archive

LEMMA NoneTypes ==
  /\ NoTemp \in [1..Variants -> Archive \cup {NoArchive}]
  /\ NoSums \in [tag : Tags \cup {"none"}, of : [1..Variants -> Archive \cup {NoArchive}]]
  BY DEF NoTemp, NoSums

LEMMA InitHolds == ASSUME Init PROVE IInv
  <1>1. TypeOK
    <2>1. sound \in [Trees -> SUBSET (1..Variants)]
      BY ReleaseAssumption DEF Init
    <2>2. 1 \in 1..Variants /\ 0 \in 0..MaxRuns /\ 0 \in 0..MaxMoves
      BY ReleaseAssumption
    <2>3. QED
      BY <2>1, <2>2, NoneTypes DEF Init, TypeOK
  <1>2. \A p \in Procs : RunOK(p)
    BY DEF Init, RunOK
  <1>3. SumsOfOneRun
    BY DEF Init, SumsOfOneRun
  <1>4. ReleasedIsAudited
    BY DEF Init, ReleasedIsAudited, NoTemp
  <1>5. QED
    BY <1>1, <1>2, <1>3, <1>4 DEF IInv

\* What a step leaves of a run that is not the one that steps.
Untouched(q) ==
  /\ pc'[q] = pc[q] /\ at'[q] = at[q] /\ tag'[q] = tag[q] /\ commit'[q] = commit[q]
  /\ input'[q] = input[q] /\ temp'[q] = temp[q] /\ listed'[q] = listed[q]

LEMMA OthersKeep ==
  ASSUME NEW q, RunOK(q), Untouched(q), sound' = sound, link' = link \/ link' \in Trees
  PROVE  RunOK(q)'
  <1>1. ASSUME NEW v PROVE Staged(q, v)' = Staged(q, v)
    BY DEF Untouched, Staged
  <1>2. QED
    BY <1>1 DEF Untouched, RunOK

\* A run that ends leaves the others, and itself, in order.
LEMMA LeaveKeeps ==
  ASSUME IInv, NEW p \in Procs, Leave(p), UNCHANGED <<source, link, runs, moves>>,
         out' \in [Tags -> [1..Variants -> Archive \cup {NoArchive}]],
         sums' \in [tag : Tags \cup {"none"}, of : [1..Variants -> Archive \cup {NoArchive}]]
  PROVE  TypeOK' /\ \A q \in Procs : RunOK(q)'
  <1>1. 1 \in 1..Variants
    BY ReleaseAssumption
  <1>2. TypeOK'
    BY <1>1, NoneTypes DEF IInv, TypeOK, Leave, source
  <1>3. ASSUME NEW q \in Procs PROVE RunOK(q)'
    <2>1. CASE q = p
      <3>1. pc'[q] = "idle" /\ at'[q] = 1
        BY <2>1 DEF IInv, TypeOK, Leave
      <3>2. QED
        BY <3>1 DEF RunOK
    <2>2. CASE q # p
      <3>1. Untouched(q)
        BY <2>2 DEF IInv, TypeOK, Leave, Untouched
      <3>2. QED
        BY <3>1, OthersKeep DEF IInv, source
    <2>3. QED
      BY <2>1, <2>2
  <1>4. QED
    BY <1>2, <1>3

LEMMA FailHolds == ASSUME IInv, NEW p \in Procs, Fail(p) PROVE IInv'
  <1>1. UNCHANGED <<source, link, out, sums, runs, moves>> /\ Leave(p)
    BY DEF Fail
  <1>2. TypeOK' /\ \A q \in Procs : RunOK(q)'
    BY <1>1, LeaveKeeps DEF IInv, TypeOK
  <1>3. SumsOfOneRun' /\ ReleasedIsAudited'
    BY <1>1 DEF IInv, SumsOfOneRun, ReleasedIsAudited, source
  <1>4. QED
    BY <1>2, <1>3 DEF IInv

LEMMA BeginHolds == ASSUME IInv, NEW p \in Procs, NEW t \in Tags, Begin(p, t) PROVE IInv'
  <1>1. link' \in Trees
    BY DEF Begin, IInv, TypeOK
  <1>2. TypeOK'
    <2>1. runs' \in 0..MaxRuns
      BY ReleaseAssumption DEF Begin, IInv, TypeOK
    <2>2. QED
      BY <1>1, <2>1 DEF Begin, IInv, TypeOK, source
  <1>3. ASSUME NEW q \in Procs PROVE RunOK(q)'
    <2>1. CASE q = p
      <3>1. pc'[q] = "commit" /\ tag'[q] = t /\ at'[q] = 1
        BY <2>1 DEF IInv, TypeOK, RunOK, Begin
      <3>2. QED
        BY <1>1, <3>1 DEF RunOK
    <2>2. CASE q # p
      <3>1. Untouched(q)
        BY <2>2 DEF IInv, TypeOK, Begin, Untouched
      <3>2. QED
        BY <1>1, <3>1, OthersKeep DEF IInv, Begin, source
    <2>3. QED
      BY <2>1, <2>2
  <1>4. SumsOfOneRun' /\ ReleasedIsAudited'
    BY DEF IInv, Begin, SumsOfOneRun, ReleasedIsAudited, source
  <1>5. QED
    BY <1>2, <1>3, <1>4 DEF IInv

LEMMA ReadCommitHolds == ASSUME IInv, NEW p \in Procs, ReadCommit(p) PROVE IInv'
  <1>1. head \in Trees /\ link \in Trees
    BY DEF ReadCommit, IInv, TypeOK, RunOK
  <1>2. TypeOK'
    BY <1>1 DEF ReadCommit, IInv, TypeOK, source
  <1>3. ASSUME NEW q \in Procs PROVE RunOK(q)'
    <2>1. CASE q = p
      <3>1. pc'[q] = "stage" /\ commit'[q] \in Trees /\ input'[q] \in Trees /\ tag'[q] = tag[q]
            /\ at'[q] = at[q] /\ link' = link
        BY <1>1, <2>1 DEF IInv, TypeOK, ReadCommit
      <3>2. at[q] = 1 /\ tag[q] \in Tags
        BY <2>1 DEF IInv, RunOK, ReadCommit
      <3>3. QED
        BY <1>1, <3>1, <3>2, ReleaseAssumption DEF RunOK
    <2>2. CASE q # p
      <3>1. Untouched(q)
        BY <2>2 DEF IInv, TypeOK, ReadCommit, Untouched
      <3>2. QED
        BY <3>1, OthersKeep DEF IInv, ReadCommit, source
    <2>3. QED
      BY <2>1, <2>2
  <1>4. SumsOfOneRun' /\ ReleasedIsAudited'
    BY DEF IInv, ReadCommit, SumsOfOneRun, ReleasedIsAudited, source
  <1>5. QED
    BY <1>2, <1>3, <1>4 DEF IInv

\* Advance goes on to the next variant or, behind the last, to the next part.
LEMMA AdvanceMoves ==
  ASSUME TypeOK, NEW p \in Procs, NEW next \in {"verify", "move", "sums"}, Advance(p, next)
  PROVE  /\ at' \in [Procs -> 1..Variants]
         /\ pc' \in [Procs -> {"idle", "commit", "stage", "verify", "move", "sums"}]
         /\ \A q \in Procs \ {p} : pc'[q] = pc[q] /\ at'[q] = at[q]
         /\ \/ at[p] < Variants /\ at'[p] = at[p] + 1 /\ pc'[p] = pc[p]
            \/ at[p] = Variants /\ at'[p] = 1 /\ pc'[p] = next
  <1>1. at[p] \in 1..Variants /\ 1 \in 1..Variants
    BY ReleaseAssumption DEF TypeOK
  <1>2. CASE at[p] < Variants
    <2>1. at[p] + 1 \in 1..Variants
      BY <1>1, <1>2, ReleaseAssumption
    <2>2. QED
      BY <1>2, <2>1 DEF Advance, TypeOK
  <1>3. CASE ~(at[p] < Variants)
    <2>1. at[p] = Variants
      BY <1>1, <1>3, ReleaseAssumption
    <2>2. QED
      BY <1>1, <1>3, <2>1 DEF Advance, TypeOK
  <1>4. QED
    BY <1>2, <1>3

LEMMA StageHolds == ASSUME IInv, NEW p \in Procs, Stage(p) PROVE IInv'
  <1> DEFINE a == [tag |-> tag[p], commit |-> commit[p], rtl |-> input[p], extra |-> tree]
  <1>1. at[p] \in 1..Variants /\ a \in Archive
    BY DEF Stage, IInv, TypeOK, RunOK, Archive
  <1>2. temp' = [temp EXCEPT ![p][at[p]] = a]
    BY DEF Stage
  <1>3. /\ temp' \in [Procs -> [1..Variants -> Archive \cup {NoArchive}]]
        /\ temp'[p] = [temp[p] EXCEPT ![at[p]] = a]
        /\ \A q \in Procs \ {p} : temp'[q] = temp[q]
    BY <1>1, <1>2 DEF IInv, TypeOK
  <1>4. /\ at' \in [Procs -> 1..Variants]
        /\ pc' \in [Procs -> {"idle", "commit", "stage", "verify", "move", "sums"}]
        /\ \A q \in Procs \ {p} : pc'[q] = pc[q] /\ at'[q] = at[q]
        /\ \/ at[p] < Variants /\ at'[p] = at[p] + 1 /\ pc'[p] = "stage"
           \/ at[p] = Variants /\ at'[p] = 1 /\ pc'[p] = "verify"
    BY AdvanceMoves DEF Stage, IInv
  <1>5. TypeOK'
    BY <1>3, <1>4 DEF Stage, IInv, TypeOK, source
  <1>6. RunOK(p)'
    <2>1. /\ tag' = tag /\ commit' = commit /\ input' = input /\ link' = link /\ sound' = sound
          /\ pc[p] = "stage" /\ at[p] \in sound[input[p]]
      BY DEF Stage, source
    <2>2. ASSUME NEW v \in 1..Variants, v < at[p] \/ v = at[p] PROVE Staged(p, v)'
      <3>1. CASE v = at[p]
        <4>1. temp'[p][v] = a
          BY <1>3, <3>1, <1>1 DEF IInv, TypeOK
        <4>2. QED
          BY <1>1, <2>1, <3>1, <4>1 DEF Staged
      <3>2. CASE v # at[p]
        <4>1. temp'[p][v] = temp[p][v] /\ v < at[p]
          BY <1>3, <3>2, <2>2 DEF IInv, TypeOK
        <4>2. Staged(p, v)
          BY <2>1, <4>1 DEF IInv, RunOK
        <4>3. QED
          BY <2>1, <4>1, <4>2 DEF Staged
      <3>3. QED
        BY <3>1, <3>2
    <2>3. tag[p] \in Tags /\ link \in Trees /\ commit[p] \in Trees /\ input[p] \in Trees
      BY <2>1 DEF IInv, RunOK
    <2>4. CASE at[p] < Variants /\ at'[p] = at[p] + 1 /\ pc'[p] = "stage"
      <3>1. \A v \in 1..Variants : v < at'[p] => v < at[p] \/ v = at[p]
        BY <1>1, <2>4
      <3>2. \A v \in 1..Variants : v < at'[p] => Staged(p, v)'
        BY <2>2, <3>1
      <3>3. QED
        BY <2>1, <2>3, <2>4, <3>2 DEF RunOK
    <2>5. CASE at[p] = Variants /\ at'[p] = 1 /\ pc'[p] = "verify"
      <3>1. \A v \in 1..Variants : v < at[p] \/ v = at[p]
        BY <1>1, <2>5
      <3>2. \A v \in 1..Variants : Staged(p, v)'
        BY <2>2, <3>1
      <3>3. QED
        BY <2>1, <2>3, <2>5, <3>2 DEF RunOK
    <2>6. QED
      BY <1>4, <2>4, <2>5
  <1>7. ASSUME NEW q \in Procs \ {p} PROVE RunOK(q)'
    <2>1. Untouched(q)
      BY <1>3, <1>4 DEF Stage, Untouched
    <2>2. QED
      BY <2>1, OthersKeep DEF IInv, Stage, source
  <1>8. SumsOfOneRun' /\ ReleasedIsAudited'
    BY DEF IInv, Stage, SumsOfOneRun, ReleasedIsAudited, source
  <1>9. QED
    BY <1>5, <1>6, <1>7, <1>8 DEF IInv

LEMMA VerifyHolds == ASSUME IInv, NEW p \in Procs, Verify(p) PROVE IInv'
  <1> DEFINE l == [tag |-> tag[p], of |-> temp[p]]
  <1>1. /\ at' \in [Procs -> 1..Variants]
        /\ pc' \in [Procs -> {"idle", "commit", "stage", "verify", "move", "sums"}]
        /\ \A q \in Procs \ {p} : pc'[q] = pc[q] /\ at'[q] = at[q]
        /\ \/ at[p] < Variants /\ at'[p] = at[p] + 1 /\ pc'[p] = "verify"
           \/ at[p] = Variants /\ at'[p] = 1 /\ pc'[p] = "move"
    BY AdvanceMoves DEF Verify, IInv
  <1>2. at[p] \in Int /\ Variants \in Int
    BY ReleaseAssumption DEF IInv, TypeOK
  <1>3. l \in [tag : Tags \cup {"none"}, of : [1..Variants -> Archive \cup {NoArchive}]]
    BY DEF IInv, TypeOK
  <1>4. /\ TypeOK'
        /\ \A q \in Procs \ {p} : listed'[q] = listed[q]
        /\ at[p] = Variants => listed'[p] = l
    BY <1>1, <1>2, <1>3 DEF Verify, IInv, TypeOK, source
  <1>5. RunOK(p)'
    <2>1. /\ tag' = tag /\ commit' = commit /\ input' = input /\ temp' = temp
          /\ link' = link /\ sound' = sound /\ pc[p] = "verify"
      BY DEF Verify, source
    <2>2. \A v \in 1..Variants : Staged(p, v)
      BY <2>1 DEF IInv, RunOK
    <2>3. \A v \in 1..Variants : Staged(p, v)'
      BY <2>1, <2>2 DEF Staged
    <2>4. tag[p] \in Tags /\ link \in Trees /\ commit[p] \in Trees /\ input[p] \in Trees
      BY <2>1 DEF IInv, RunOK
    <2>5. QED
      BY <1>1, <1>4, <2>1, <2>3, <2>4 DEF RunOK
  <1>6. ASSUME NEW q \in Procs \ {p} PROVE RunOK(q)'
    <2>1. Untouched(q)
      BY <1>1, <1>4 DEF Verify, Untouched
    <2>2. QED
      BY <2>1, OthersKeep DEF IInv, Verify, source
  <1>7. SumsOfOneRun' /\ ReleasedIsAudited'
    BY DEF IInv, Verify, SumsOfOneRun, ReleasedIsAudited, source
  <1>8. QED
    BY <1>4, <1>5, <1>6, <1>7 DEF IInv

LEMMA MoveHolds == ASSUME IInv, NEW p \in Procs, Move(p) PROVE IInv'
  <1>1. /\ at' \in [Procs -> 1..Variants]
        /\ pc' \in [Procs -> {"idle", "commit", "stage", "verify", "move", "sums"}]
        /\ \A q \in Procs \ {p} : pc'[q] = pc[q] /\ at'[q] = at[q]
        /\ \/ at[p] < Variants /\ at'[p] = at[p] + 1 /\ pc'[p] = "move"
           \/ at[p] = Variants /\ at'[p] = 1 /\ pc'[p] = "sums"
    BY AdvanceMoves DEF Move, IInv
  <1>2. /\ tag' = tag /\ commit' = commit /\ input' = input /\ temp' = temp /\ listed' = listed
        /\ link' = link /\ sound' = sound /\ pc[p] = "move" /\ sums' = sums
    BY DEF Move, source
  <1>3. /\ tag[p] \in Tags /\ link \in Trees /\ commit[p] \in Trees /\ input[p] \in Trees
        /\ listed[p] = [tag |-> tag[p], of |-> temp[p]]
        /\ \A v \in 1..Variants : Staged(p, v)
    BY <1>2 DEF IInv, RunOK
  <1>4. at[p] \in 1..Variants
    BY DEF IInv, TypeOK
  <1>5. temp[p][at[p]] \in Archive /\ at[p] \in sound[temp[p][at[p]].rtl]
    BY <1>3, <1>4 DEF Staged
  <1>6. out' = [out EXCEPT ![tag[p]][at[p]] = temp[p][at[p]]]
    BY DEF Move
  <1>7. /\ out' \in [Tags -> [1..Variants -> Archive \cup {NoArchive}]]
        /\ \A t \in Tags, v \in 1..Variants :
             out'[t][v] = IF t = tag[p] /\ v = at[p] THEN temp[p][at[p]] ELSE out[t][v]
    BY <1>3, <1>4, <1>5, <1>6 DEF IInv, TypeOK
  <1>8. TypeOK'
    BY <1>1, <1>7 DEF Move, IInv, TypeOK, source
  <1>9. RunOK(p)'
    <2>1. \A v \in 1..Variants : Staged(p, v)'
      BY <1>2, <1>3 DEF Staged
    <2>2. QED
      BY <1>1, <1>2, <1>3, <2>1 DEF RunOK
  <1>10. ASSUME NEW q \in Procs \ {p} PROVE RunOK(q)'
    <2>1. Untouched(q)
      BY <1>1, <1>2 DEF Untouched
    <2>2. QED
      BY <1>2, <2>1, OthersKeep DEF IInv
  <1>11. SumsOfOneRun'
    BY <1>2 DEF IInv, SumsOfOneRun
  <1>12. ReleasedIsAudited'
    BY <1>2, <1>5, <1>7 DEF IInv, ReleasedIsAudited
  <1>13. QED
    BY <1>8, <1>9, <1>10, <1>11, <1>12 DEF IInv

LEMMA MoveSumsHolds == ASSUME IInv, NEW p \in Procs, MoveSums(p) PROVE IInv'
  <1>1. /\ UNCHANGED <<source, link, out, runs, moves>> /\ Leave(p) /\ pc[p] = "sums"
        /\ sums' = listed[p]
    BY DEF MoveSums
  <1>2. listed[p] = [tag |-> tag[p], of |-> temp[p]] /\ \A v \in 1..Variants : Staged(p, v)
    BY <1>1 DEF IInv, RunOK
  <1>3. sums' \in [tag : Tags \cup {"none"}, of : [1..Variants -> Archive \cup {NoArchive}]]
    BY <1>1 DEF IInv, TypeOK
  <1>4. TypeOK' /\ \A q \in Procs : RunOK(q)'
    BY <1>1, <1>3, LeaveKeeps DEF IInv, TypeOK
  <1>5. SumsOfOneRun'
    BY <1>1, <1>2 DEF SumsOfOneRun, Staged
  <1>6. ReleasedIsAudited'
    BY <1>1 DEF IInv, ReleasedIsAudited, source
  <1>7. QED
    BY <1>4, <1>5, <1>6 DEF IInv

LEMMA DeveloperHolds == ASSUME IInv, Developer PROVE IInv'
  <1>1. /\ tree' \in Trees /\ head' \in Trees /\ moves' \in 0..MaxMoves
        /\ UNCHANGED <<sound, link, out, sums, run, runs>>
    BY ReleaseAssumption DEF Developer, IInv, TypeOK
  <1>2. TypeOK'
    BY <1>1 DEF IInv, TypeOK, run
  <1>3. ASSUME NEW q \in Procs PROVE RunOK(q)'
    BY <1>1, OthersKeep DEF IInv, Untouched, run
  <1>4. SumsOfOneRun' /\ ReleasedIsAudited'
    BY <1>1 DEF IInv, SumsOfOneRun, ReleasedIsAudited
  <1>5. QED
    BY <1>2, <1>3, <1>4 DEF IInv

LEMMA StepHolds == ASSUME IInv, [Next]_vars PROVE IInv'
  <1>1. ASSUME NEW p \in Procs, ReleaseStep(p) PROVE IInv'
    <2>1. ASSUME NEW t \in Tags, Begin(p, t) PROVE IInv'
      BY <2>1, BeginHolds
    <2>2. CASE ReadCommit(p)
      BY <2>2, ReadCommitHolds
    <2>3. CASE CommitFails(p) \/ AuditFails(p) \/ VerifyFails(p)
      BY <2>3, FailHolds DEF CommitFails, AuditFails, VerifyFails
    <2>4. CASE Kill(p)
      BY <2>4, FailHolds DEF Kill, Fail
    <2>5. CASE Stage(p)
      BY <2>5, StageHolds
    <2>6. CASE Verify(p)
      BY <2>6, VerifyHolds
    <2>7. CASE Move(p)
      BY <2>7, MoveHolds
    <2>8. CASE MoveSums(p)
      BY <2>8, MoveSumsHolds
    <2>9. QED
      BY <1>1, <2>1, <2>2, <2>3, <2>4, <2>5, <2>6, <2>7, <2>8 DEF ReleaseStep
  <1>2. CASE UNCHANGED vars
    <2>1. UNCHANGED <<source, link, out, sums, run, runs, moves>>
      BY <1>2 DEF vars
    <2>2. TypeOK'
      BY <2>1 DEF IInv, TypeOK, source, run
    <2>3. ASSUME NEW q \in Procs PROVE RunOK(q)'
      BY <2>1, OthersKeep DEF IInv, Untouched, run, source
    <2>4. SumsOfOneRun' /\ ReleasedIsAudited'
      BY <2>1 DEF IInv, SumsOfOneRun, ReleasedIsAudited, source
    <2>5. QED
      BY <2>2, <2>3, <2>4 DEF IInv
  <1>3. QED
    BY <1>1, <1>2, DeveloperHolds DEF Next

LEMMA InvariantHolds == Spec => []IInv
  <1>1. Init => IInv
    BY InitHolds
  <1>2. IInv /\ [Next]_vars => IInv'
    BY StepHolds
  <1>3. QED
    BY <1>1, <1>2, PTL DEF Spec

\* The repository, the release directory and the runs stay within their types.
THEOREM TypeCorrect == Spec => []TypeOK
  <1>1. IInv => TypeOK
    BY DEF IInv
  <1>2. QED
    BY <1>1, InvariantHolds, PTL

\* sha256sum -c vouches for one run: however many runs move their archives at once, and
\* wherever they are killed, checksums that match name one tag, one commit and one build.
THEOREM ChecksumsVouch == Spec => []SumsVouchForOneRun
  <1>1. IInv => SumsVouchForOneRun
    BY DEF IInv, SumsOfOneRun, SumsVouchForOneRun, SumsVerify
  <1>2. QED
    BY <1>1, InvariantHolds, PTL

\* Every archive ever released passed the audit of the tree its RTL is of.
THEOREM ReleasesAudited == Spec => []ReleasedIsAudited
  <1>1. IInv => ReleasedIsAudited
    BY DEF IInv
  <1>2. QED
    BY <1>1, InvariantHolds, PTL

\* A step of one run moves the control of no other.
LEMMA OneRunMoves ==
  ASSUME TypeOK, NEW p \in Procs, ReleaseStep(p)
  PROVE  \A q \in Procs \ {p} : pc'[q] = pc[q]
  <1>1. \A t \in Tags : Begin(p, t) => \A q \in Procs \ {p} : pc'[q] = pc[q]
    BY DEF Begin, TypeOK
  <1>2. ReadCommit(p) => \A q \in Procs \ {p} : pc'[q] = pc[q]
    BY DEF ReadCommit, TypeOK
  <1>3. Leave(p) => \A q \in Procs \ {p} : pc'[q] = pc[q]
    BY DEF Leave, TypeOK
  <1>4. Stage(p) \/ Verify(p) \/ Move(p) => \A q \in Procs \ {p} : pc'[q] = pc[q]
    BY AdvanceMoves DEF Stage, Verify, Move
  <1>5. QED
    BY <1>1, <1>2, <1>3, <1>4
       DEF ReleaseStep, CommitFails, AuditFails, VerifyFails, Fail, MoveSums, Kill

\* A run that has not begun to move its archives leaves the release directory as it is,
\* whether it fails, is killed or goes on.
THEOREM FailuresPreserve == Spec => FailedRunPreserves
  <1> DEFINE Preserves == \A p \in Procs :
               pc[p] \in {"commit", "stage", "verify"} /\ pc'[p] # pc[p] =>
                 UNCHANGED <<out, sums>>
  <1>1. ASSUME IInv, Next PROVE Preserves
    <2>1. SUFFICES ASSUME NEW p \in Procs,
                          pc[p] \in {"commit", "stage", "verify"}, pc'[p] # pc[p]
                   PROVE  UNCHANGED <<out, sums>>
      OBVIOUS
    <2>2. ASSUME NEW q \in Procs, ReleaseStep(q) PROVE UNCHANGED <<out, sums>>
      <3>1. q = p
        BY <1>1, <2>1, <2>2, OneRunMoves DEF IInv
      <3>2. ~Move(q) /\ ~MoveSums(q)
        BY <2>1, <3>1 DEF Move, MoveSums
      <3>3. QED
        BY <2>2, <3>2
           DEF ReleaseStep, Begin, ReadCommit, CommitFails, AuditFails, VerifyFails, Fail, Stage,
               Verify, Kill
    <2>3. CASE Developer
      BY <2>3 DEF Developer
    <2>4. QED
      BY <1>1, <2>2, <2>3 DEF Next
  <1>2. IInv /\ [Next]_vars => [Preserves]_vars
    BY <1>1
  <1>3. QED
    BY <1>2, InvariantHolds, PTL DEF FailedRunPreserves, Preserves, Spec

\* Archives, checksums and manifests belong together and were audited, and a run that fails
\* has not touched them.
THEOREM SafeRelease == Spec => ReleaseSafe
  <1>1. Spec => [](TypeOK /\ SumsVouchForOneRun /\ ReleasedIsAudited)
    BY TypeCorrect, ChecksumsVouch, ReleasesAudited, PTL
  <1>2. QED
    BY <1>1, FailuresPreserve DEF ReleaseSafe
-----------------------------------------------------------------------------
\* The campaign and the completion audit, with what is proved of them alone.
CampaignFacts == INSTANCE CampaignProofs WITH
  MaxRuns <- CampaignRuns, MaxMoves <- CampaignMoves,
  tree <- ctree, head <- chead, at <- cat, runs <- cruns, moves <- cmoves

\* What is known while campaigns and audits are at work.
CampaignHolds == script = "campaign" => CampaignFacts!IInv /\ CampaignFacts!QuietInv

\* The invariants of the campaign and of a quiet developer, where a campaign is what happens.
LEMMA CampaignInit == MCInit => CampaignHolds
  <1>1. ASSUME MCInit, script = "campaign" PROVE CampaignFacts!Init
    BY <1>1 DEF MCInit, Campaigns!Init, CampaignFacts!Init, Campaigns!NoGit, CampaignFacts!NoGit,
       Campaigns!NoReport, CampaignFacts!NoReport, Campaigns!NoCopy, CampaignFacts!NoCopy,
       Campaigns!NoEvidence, CampaignFacts!NoEvidence, Campaigns!Steps, CampaignFacts!Steps
  <1>2. CampaignFacts!CampaignConstants
    BY SignoffConstants DEF Campaigns!CampaignConstants, CampaignFacts!CampaignConstants
  <1>3. QED
    BY <1>1, <1>2, CampaignFacts!InitHolds, CampaignFacts!QuietInit DEF CampaignHolds

\* The campaign is the same under both instances.
LEMMA SameNext == Campaigns!Next <=> CampaignFacts!Next
  BY SMT
      DEF Campaigns!NoGit, CampaignFacts!NoGit, Campaigns!NoReport, CampaignFacts!NoReport,
          Campaigns!NoEvidence, CampaignFacts!NoEvidence, Campaigns!NoCopy,
          CampaignFacts!NoCopy, Campaigns!Exit, CampaignFacts!Exit, Campaigns!Begin,
          CampaignFacts!Begin, Campaigns!ReadHead, CampaignFacts!ReadHead,
          Campaigns!ReadStatus, CampaignFacts!ReadStatus, Campaigns!Subject,
          CampaignFacts!Subject, Campaigns!RunStep, CampaignFacts!RunStep, Campaigns!EndOf,
          CampaignFacts!EndOf, Campaigns!WriteReport, CampaignFacts!WriteReport,
          Campaigns!Kill, CampaignFacts!Kill, Campaigns!BeginAudit, CampaignFacts!BeginAudit,
          Campaigns!Evidence, CampaignFacts!Evidence, Campaigns!ReadReports,
          CampaignFacts!ReadReports, Campaigns!ReadAuditHead, CampaignFacts!ReadAuditHead,
          Campaigns!SignoffFresh, CampaignFacts!SignoffFresh, Campaigns!CiCurrent,
          CampaignFacts!CiCurrent, Campaigns!WriteVerdict, CampaignFacts!WriteVerdict,
          Campaigns!Developer, CampaignFacts!Developer, Campaigns!CampaignStep,
          CampaignFacts!CampaignStep, Campaigns!AuditStep, CampaignFacts!AuditStep,
          Campaigns!Next, CampaignFacts!Next, Campaigns!repo, CampaignFacts!repo,
          Campaigns!campaign, CampaignFacts!campaign, Campaigns!audit, CampaignFacts!audit,
          Campaigns!Steps, CampaignFacts!Steps, Campaigns!Profiles, CampaignFacts!Profiles

LEMMA SameVars == Campaigns!vars = CampaignFacts!vars
  BY DEF Campaigns!vars, CampaignFacts!vars, Campaigns!repo, CampaignFacts!repo,
         Campaigns!campaign, CampaignFacts!campaign, Campaigns!audit, CampaignFacts!audit

LEMMA CampaignStep ==
  ASSUME Quiet, CampaignHolds, [MCNext]_<<script, vars, campaignVars, gapVars>>
  PROVE  CampaignHolds'
  <1>1. SUFFICES ASSUME script' = "campaign"
                 PROVE  CampaignFacts!IInv' /\ CampaignFacts!QuietInv'
    BY DEF CampaignHolds
  <1>2. script = "campaign" /\ CampaignFacts!IInv /\ CampaignFacts!QuietInv
    BY <1>1 DEF MCNext, CampaignHolds
  <1>3. [CampaignFacts!Next]_CampaignFacts!vars
    <2>1. CASE MCNext
      BY <1>2, <2>1, SameNext DEF MCNext
    <2>2. CASE UNCHANGED <<script, vars, campaignVars, gapVars>>
      BY <2>2 DEF campaignVars, CampaignFacts!vars, CampaignFacts!repo, CampaignFacts!campaign,
                  CampaignFacts!audit
    <2>3. QED
      BY <2>1, <2>2
  <1>4. CampaignFacts!CampaignConstants
    BY SignoffConstants DEF Campaigns!CampaignConstants, CampaignFacts!CampaignConstants
  <1>5. QED
    BY <1>2, <1>3, <1>4, CampaignFacts!StepHolds, CampaignFacts!QuietStep

\* A passing signoff report covers its profile, and while campaigns and audits are left
\* alone, what is called complete is the commit checked out, clean, with every step passing.
THEOREM EarnedSignoff == ASSUME Quiet PROVE MCSpec => SignoffEarned
  <1> DEFINE Safe == script = "campaign" => Campaigns!TypeOK /\ Campaigns!PassCoversProfile
             True == apc = "status" /\ verdict' = "complete" /\ apc' = "idle" =>
               /\ ctree = chead /\ \A k \in Campaigns!Steps : chead \in good[k]
               /\ copy.ci.run = chead
  <1>1. CampaignHolds => Safe
    BY SMT DEF CampaignHolds, CampaignFacts!IInv, CampaignFacts!TypeOK, Campaigns!TypeOK,
           CampaignFacts!PassCoversProfile, Campaigns!PassCoversProfile,
           CampaignFacts!Steps, Campaigns!Steps, CampaignFacts!Profiles, Campaigns!Profiles,
           CampaignFacts!EndOf, Campaigns!EndOf
  <1>2. CampaignHolds /\ [MCNext]_<<script, vars, campaignVars, gapVars>> => [True]_(Campaigns!vars)
    <2>1. SUFFICES ASSUME CampaignHolds, MCNext, Campaigns!vars' # Campaigns!vars,
                          apc = "status", verdict' = "complete", apc' = "idle"
                   PROVE  /\ ctree = chead /\ \A k \in Campaigns!Steps : chead \in good[k]
                          /\ copy.ci.run = chead
      BY DEF campaignVars, Campaigns!vars, Campaigns!repo, Campaigns!campaign, Campaigns!audit
    <2>2. script = "campaign" /\ Campaigns!Next
      BY <2>1 DEF MCNext, campaignVars, Campaigns!vars, Campaigns!repo, Campaigns!campaign,
                  Campaigns!audit
    <2>3. CampaignFacts!Next /\ CampaignFacts!IInv /\ CampaignFacts!QuietInv
      BY <2>1, <2>2, SameNext DEF CampaignHolds
    <2>4. QED
      BY <2>1, <2>3, CampaignFacts!CompleteEarned DEF CampaignFacts!Steps, Campaigns!Steps
  <1> HIDE DEF Safe
  <1>3. MCSpec => []CampaignHolds
    BY CampaignInit, CampaignStep, PTL DEF MCSpec
  <1>4. QED
    BY <1>1, <1>2, <1>3, PTL DEF MCSpec, SignoffEarned, Campaigns!CompleteIsTrue, Safe
-----------------------------------------------------------------------------
\* The gap audit.  Where every producer that can leave g can leave f, and leaves f only
\* together with g, the reports hold f only together with g.
LEMMA ProducersKeep ==
  ASSUME NEW Ps, NEW F, NEW f, NEW g, f \in F => g \in F,
         \A q \in Ps : \A s \in q : f \in s => g \in s,
         \A q \in Ps : g \in UNION q => f \in UNION q,
         NEW p \in Ps, NEW r \in p
  PROVE  f \in (F \ UNION p) \cup r => g \in (F \ UNION p) \cup r
  OBVIOUS

\* What the reports of the simulators, of RISCV-DV and of the formal suite hold only together.
Implied(f, g) == f \in facts => g \in facts
IssTogether ==
  /\ Implied("sail_matrix_complete", "sail_matrix")
  /\ Implied("spike_highmem_complete", "spike_highmem")
  /\ Implied("sail_highmem_complete", "sail_highmem")
DvTogether ==
  /\ Implied("riscv_dv_in_devshell", "tool_audit")
  /\ Implied("dv_pass", "dv_clean") /\ Implied("dv_pass", "dv_trace")
RvfiTogether ==
  /\ Implied("symbiyosys_available", "tool_audit") /\ Implied("rvfi_pass", "rvfi_report")

GapsHold ==
  script = "gaps" =>
    /\ gap \in AuditedGaps /\ facts \subseteq Gaps!Produced(gap)
    /\ gap = "external_iss" => IssTogether
    /\ gap = "riscv_dv" => DvTogether
    /\ gap = "rvfi_riscv_formal" => RvfiTogether

LEMMA GapNames ==
  DOMAIN Gaps!Rules = {"external_iss", "riscv_dv", "rvfi_riscv_formal", "full_axi4",
                       "ci_regression", "certified_benchmarks", "compliance_signature_gate"}
  BY DEF Gaps!Rules

\* The rules of each gap.
LEMMA RulesOf ==
  /\ Gaps!Rules["external_iss"] = Gaps!ExternalIss
  /\ Gaps!Rules["riscv_dv"] = Gaps!RiscvDv
  /\ Gaps!Rules["rvfi_riscv_formal"] = Gaps!RvfiRiscvFormal
  /\ Gaps!Rules["full_axi4"] = Gaps!FullAxi4
  /\ Gaps!Rules["ci_regression"] = Gaps!CiRegression
  /\ Gaps!Rules["certified_benchmarks"] = Gaps!CertifiedBenchmarks
  /\ Gaps!Rules["compliance_signature_gate"] = Gaps!Compliance
  BY DEF Gaps!Rules

LEMMA IssProducers ==
  ASSUME NEW f, NEW g,
         <<f, g>> \in {<<"sail_matrix_complete", "sail_matrix">>,
                       <<"spike_highmem_complete", "spike_highmem">>,
                       <<"sail_highmem_complete", "sail_highmem">>}
  PROVE  /\ \A q \in Gaps!ExternalIssProducers : \A s \in q : f \in s => g \in s
         /\ \A q \in Gaps!ExternalIssProducers : g \in UNION q => f \in UNION q
  BY DEF Gaps!ExternalIssProducers, Gaps!Tools, Gaps!Flag

DvProducers ==
  {Gaps!Tools({"riscv_dv_available", "riscv_dv_in_devshell"}, Gaps!Flag("riscv_dv_available")),
   Gaps!Flag("riscv_dv_on_path"), Gaps!Flag("dv_config"), Gaps!Flag("dv_target")}
LEMMA DvRules == Gaps!RiscvDv.producers = DvProducers
  BY DEF Gaps!RiscvDv, DvProducers
LEMMA DvTools ==
  /\ \A q \in DvProducers : \A s \in q : "riscv_dv_in_devshell" \in s => "tool_audit" \in s
  /\ \A q \in DvProducers : "tool_audit" \in UNION q => "riscv_dv_in_devshell" \in UNION q
  <1> DEFINE caps == {"riscv_dv_available", "riscv_dv_in_devshell"}
             tools == Gaps!Tools(caps, Gaps!Flag("riscv_dv_available"))
  <1>1. \A q \in DvProducers :
          q = tools \/ \A s \in q : "riscv_dv_in_devshell" \notin s /\ "tool_audit" \notin s
    BY DEF DvProducers, Gaps!Flag
  <1>2. \A s \in tools : "riscv_dv_in_devshell" \in s => "tool_audit" \in s
    BY DEF Gaps!Tools, Gaps!Flag
  <1>3. {"tool_audit"} \cup {"riscv_dv_in_devshell"} \in tools
    <2>1. {"riscv_dv_in_devshell"} \in SUBSET caps
      OBVIOUS
    <2>2. QED
      BY <2>1 DEF Gaps!Tools
  <1>4. QED
    BY <1>1, <1>2, <1>3
LEMMA FormalReports ==
  /\ \A q \in Gaps!RvfiProducers : \A s \in q :
       /\ "symbiyosys_available" \in s => "tool_audit" \in s
       /\ "rvfi_pass" \in s => "rvfi_report" \in s
  /\ \A q \in Gaps!RvfiProducers :
       /\ "tool_audit" \in UNION q => "symbiyosys_available" \in UNION q
       /\ "rvfi_report" \in UNION q => "rvfi_pass" \in UNION q
  <1> DEFINE caps == {"riscv_formal_available", "symbiyosys_available"}
             tools == Gaps!Tools(caps, {{}})
             full == {{"rvfi_report", "rvfi_pass"} \cup s : s \in SUBSET {"groups", "none_disabled"}}
             reports == {{}, {"rvfi_report"}} \cup full
             flags == {"local_formal", "rvfi_lite", "rvfi_lite_target", "rvfi_target",
                       "rvfi_lite_file", "wrapper", "cfgs", "fault_cfg"}
  <1>0. \A q \in Gaps!RvfiProducers :
          q = tools \/ q = reports \/ \E f \in flags : q = {{}, {f}}
    <2> HIDE DEF tools, reports
    <2>1. Gaps!RvfiProducers = {tools, {{}, {"local_formal"}}, {{}, {"rvfi_lite"}},
            {{}, {"rvfi_lite_target"}}, {{}, {"rvfi_target"}}, {{}, {"rvfi_lite_file"}},
            {{}, {"wrapper"}}, {{}, {"cfgs"}}, {{}, {"fault_cfg"}}, reports}
      BY DEF Gaps!RvfiProducers, Gaps!Flag, tools, reports
    <2>2. QED
      BY <2>1
  <1>1. \A q \in Gaps!RvfiProducers :
          \/ q = tools \/ q = reports
          \/ \A s \in q : s \cap {"symbiyosys_available", "tool_audit", "rvfi_pass", "rvfi_report"} = {}
    <2> HIDE DEF tools, reports
    <2>1. QED
      BY <1>0
  <1>2. \A s \in tools : /\ "symbiyosys_available" \in s => "tool_audit" \in s
                        /\ "rvfi_pass" \notin s /\ "rvfi_report" \notin s
    BY DEF Gaps!Tools
  <1>3. {"tool_audit"} \cup caps \in tools
    BY DEF Gaps!Tools
  <1>4. \A s \in reports : /\ "rvfi_pass" \in s => "rvfi_report" \in s
                          /\ "symbiyosys_available" \notin s /\ "tool_audit" \notin s
    OBVIOUS
  <1>5. {"rvfi_report", "rvfi_pass"} \cup {} \in reports
    OBVIOUS
  <1> HIDE DEF tools, reports
  <1>6. /\ "symbiyosys_available" \in UNION tools
        /\ "rvfi_pass" \in UNION reports
    BY <1>3, <1>5
  <1>7. QED
    BY <1>1, <1>2, <1>4, <1>6
LEMMA DvReports ==
  \A q \in DvProducers : \A s \in q :
    "dv_report" \notin s /\ "dv_pass" \notin s /\ "dv_clean" \notin s /\ "dv_trace" \notin s
  BY DEF DvProducers, Gaps!Tools, Gaps!Flag

\* What a producer leaves, and what a flag stands for, is produced.
LEMMA ProducedByOne ==
  ASSUME NEW g, NEW p \in Gaps!Rules[g].producers, NEW r \in p
  PROVE  r \subseteq Gaps!Produced(g)
  <1>1. UNION p \in {UNION q : q \in Gaps!Rules[g].producers} /\ r \subseteq UNION p
    OBVIOUS
  <1>2. r \subseteq UNION {UNION q : q \in Gaps!Rules[g].producers}
    BY <1>1
  <1>3. QED
    BY <1>2 DEF Gaps!Produced
LEMMA FlagProduced ==
  ASSUME NEW g, NEW f, Gaps!Flag(f) \in Gaps!Rules[g].producers
  PROVE  f \in Gaps!Produced(g)
  BY ProducedByOne DEF Gaps!Flag
LEMMA ToolsProduced ==
  ASSUME NEW g, NEW caps, NEW onPath, Gaps!Tools(caps, onPath) \in Gaps!Rules[g].producers
  PROVE  caps \cup {"tool_audit"} \subseteq Gaps!Produced(g)
  <1>1. {"tool_audit"} \cup caps \in Gaps!Tools(caps, onPath)
    BY DEF Gaps!Tools
  <1>2. QED
    BY <1>1, ProducedByOne

\* Every fact that the rules of a gap look up is one that somebody produces.
LEMMA AxiRules ==
  Gaps!FullAxi4.closed \cup Gaps!FullAxi4.listed \subseteq Gaps!Produced("full_axi4")
  <1> DEFINE documented == {"axi_lite_doc", "full_axi4_doc", "subset_doc"}
  <1>1. Gaps!FullAxi4.closed = documented /\ Gaps!FullAxi4.listed = documented
    BY DEF Gaps!FullAxi4
  <1>2. Gaps!FullAxi4.producers = {Gaps!Flag(d) : d \in documented}
    BY DEF Gaps!FullAxi4
  <1> HIDE DEF documented
  <1>3. \A d \in documented : Gaps!Flag(d) \in Gaps!Rules["full_axi4"].producers
    BY <1>2, RulesOf
  <1>4. QED
    BY <1>1, <1>3, FlagProduced

LEMMA BenchmarkRules ==
  Gaps!CertifiedBenchmarks.closed \cup Gaps!CertifiedBenchmarks.listed
    \subseteq Gaps!Produced("certified_benchmarks")
  <1> DEFINE needed == {"score_pass", "non_certified", "docs_say_so"}
             scores == {{}} \cup {{"non_certified"} \cup s : s \in Gaps!Flag("score_pass")}
  <1>1. Gaps!CertifiedBenchmarks.closed = needed /\ Gaps!CertifiedBenchmarks.listed = needed
    BY DEF Gaps!CertifiedBenchmarks
  <1>2. Gaps!CertifiedBenchmarks.producers = {scores, Gaps!Flag("docs_say_so")}
    BY DEF Gaps!CertifiedBenchmarks
  <1>3. {"non_certified"} \cup {"score_pass"} \in scores
    BY DEF Gaps!Flag
  <1> HIDE DEF scores
  <1>4. scores \in Gaps!Rules["certified_benchmarks"].producers
        /\ Gaps!Flag("docs_say_so") \in Gaps!Rules["certified_benchmarks"].producers
    BY <1>2, RulesOf
  <1>5. {"non_certified"} \cup {"score_pass"} \subseteq Gaps!Produced("certified_benchmarks")
    BY <1>3, <1>4, ProducedByOne
  <1>6. "docs_say_so" \in Gaps!Produced("certified_benchmarks")
    BY <1>4, FlagProduced
  <1>7. QED
    BY <1>1, <1>5, <1>6

LEMMA CiRules ==
  Gaps!CiRegression.closed \cup Gaps!CiRegression.listed \subseteq Gaps!Produced("ci_regression")
  <1> DEFINE needed == {"workflow_jobs", "remote_pass", "expected_is_head", "run_is_head"}
             remote == Gaps!Flag("remote_report") \cup
                        {{"remote_report", "remote_pass"} \cup s :
                           s \in SUBSET {"expected_is_head", "run_is_head"}}
  <1>1. Gaps!CiRegression.closed = needed /\ Gaps!CiRegression.listed = needed
    BY DEF Gaps!CiRegression
  <1>2. Gaps!CiRegression.producers = {Gaps!Flag("workflow_jobs"), remote}
    BY DEF Gaps!CiRegression
  <1>3. {"remote_report", "remote_pass"} \cup {"expected_is_head", "run_is_head"} \in remote
    OBVIOUS
  <1> HIDE DEF remote
  <1>4. remote \in Gaps!Rules["ci_regression"].producers
        /\ Gaps!Flag("workflow_jobs") \in Gaps!Rules["ci_regression"].producers
    BY <1>2, RulesOf
  <1>5. {"remote_report", "remote_pass"} \cup {"expected_is_head", "run_is_head"}
          \subseteq Gaps!Produced("ci_regression")
    BY <1>3, <1>4, ProducedByOne
  <1>6. "workflow_jobs" \in Gaps!Produced("ci_regression")
    BY <1>4, FlagProduced
  <1>7. QED
    BY <1>1, <1>5, <1>6

LEMMA ComplianceRules ==
  Gaps!Compliance.closed \cup Gaps!Compliance.listed
    \subseteq Gaps!Produced("compliance_signature_gate")
  <1> DEFINE flags == {"target", "build_script", "runner", "sail_runner", "env", "tests_dir",
                       "sail_report"}
             all == {"report_pass", "all_match", "tests", "cross_check"}
             reports == {{}, {"tests"}, {"tests", "cross_check"}, all}
  <1>1. Gaps!Compliance.closed \cup Gaps!Compliance.listed = flags \cup all
    BY DEF Gaps!Compliance
  <1>2. \A f \in flags : Gaps!Flag(f) \in Gaps!Compliance.producers
    BY DEF Gaps!Compliance
  <1>3. reports \in Gaps!Compliance.producers
    BY DEF Gaps!Compliance
  <1>4. all \in reports
    OBVIOUS
  <1> HIDE DEF flags, all, reports
  <1>5. all \subseteq Gaps!Produced("compliance_signature_gate")
    BY <1>3, <1>4, RulesOf, ProducedByOne
  <1>6. flags \subseteq Gaps!Produced("compliance_signature_gate")
    BY <1>2, RulesOf, FlagProduced
  <1>7. QED
    BY <1>1, <1>5, <1>6

LEMMA OwnFacts ==
  /\ Gaps!DvFacts \subseteq Gaps!Produced("riscv_dv")
  /\ "external_full" \in Gaps!Produced("external_iss")
  <1>1. ASSUME NEW g PROVE Gaps!Computed(g) \subseteq Gaps!Produced(g)
    <2>1. SUFFICES ASSUME NEW x \in Gaps!Computed(g) PROVE x \in Gaps!Produced(g)
      OBVIOUS
    <2>2. QED
      BY <2>1, SMT DEF Gaps!Produced
  <1>2. /\ Gaps!Computed("riscv_dv") = Gaps!DvFacts
        /\ "external_full" \in Gaps!Computed("external_iss")
    BY DEF Gaps!Computed
  <1>3. QED
    BY <1>1, <1>2
LEMMA IssRules ==
  Gaps!ExternalIss.closed \cup Gaps!ExternalIss.listed \subseteq Gaps!Produced("external_iss")
  <1> DEFINE caps == {"spike_available", "sail_available"}
             flags == {"spike_smoke", "spike_matrix", "spike_strict"}
             sail == {"sail_matrix", "sail_matrix_complete"}
             spikeHigh == {"spike_highmem", "spike_highmem_complete"}
             sailHigh == {"sail_highmem", "sail_highmem_complete"}
             spikeRtl == {"spike_highmem_rtl", "spike_highmem_names"}
             sailRtl == {"sail_highmem_rtl", "sail_highmem_names"}
             Ps == Gaps!Rules["external_iss"].producers
             P == Gaps!Produced("external_iss")
  <1>1. Gaps!ExternalIss.closed \cup Gaps!ExternalIss.listed
          \subseteq caps \cup {"tool_audit"} \cup flags \cup sail \cup spikeHigh \cup sailHigh
                    \cup spikeRtl \cup sailRtl \cup {"external_full"}
    BY DEF Gaps!ExternalIss
  <1>2. Ps = Gaps!ExternalIssProducers
    BY RulesOf DEF Gaps!ExternalIss
  <1>3. \A f \in flags : Gaps!Flag(f) \in Ps
    BY <1>2 DEF Gaps!ExternalIssProducers
  <1>4. Gaps!Tools(caps, Gaps!Flag("spike_available")) \in Ps
    BY <1>2 DEF Gaps!ExternalIssProducers
  <1>5. {{}, {"sail_matrix"}, sail} \in Ps /\ {{}, {"spike_highmem"}, spikeHigh} \in Ps
        /\ {{}, {"sail_highmem"}, sailHigh} \in Ps
        /\ {{}, {"spike_highmem_rtl"}, spikeRtl} \in Ps
        /\ {{}, {"sail_highmem_rtl"}, sailRtl} \in Ps
    BY <1>2 DEF Gaps!ExternalIssProducers
  <1>6. "external_full" \in P
    BY OwnFacts
  <1> HIDE DEF caps, flags, sail, spikeHigh, sailHigh, spikeRtl, sailRtl, Ps
  <1>7. caps \cup {"tool_audit"} \subseteq P
    BY <1>4, ToolsProduced DEF Ps
  <1>8. flags \subseteq P
    BY <1>3, FlagProduced DEF Ps
  <1>9. sail \subseteq P /\ spikeHigh \subseteq P /\ sailHigh \subseteq P
        /\ spikeRtl \subseteq P /\ sailRtl \subseteq P
    <2>1. \A x, y : {{}, x, y} \in Ps => y \subseteq P
      BY ProducedByOne DEF Ps
    <2>2. QED
      BY <1>5, <2>1
  <1> HIDE DEF P
  <1>10. QED
    BY <1>1, <1>6, <1>7, <1>8, <1>9 DEF P

LEMMA DvLookups ==
  Gaps!RiscvDv.closed \cup Gaps!RiscvDv.listed \subseteq Gaps!Produced("riscv_dv")
  <1> DEFINE caps == {"riscv_dv_available", "riscv_dv_in_devshell"}
             flags == {"dv_config", "dv_target"}
             P == Gaps!Produced("riscv_dv")
  <1>1. Gaps!RiscvDv.closed \cup Gaps!RiscvDv.listed
          \subseteq caps \cup {"tool_audit"} \cup flags \cup {"dv_report", "dv_pass"}
    BY DEF Gaps!RiscvDv
  <1>2. Gaps!Rules["riscv_dv"].producers = DvProducers
    BY RulesOf, DvRules
  <1>3. caps \cup {"tool_audit"} \subseteq P
    BY <1>2, ToolsProduced DEF DvProducers
  <1>4. flags \subseteq P
    BY <1>2, FlagProduced DEF DvProducers
  <1>5. {"dv_report", "dv_pass"} \subseteq P
    BY OwnFacts DEF Gaps!DvFacts
  <1> HIDE DEF caps, flags, P
  <1>6. QED
    BY <1>1, <1>3, <1>4, <1>5 DEF P

LEMMA RvfiRules ==
  Gaps!RvfiRiscvFormal.closed \cup Gaps!RvfiRiscvFormal.listed
    \subseteq Gaps!Produced("rvfi_riscv_formal")
  <1> DEFINE caps == {"riscv_formal_available", "symbiyosys_available"}
             flags == {"local_formal", "rvfi_lite", "rvfi_lite_target", "rvfi_target",
                       "rvfi_lite_file", "wrapper", "cfgs", "fault_cfg"}
             full == {"rvfi_report", "rvfi_pass"} \cup {"groups", "none_disabled"}
             reports == {{}, {"rvfi_report"}} \cup
               {{"rvfi_report", "rvfi_pass"} \cup s : s \in SUBSET {"groups", "none_disabled"}}
             Ps == Gaps!Rules["rvfi_riscv_formal"].producers
             P == Gaps!Produced("rvfi_riscv_formal")
  <1>1. Gaps!RvfiRiscvFormal.closed \cup Gaps!RvfiRiscvFormal.listed
          = Gaps!RvfiClosed \cup Gaps!RvfiListed
    BY DEF Gaps!RvfiRiscvFormal
  <1>2. Gaps!RvfiClosed \cup Gaps!RvfiListed \subseteq caps \cup {"tool_audit"} \cup flags \cup full
    BY DEF Gaps!RvfiClosed, Gaps!RvfiListed
  <1>3. Ps = Gaps!RvfiProducers
    BY RulesOf DEF Gaps!RvfiRiscvFormal
  <1>4. \A f \in flags : Gaps!Flag(f) \in Ps
    BY <1>3 DEF Gaps!RvfiProducers
  <1>5. Gaps!Tools(caps, {{}}) \in Ps /\ reports \in Ps
    BY <1>3 DEF Gaps!RvfiProducers
  <1>6. full \in reports
    OBVIOUS
  <1> HIDE DEF caps, flags, full, reports, Ps
  <1>7. caps \cup {"tool_audit"} \subseteq P
    BY <1>5, ToolsProduced DEF Ps
  <1>8. flags \subseteq P
    BY <1>4, FlagProduced DEF Ps
  <1>9. full \subseteq P
    BY <1>5, <1>6, ProducedByOne DEF Ps
  <1> HIDE DEF P
  <1>10. QED
    BY <1>1, <1>2, <1>7, <1>8, <1>9 DEF P

LEMMA RulesProduced ==
  ASSUME NEW g \in DOMAIN Gaps!Rules
  PROVE  Gaps!Rules[g].closed \cup Gaps!Rules[g].listed \subseteq Gaps!Produced(g)
  BY GapNames, RulesOf, AxiRules, BenchmarkRules, CiRules, ComplianceRules, IssRules, DvLookups,
     RvfiRules

LEMMA GapsInit == MCInit => GapsHold
  BY DEF MCInit, Gaps!Init, GapsHold, IssTogether, DvTogether, RvfiTogether, Implied

\* A producer replaces what it left before; what belongs together stays so.
LEMMA ProduceHolds ==
  ASSUME gap \in AuditedGaps, facts \subseteq Gaps!Produced(gap), Gaps!Produce
  PROVE  /\ gap' \in AuditedGaps /\ facts' \subseteq Gaps!Produced(gap')
         /\ gap = "external_iss" /\ IssTogether => IssTogether'
         /\ gap = "riscv_dv" /\ DvTogether => DvTogether'
         /\ gap = "rvfi_riscv_formal" /\ RvfiTogether => RvfiTogether'
  <1>1. PICK p \in Gaps!Rules[gap].producers : \E r \in p :
          facts' = (facts \ UNION p) \cup r /\ gap' = gap
    BY DEF Gaps!Produce
  <1>2. PICK r \in p : facts' = (facts \ UNION p) \cup r /\ gap' = gap
    BY <1>1
  <1>3. facts' \subseteq Gaps!Produced(gap)
    BY <1>2, ProducedByOne
  <1>4. ASSUME gap = "external_iss", IssTogether PROVE IssTogether'
    <2>1. p \in Gaps!ExternalIssProducers
      BY <1>1, <1>4, RulesOf DEF Gaps!ExternalIss
    <2>2. ASSUME NEW f, NEW g, f \in facts => g \in facts,
                 <<f, g>> \in {<<"sail_matrix_complete", "sail_matrix">>,
                               <<"spike_highmem_complete", "spike_highmem">>,
                               <<"sail_highmem_complete", "sail_highmem">>}
          PROVE  f \in facts' => g \in facts'
      BY <1>2, <2>1, <2>2, IssProducers, ProducersKeep
    <2>3. QED
      BY <1>4, <2>2 DEF IssTogether, Implied
  <1>5. ASSUME gap = "riscv_dv", DvTogether PROVE DvTogether'
    <2>1. p \in DvProducers
      BY <1>1, <1>5, RulesOf, DvRules
    <2>2. "riscv_dv_in_devshell" \in facts' => "tool_audit" \in facts'
      BY <1>2, <1>5, <2>1, DvTools, ProducersKeep DEF DvTogether, Implied
    <2>3. \A f \in {"dv_pass", "dv_clean", "dv_trace"} : f \in facts' <=> f \in facts
      BY <1>2, <2>1, DvReports
    <2>4. QED
      BY <1>5, <2>2, <2>3 DEF DvTogether, Implied
  <1>6. ASSUME gap = "rvfi_riscv_formal", RvfiTogether PROVE RvfiTogether'
    <2>1. p \in Gaps!RvfiProducers
      BY <1>1, <1>6, RulesOf DEF Gaps!RvfiRiscvFormal
    <2>2. "symbiyosys_available" \in facts' => "tool_audit" \in facts'
      BY <1>2, <1>6, <2>1, FormalReports, ProducersKeep DEF RvfiTogether, Implied
    <2>3. "rvfi_pass" \in facts' => "rvfi_report" \in facts'
      BY <1>2, <1>6, <2>1, FormalReports, ProducersKeep DEF RvfiTogether, Implied
    <2>4. QED
      BY <2>2, <2>3 DEF RvfiTogether, Implied
  <1>7. QED
    BY <1>1, <1>3, <1>4, <1>5, <1>6

LEMMA GapsStep ==
  ASSUME GapsHold, [MCNext]_<<script, vars, campaignVars, gapVars>>
  PROVE  GapsHold'
  <1>1. SUFFICES ASSUME script' = "gaps" PROVE GapsHold'
    BY DEF GapsHold
  <1>2. script = "gaps" /\ (Gaps!Next \/ UNCHANGED <<gap, facts>>)
    BY <1>1 DEF MCNext, gapVars
  <1>3. CASE Gaps!Produce
    BY <1>2, <1>3, ProduceHolds DEF GapsHold, Gaps!Produce
  <1>4. CASE Gaps!ComposeExternalIss
    <2>1. facts' \subseteq Gaps!Produced(gap)
      BY <1>2, <1>4, OwnFacts DEF GapsHold, Gaps!ComposeExternalIss
    <2>2. gap = "external_iss" /\ gap' = gap
          /\ \A f \in {"sail_matrix_complete", "sail_matrix", "spike_highmem_complete",
                       "spike_highmem", "sail_highmem_complete", "sail_highmem"} :
               f \in facts' <=> f \in facts
      BY <1>4 DEF Gaps!ComposeExternalIss
    <2>3. IssTogether'
      BY <1>2, <2>2 DEF GapsHold, IssTogether, Implied
    <2>4. QED
      BY <1>2, <2>1, <2>2, <2>3 DEF GapsHold
  <1>5. CASE Gaps!RunRiscvDv
    <2>1. PICK generated \in BOOLEAN, compiled \in BOOLEAN, compared \in BOOLEAN :
            facts' = (facts \ Gaps!DvFacts) \cup Gaps!DvReport(facts, generated, compiled, compared)
      BY <1>5 DEF Gaps!RunRiscvDv
    <2>2. gap = "riscv_dv" /\ gap' = gap
      BY <1>5 DEF Gaps!RunRiscvDv
    <2>3. Gaps!DvReport(facts, generated, compiled, compared) \subseteq Gaps!DvFacts
          /\ ("dv_pass" \in Gaps!DvReport(facts, generated, compiled, compared) =>
                {"dv_clean", "dv_trace"} \subseteq Gaps!DvReport(facts, generated, compiled, compared))
      BY DEF Gaps!DvReport, Gaps!DvFacts
    <2>4. facts' \subseteq Gaps!Produced(gap)
      BY <1>2, <2>1, <2>2, <2>3, OwnFacts DEF GapsHold
    <2>5. "riscv_dv_in_devshell" \notin Gaps!DvFacts /\ "tool_audit" \notin Gaps!DvFacts
          /\ "dv_pass" \in Gaps!DvFacts
      BY DEF Gaps!DvFacts
    <2>6. DvTogether'
      BY <1>2, <2>1, <2>2, <2>3, <2>5 DEF GapsHold, DvTogether, Implied
    <2>7. QED
      BY <1>2, <2>2, <2>4, <2>6 DEF GapsHold
  <1>6. CASE Gaps!MoveHead
    BY <1>2, <1>6 DEF GapsHold, Gaps!MoveHead
  <1>7. CASE UNCHANGED <<gap, facts>>
    BY <1>2, <1>7 DEF GapsHold, IssTogether, DvTogether, RvfiTogether, Implied
  <1>8. QED
    BY <1>2, <1>3, <1>4, <1>5, <1>6, <1>7 DEF Gaps!Next

\* What is missing, entry by entry.
LEMMA MissingEntries ==
  ASSUME NEW g, NEW F, NEW Known,
         \A f \in Gaps!Rules[g].listed : f \in F \/ f \in Known,
         \A w \in Gaps!Rules[g].listedIf : w[1] \in F => w[2] \in F
  PROVE  Gaps!Missing(g, F) \subseteq Known
  BY DEF Gaps!Missing
LEMMA NothingMissing ==
  ASSUME NEW g, NEW F, Gaps!Missing(g, F) = {}
  PROVE  /\ Gaps!Rules[g].listed \subseteq F
         /\ \A e, f : <<e, f>> \in Gaps!Rules[g].listedIf /\ e \in F => f \in F
  <1>1. Gaps!Rules[g].listed \subseteq F
    BY DEF Gaps!Missing
  <1>2. ASSUME NEW e, NEW f, <<e, f>> \in Gaps!Rules[g].listedIf, e \in F PROVE f \in F
    <2>1. f \notin F => <<e, f>> \in {v \in Gaps!Rules[g].listedIf : v[1] \in F /\ v[2] \notin F}
      BY <1>2
    <2>2. f \notin F => <<e, f>>[2] \in Gaps!Missing(g, F)
      BY <2>1 DEF Gaps!Missing
    <2>3. QED
      BY <2>2
  <1>3. QED
    BY <1>1, <1>2

\* A gap that lists nothing, and has what no entry asks for, is closed.
LEMMA OpenSaysWhy ==
  ASSUME NEW g \in DOMAIN Gaps!Rules, NEW F, Gaps!Missing(g, F) = {}, Gaps!Unasked(g) \subseteq F
  PROVE  Gaps!Closed(g, F)
  <1>1. CASE g = "external_iss"
    <2>1. Gaps!ExternalIss.closed \subseteq Gaps!ExternalIss.listed
      BY DEF Gaps!ExternalIss
    <2>2. QED
      BY <1>1, <2>1, RulesOf, NothingMissing DEF Gaps!Closed
  <1>2. CASE g = "riscv_dv"
    <2>1. /\ Gaps!RiscvDv.closed \ {"dv_pass"} \subseteq Gaps!RiscvDv.listed
          /\ "dv_report" \in Gaps!RiscvDv.listed
          /\ <<"dv_report", "dv_pass">> \in Gaps!RiscvDv.listedIf
      BY DEF Gaps!RiscvDv
    <2>2. "dv_pass" \in F
      BY <1>2, <2>1, RulesOf, NothingMissing
    <2>3. QED
      BY <1>2, <2>1, <2>2, RulesOf, NothingMissing DEF Gaps!Closed
  <1>3. CASE g = "rvfi_riscv_formal"
    <2>1. /\ Gaps!RvfiRiscvFormal.closed = Gaps!RvfiClosed
          /\ Gaps!RvfiRiscvFormal.listed = Gaps!RvfiListed
          /\ Gaps!RvfiRiscvFormal.listedIf = Gaps!RvfiListedIf
      BY DEF Gaps!RvfiRiscvFormal
    <2>2. Gaps!RvfiListed \subseteq F
          /\ \A e, f : <<e, f>> \in Gaps!RvfiListedIf /\ e \in F => f \in F
      BY <1>3, <2>1, RulesOf, NothingMissing
    <2>3. "rvfi_report" \in F
      BY <2>2 DEF Gaps!RvfiListed, Gaps!RvfiListedIf
    <2>4. "rvfi_pass" \in F
      BY <2>2, <2>3 DEF Gaps!RvfiListedIf
    <2>5. "groups" \in F /\ "none_disabled" \in F
      BY <2>2, <2>4 DEF Gaps!RvfiListedIf
    <2>6. {"fault_cfg", "symbiyosys_available"} \subseteq F
      BY <1>3 DEF Gaps!Unasked
    <2>7. Gaps!RvfiClosed \subseteq F
      BY <2>2, <2>4, <2>5, <2>6 DEF Gaps!RvfiClosed, Gaps!RvfiListed
    <2>8. QED
      BY <1>3, <2>1, <2>7, RulesOf DEF Gaps!Closed
  <1>4. CASE g = "full_axi4"
    <2>1. Gaps!FullAxi4.listed = Gaps!FullAxi4.closed
      BY DEF Gaps!FullAxi4
    <2>2. QED
      BY <1>4, <2>1, RulesOf, NothingMissing DEF Gaps!Closed
  <1>5. CASE g = "ci_regression"
    <2>1. Gaps!CiRegression.listed = Gaps!CiRegression.closed
      BY DEF Gaps!CiRegression
    <2>2. QED
      BY <1>5, <2>1, RulesOf, NothingMissing DEF Gaps!Closed
  <1>6. CASE g = "certified_benchmarks"
    <2>1. Gaps!CertifiedBenchmarks.listed = Gaps!CertifiedBenchmarks.closed
      BY DEF Gaps!CertifiedBenchmarks
    <2>2. QED
      BY <1>6, <2>1, RulesOf, NothingMissing DEF Gaps!Closed
  <1>7. CASE g = "compliance_signature_gate"
    <2>1. /\ Gaps!Compliance.closed \ {"all_match"} \subseteq Gaps!Compliance.listed
          /\ "report_pass" \in Gaps!Compliance.listed
          /\ <<"report_pass", "all_match">> \in Gaps!Compliance.listedIf
      BY DEF Gaps!Compliance
    <2>2. "all_match" \in F
      BY <1>7, <2>1, RulesOf, NothingMissing
    <2>3. QED
      BY <1>7, <2>1, <2>2, RulesOf, NothingMissing DEF Gaps!Closed
  <1>8. QED
    BY <1>1, <1>2, <1>3, <1>4, <1>5, <1>6, <1>7, GapNames

\* A closed gap other than that of the external simulators lists what it does not need.
LEMMA ClosedListsLittle ==
  ASSUME GapsHold, script = "gaps", gap \in DOMAIN Gaps!Rules, gap # "external_iss",
         Gaps!Closed(gap, facts)
  PROVE  Gaps!Missing(gap, facts) \subseteq Gaps!Unneeded(gap)
  <1>1. Gaps!Rules[gap].closed \subseteq facts
    BY DEF Gaps!Closed
  <1>2. CASE gap = "riscv_dv"
    <2>1. /\ {"riscv_dv_in_devshell", "dv_pass"} \subseteq Gaps!RiscvDv.closed
          /\ Gaps!RiscvDv.listed \subseteq Gaps!RiscvDv.closed \cup {"tool_audit"}
          /\ \A w \in Gaps!RiscvDv.listedIf : w[2] \in {"dv_clean", "dv_trace", "dv_pass"}
      BY DEF Gaps!RiscvDv
    <2>2. {"tool_audit", "dv_clean", "dv_trace", "dv_pass"} \subseteq facts
      BY <1>1, <1>2, <2>1, RulesOf DEF GapsHold, DvTogether, Implied
    <2>3. QED
      BY <1>1, <1>2, <2>1, <2>2, RulesOf, MissingEntries
  <1>3. CASE gap = "rvfi_riscv_formal"
    <2>1. /\ Gaps!RvfiRiscvFormal.closed = Gaps!RvfiClosed
          /\ Gaps!RvfiRiscvFormal.listed = Gaps!RvfiListed
          /\ Gaps!RvfiRiscvFormal.listedIf = Gaps!RvfiListedIf
      BY DEF Gaps!RvfiRiscvFormal
    <2>2. /\ {"rvfi_pass", "groups", "none_disabled", "symbiyosys_available"} \subseteq Gaps!RvfiClosed
          /\ Gaps!RvfiListed \subseteq Gaps!RvfiClosed \cup {"tool_audit", "rvfi_lite_file"}
          /\ \A w \in Gaps!RvfiListedIf :
               w[2] \in {"rvfi_report", "rvfi_pass", "groups", "none_disabled"}
      BY DEF Gaps!RvfiClosed, Gaps!RvfiListed, Gaps!RvfiListedIf
    <2>3. {"tool_audit", "rvfi_report"} \subseteq facts
      BY <1>1, <1>3, <2>1, <2>2, RulesOf DEF GapsHold, RvfiTogether, Implied
    <2>4. Gaps!Unneeded(gap) = {"rvfi_lite_file"}
      BY <1>3 DEF Gaps!Unneeded
    <2>5. QED
      BY <1>1, <1>3, <2>1, <2>2, <2>3, <2>4, RulesOf, MissingEntries
  <1>4. CASE gap = "full_axi4"
    <2>1. Gaps!FullAxi4.listed = Gaps!FullAxi4.closed /\ Gaps!FullAxi4.listedIf = {}
      BY DEF Gaps!FullAxi4
    <2>2. QED
      BY <1>1, <1>4, <2>1, RulesOf, MissingEntries
  <1>5. CASE gap = "ci_regression"
    <2>1. Gaps!CiRegression.listed = Gaps!CiRegression.closed /\ Gaps!CiRegression.listedIf = {}
      BY DEF Gaps!CiRegression
    <2>2. QED
      BY <1>1, <1>5, <2>1, RulesOf, MissingEntries
  <1>6. CASE gap = "certified_benchmarks"
    <2>1. /\ Gaps!CertifiedBenchmarks.listed = Gaps!CertifiedBenchmarks.closed
          /\ Gaps!CertifiedBenchmarks.listedIf = {}
      BY DEF Gaps!CertifiedBenchmarks
    <2>2. QED
      BY <1>1, <1>6, <2>1, RulesOf, MissingEntries
  <1>7. CASE gap = "compliance_signature_gate"
    <2>1. /\ "all_match" \in Gaps!Compliance.closed
          /\ Gaps!Compliance.listed \subseteq Gaps!Compliance.closed \cup
               {"target", "build_script", "runner", "sail_runner", "env", "tests_dir"}
          /\ \A w \in Gaps!Compliance.listedIf : w[2] = "all_match"
      BY DEF Gaps!Compliance
    <2>2. Gaps!Unneeded(gap) =
            {"target", "build_script", "runner", "sail_runner", "env", "tests_dir"}
      BY <1>7 DEF Gaps!Unneeded
    <2>3. QED
      BY <1>1, <1>7, <2>1, <2>2, RulesOf, MissingEntries
  <1>8. QED
    BY <1>2, <1>3, <1>4, <1>5, <1>6, <1>7, GapNames

\* The rules have drifted apart where it is known and nowhere else.
LEMMA GapsExplained ==
  ASSUME GapsHold, script = "gaps"
  PROVE  Gaps!TypeOK /\ Gaps!DriftKnown
  <1>1. gap \in DOMAIN Gaps!Rules
    BY SignoffConstants DEF GapsHold, Gaps!GapsConstants
  <1>2. Gaps!TypeOK
    BY <1>1, RulesProduced DEF GapsHold, Gaps!TypeOK
  <1>3. QED
    BY <1>1, <1>2, OpenSaysWhy, ClosedListsLittle DEF Gaps!DriftKnown

\* A composite that has just been computed stands for the matrices that its gap lists.
LEMMA ComposedIsComplete ==
  ASSUME GapsHold, script = "gaps", Gaps!ComposeExternalIss, Gaps!Closed(gap, facts)'
  PROVE  (Gaps!Missing(gap, facts) \subseteq Gaps!Unneeded(gap))'
  <1>1. /\ gap = "external_iss" /\ gap' = gap /\ IssTogether
        /\ Gaps!Rules' = Gaps!Rules
    BY DEF GapsHold, Gaps!ComposeExternalIss, Gaps!Rules
  <1>2. "external_full" \in facts'
    <2>1. "external_full" \in Gaps!ExternalIss.closed
      BY DEF Gaps!ExternalIss
    <2>2. QED
      BY <1>1, <2>1, RulesOf DEF Gaps!Closed
  <1>3. Gaps!CompositeNeeds \subseteq facts'
    BY <1>2 DEF Gaps!ComposeExternalIss
  <1>4. {"sail_matrix", "spike_highmem", "sail_highmem"} \subseteq facts'
    <2>1. facts \subseteq facts'
      BY <1>2 DEF Gaps!ComposeExternalIss
    <2>2. {"sail_matrix_complete", "spike_highmem_complete", "sail_highmem_complete"} \subseteq facts
      BY <1>2 DEF Gaps!ComposeExternalIss, Gaps!CompositeNeeds
    <2>3. QED
      BY <1>1, <2>1, <2>2 DEF IssTogether, Implied
  <1>5. /\ Gaps!ExternalIss.listedIf = {}
        /\ Gaps!ExternalIss.listed \subseteq Gaps!CompositeNeeds
             \cup {"sail_matrix", "spike_highmem", "sail_highmem", "external_full"}
             \cup {"tool_audit", "spike_available", "sail_available", "spike_smoke", "spike_matrix"}
    BY DEF Gaps!ExternalIss, Gaps!CompositeNeeds
  <1>6. Gaps!Unneeded("external_iss") =
          {"tool_audit", "spike_available", "sail_available", "spike_smoke", "spike_matrix"}
    BY DEF Gaps!Unneeded
  <1>7. Gaps!Missing("external_iss", facts') \subseteq Gaps!Unneeded("external_iss")
    BY <1>2, <1>3, <1>4, <1>5, <1>6, RulesOf, MissingEntries
  <1>8. QED
    BY <1>1, <1>7 DEF Gaps!Missing, Gaps!Unneeded

\* Where the rules that close a gap and those that list what is missing have drifted apart is
\* known, the formal gap's two unlisted facts and what three closed gaps may list included;
\* and a gap that its composite report closes lists no matrix as missing when the report is
\* computed, in whatever order reports and files change.
THEOREM AgreeingGaps == MCSpec => GapsAgree
  <1> DEFINE Safe == script = "gaps" => Gaps!TypeOK /\ Gaps!DriftKnown
             Earned == Gaps!ComposeExternalIss /\ Gaps!Closed(gap, facts)'
                         => (Gaps!Missing(gap, facts) \subseteq Gaps!Unneeded(gap))'
  <1>1. GapsHold => Safe
    BY GapsExplained
  <1>2. ASSUME GapsHold, MCNext, Gaps!vars' # Gaps!vars PROVE Earned
    <2>1. script = "gaps"
      BY <1>2 DEF MCNext, gapVars, Gaps!vars
    <2>2. QED
      BY <1>2, <2>1, ComposedIsComplete
  <1>3. GapsHold /\ [MCNext]_<<script, vars, campaignVars, gapVars>> => [Earned]_(Gaps!vars)
    BY <1>2 DEF gapVars, Gaps!vars
  <1> HIDE DEF Safe, Earned
  <1>4. MCSpec => []GapsHold
    BY GapsInit, GapsStep, PTL DEF MCSpec
  <1>5. MCSpec => []Safe /\ [][Earned]_(Gaps!vars)
    BY <1>1, <1>3, <1>4, PTL DEF MCSpec
  <1>6. QED
    BY <1>5 DEF GapsAgree, Gaps!CompositeEarned, Safe, Earned
=============================================================================
