------------------------------ MODULE IssSmoke ------------------------------
(* The ISS smoke checks, scripts/run_spike_iss_smoke.py and                  *)
(* scripts/run_sail_iss_smoke.py: every artifact of result/isa is executed   *)
(* by the reference model and by a simulator, and the two traces are         *)
(* compared. The files outlive the run that wrote them, a simulator may be   *)
(* cut off by its timeout or fail before it opens its log, and any run may   *)
(* be killed.                                                                *)
(*                                                                           *)
(* A trace is a sequence of items. An item has the kind of its instruction   *)
(* ("alu", "low" for an access below the base, "ecall", "ebreak", "wfi",     *)
(* "outside" for one that is not in the artifact's code) and a value, which  *)
(* stands for everything the comparison looks at.                            *)
EXTENDS Integers, Sequences, FiniteSets, SequencesExt

CONSTANT
  Invocations    \* how each of the two is run: the record of what follows

VARIABLE
  simulator      \* "spike" or "sail"; never changes

Names == Invocations[simulator].names         \* the artifacts
References == Invocations[simulator].programs   \* their possible reference traces: sequences of items
AllCompatible == Invocations[simulator].allCompatible \* --all-compatible
AllowLow == Invocations[simulator].allowLow   \* --allow-low-data-memory (Sail only)

VARIABLES
  hex,       \* result/isa: the program of each artifact, or NoProgram
  log,       \* logs/<name>: the raw trace, or NoLog
  wrong,     \* the installed simulator gives alu items another value
  pc,        \* where the script is
  todo,      \* artifacts of the run that have no result yet
  name,      \* artifact in work
  words,     \* its program, as read
  attempt,   \* starts of the simulator for it
  results,   \* this run's results
  did,       \* history: the program read for each artifact in this run, and what
             \* the simulator wrote when it was started on it
  report     \* *_smoke.json, or NoReport

vars == <<simulator, hex, log, wrong, pc, todo, name, words, attempt, results, did, report>>
script == <<pc, todo, name, words, attempt, results, did, report>>

NoProgram == <<[kind |-> "none", value |-> 0]>>
NoLog == <<[kind |-> "none", value |-> 1]>>
NoReport == [status |-> "none", coverage |-> "none", results |-> <<>>]
Unrun == "none"
Untried == [program |-> NoProgram, wrote |-> NoLog]
Statuses == {"pass", "skip", "fail"}

Traps == {"ecall", "ebreak"}
IsTrap(item) == item.kind \in Traps
Final(expected) == expected[Len(expected)]

(* The items of other kinds, in their order. *)
Rank(places, p) == Cardinality({q \in places : q <= p})
Nth(places, i) == CHOOSE p \in places : Rank(places, p) = i
Left(items, kinds) == {p \in 1..Len(items) : items[p].kind \notin kinds}
Without(items, kinds) ==
  [i \in 1..Cardinality(Left(items, kinds)) |-> items[Nth(Left(items, kinds), i)]]

-----------------------------------------------------------------------------
(* What the simulators do. Spike logs commits only, starting in its boot     *)
(* code, and stalls at WFI. Sail prints every instruction, the trapping ones *)
(* too, and goes on behind WFI (wfi_is_nop).                                 *)
Simulated(item) == IF wrong /\ item.kind = "alu" THEN [item EXCEPT !.value = 1 - @] ELSE item
Outside == [kind |-> "outside", value |-> 0]
SpikeWrites(program) ==
  LET commits == Without(program, Traps)
  IN <<Outside>> \o [i \in 1..Len(commits) |-> Simulated(commits[i])]
SailWrites(program) ==
  [i \in 1..Len(program) |-> Simulated(program[i])]
    \o <<IF Final(program).kind = "wfi" THEN [kind |-> "alu", value |-> 0] ELSE Outside>>
Writes(program) == IF simulator = "spike" THEN SpikeWrites(program) ELSE SailWrites(program)

-----------------------------------------------------------------------------
(* The pure part of the scripts.                                             *)

(* unsupported_reason: a reason exists. *)
SpikeUnsupported(expected) ==
  \/ expected = <<>>
  \/ \E i \in 1..(Len(expected) - 1) : IsTrap(expected[i]) \/ expected[i].kind = "low"
  \/ Final(expected).kind \notin {"ebreak", "wfi"}
(* artifact_supported gives a reason. *)
SailUnsupported(expected) ==
  \/ expected = <<>>
  \/ \E i \in 1..(Len(expected) - 1) :
       IsTrap(expected[i]) \/ (~AllowLow /\ expected[i].kind = "low")
  \/ Final(expected).kind \notin {"ebreak", "wfi"}
Unsupported(expected) ==
  IF simulator = "spike" THEN SpikeUnsupported(expected) ELSE SailUnsupported(expected)

(* parse_spike_log and parse_sail_trace: the records of the artifact's code. *)
ParseSpikeLog(raw) == Without(raw, {"outside"})
ParseSailTrace(raw) == Without(raw, {"outside"})

(* The terminal ebreak is no commit. *)
Commits(expected) == IF IsTrap(Final(expected)) THEN Front(expected) ELSE expected

(* Mutant: only a terminal trap is trimmed. *)
TrimSailTraceTrapOnly(expected, actual) ==
  LET commits == Len(Commits(expected))
  IN IF Len(actual) > commits /\ IsTrap(Final(expected))
     THEN SubSeq(actual, 1, commits) ELSE actual
(* trim_sail_trace: drop the terminal ebreak, or what follows WFI. *)
TrimSailTrace(expected, actual) ==
  LET commits == Len(Commits(expected))
      stopsThere == IsTrap(Final(expected)) => actual[commits + 1] = Final(expected)
  IN IF Len(actual) > commits /\ Final(expected).kind \in {"ebreak", "ecall", "wfi"} /\ stopsThere
     THEN SubSeq(actual, 1, commits) ELSE actual

(* compare_prefix and compare_sail_prefix: no error is found. *)
ComparePrefix(expected, actual) == ~SpikeUnsupported(expected) /\ actual = Commits(expected)
CompareSailPrefix(expected, actual) == ~SailUnsupported(expected) /\ actual = Commits(expected)

Accepts(expected, raw) ==
  IF simulator = "spike" THEN ComparePrefix(expected, ParseSpikeLog(raw))
  ELSE CompareSailPrefix(expected, TrimSailTrace(expected, ParseSailTrace(raw)))

-----------------------------------------------------------------------------
Init ==
  /\ simulator \in DOMAIN Invocations
  /\ hex \in [Names -> References]
  /\ log = [n \in Names |-> NoLog]
  /\ wrong \in BOOLEAN
  /\ pc = "idle" /\ todo = {} /\ name = CHOOSE n \in Names : TRUE
  /\ words = NoProgram /\ attempt = 0
  /\ results = [n \in Names |-> Unrun] /\ did = [n \in Names |-> Untried]
  /\ report = NoReport

(* main: the artifacts found, or the ones asked for. *)
Start ==
  /\ pc = "idle"
  /\ todo' = IF AllCompatible THEN {n \in Names : hex[n] # NoProgram} ELSE Names
  /\ results' = [n \in Names |-> Unrun]
  /\ did' = [n \in Names |-> Untried]
  /\ pc' = "next"
  /\ UNCHANGED <<hex, log, wrong, name, words, attempt, report>>

(* The result of artifact n; the loop goes on whatever it is. *)
Ends(n, status) ==
  /\ results' = [results EXCEPT ![n] = status]
  /\ todo' = todo \ {n}
  /\ words' = NoProgram /\ attempt' = 0
  /\ pc' = "next"

(* run_artifact up to the temporary directory: the hex is read once. *)
ReadArtifact(n) ==
  /\ pc = "next" /\ n \in todo
  /\ name' = n
  /\ did' = [did EXCEPT ![n].program = hex[n]]
  /\ CASE hex[n] = NoProgram -> Ends(n, "fail")
       [] hex[n] # NoProgram /\ AllCompatible /\ Unsupported(hex[n]) -> Ends(n, "skip")
       [] OTHER -> /\ words' = hex[n] /\ pc' = "build"
                   /\ UNCHANGED <<todo, attempt, results>>
  /\ UNCHANGED <<hex, log, wrong, report>>

(* build_elf; the Sail script asks Sail for its default configuration first. *)
BuildElf(ok) ==
  /\ pc = "build"
  /\ IF ok THEN pc' = "launch" /\ UNCHANGED <<todo, words, attempt, results>>
     ELSE Ends(name, "fail")
  /\ UNCHANGED <<hex, log, wrong, name, did, report>>

(* run_spike_with_retry, before the command: the old log goes. *)
LaunchSpike ==
  /\ simulator = "spike" /\ pc = "launch"
  /\ log' = [log EXCEPT ![name] = NoLog]
  /\ attempt' = attempt + 1
  /\ pc' = "run"
  /\ UNCHANGED <<hex, wrong, todo, name, words, results, did, report>>

(* run_artifact of the Sail script: the command is started on what is there. *)
LaunchSail ==
  /\ simulator = "sail" /\ pc = "launch"
  /\ attempt' = attempt + 1
  /\ pc' = "run"
  /\ UNCHANGED <<hex, log, wrong, todo, name, words, results, did, report>>

(* The simulator ends, by itself or by its timeout. If it opened its log, it *)
(* has written some first part of what it does, all of it unless it was cut. *)
Leaves(timedOut) ==
  LET all == Writes(words)
  IN \/ \E k \in (IF timedOut THEN 0..Len(all) ELSE {Len(all)}) :
          /\ log' = [log EXCEPT ![name] = SubSeq(all, 1, k)]
          /\ did' = [did EXCEPT ![name].wrote = SubSeq(all, 1, k)]
     \/ UNCHANGED <<log, did>>

(* run_spike_with_retry, after the command: parse a log, retry a timeout     *)
(* without one once, give up otherwise.                                      *)
SpikeEnds(timedOut) ==
  /\ simulator = "spike" /\ pc = "run"
  /\ Leaves(timedOut)
  /\ \/ /\ log'[name] \notin {NoLog, <<>>}
        /\ pc' = "parse" /\ UNCHANGED <<todo, words, attempt, results>>
     \/ /\ log'[name] \in {NoLog, <<>>} /\ timedOut /\ attempt = 1
        /\ pc' = "launch" /\ UNCHANGED <<todo, words, attempt, results>>
     \/ /\ log'[name] \in {NoLog, <<>>} /\ (~timedOut \/ attempt = 2)
        /\ Ends(name, "fail")
  /\ UNCHANGED <<hex, wrong, name, report>>

(* The Sail script keeps the return code for the report only. *)
SailEnds(timedOut) ==
  /\ simulator = "sail" /\ pc = "run"
  /\ Leaves(timedOut)
  /\ pc' = "parse"
  /\ UNCHANGED <<hex, wrong, todo, name, words, attempt, results, report>>

(* run_artifact: parse, trim and compare; reading a missing log raises. *)
Compare ==
  /\ pc = "parse"
  /\ Ends(name, IF log[name] # NoLog /\ Accepts(words, log[name]) THEN "pass" ELSE "fail")
  /\ UNCHANGED <<hex, log, wrong, name, did, report>>

(* main: summary, status and coverage. *)
Finish ==
  /\ pc = "next" /\ todo = {}
  /\ report' = [status |-> IF \E n \in Names : results[n] = "fail" THEN "fail" ELSE "pass",
                coverage |-> IF \E n \in Names : results[n] = "skip" THEN "partial" ELSE "complete",
                results |-> results]
  /\ pc' = "idle"
  /\ UNCHANGED <<hex, log, wrong, todo, name, words, attempt, results, did>>

(* The run is killed; files stay. *)
Kill ==
  /\ pc # "idle"
  /\ pc' = "idle" /\ todo' = {} /\ words' = NoProgram /\ attempt' = 0
  /\ UNCHANGED <<hex, log, wrong, name, results, did, report>>

(* The ISA regression writes another program, or the developer removes one. *)
Regenerate(n) ==
  /\ \E p \in References \cup {NoProgram} : hex' = [hex EXCEPT ![n] = p]
  /\ UNCHANGED <<log, wrong, script>>

Step ==
  \/ \E n \in Names : ReadArtifact(n)
  \/ \E ok \in BOOLEAN : BuildElf(ok)
  \/ LaunchSpike
  \/ LaunchSail
  \/ \E t \in BOOLEAN : SpikeEnds(t)
  \/ \E t \in BOOLEAN : SailEnds(t)
  \/ Compare
  \/ Finish
Next ==
  /\ Start \/ Step \/ Kill \/ \E n \in Names : Regenerate(n)
  /\ UNCHANGED simulator

Spec == Init /\ [][Next]_vars
-----------------------------------------------------------------------------
TypeOK ==
  /\ hex \in [Names -> References \cup {NoProgram}]
  /\ wrong \in BOOLEAN
  /\ pc \in {"idle", "next", "build", "launch", "run", "parse"}
  /\ todo \subseteq Names /\ name \in Names
  /\ words \in References \cup {NoProgram}
  /\ attempt \in 0..2
  /\ results \in [Names -> Statuses \cup {Unrun}]
  /\ pc \in {"idle", "next"} <=> words = NoProgram
  /\ pc \notin {"idle", "next"} => name \in todo

(* The programs the documents call the matrix: no trap but a last EBREAK, no  *)
(* low data where the simulator has no memory, an end at EBREAK or WFI.       *)
InMatrix(program) ==
  /\ Final(program).kind \in {"ebreak", "wfi"}
  /\ \A i \in 1..Len(program) :
       /\ program[i].kind \in {"ecall", "ebreak"} => i = Len(program) /\ program[i].kind = "ebreak"
       /\ program[i].kind = "low" => simulator = "sail" /\ AllowLow

(* An artifact passes only on a log in which every instruction of the program *)
(* the script read has the reference's effects, none is missing. That log is  *)
(* what the simulator wrote when this run started it on that program: always  *)
(* for Spike, whose old log is removed first, and for Sail whenever it opened *)
(* its trace. A Sail that fails before that is judged by the trace an earlier *)
(* run left, and may pass: its return code is not looked at.                  *)
PassIsOfThisRun ==
  \A n \in Names : results[n] = "pass" =>
    /\ LET commits == Without(did[n].program, {"ebreak"})
           executed == Without(log[n], {"outside"})
       IN Len(executed) >= Len(commits) /\ SubSeq(executed, 1, Len(commits)) = commits
    /\ simulator = "spike" \/ did[n].wrote # NoLog => log[n] = did[n].wrote

(* An artifact outside the matrix is skipped or fails, it never passes, and a *)
(* report that calls its coverage complete has skipped nothing.               *)
NotSilentlyPassed ==
  /\ \A n \in Names : results[n] = "pass" => InMatrix(did[n].program)
  /\ report.coverage = "complete" => \A n \in Names : report.results[n] # "skip"

(* A comparison fails only for a reason: the program is outside the matrix,   *)
(* the simulator disagrees, it was cut off, or it left no log. What Sail      *)
(* prints behind the stop (the EBREAK, instructions after WFI) is no reason,  *)
(* nor is Spike's boot code.                                                  *)
FailureExplained ==
  pc = "parse" /\ results'[name] = "fail" =>
    \/ ~InMatrix(words)
    \/ wrong /\ \E i \in 1..Len(words) : words[i].kind = "alu"
    \/ did[name].wrote # Writes(words)
=============================================================================
