# DitDah32 in TLA+

DitDah32 is a small RV32EC microcontroller core written in Zaozi (Scala,
`ditdah32/src`): a single-issue machine-mode hart with one AXI4-Lite port, three
interrupt pins and, when `enableJtag` is set, a JTAG transport, a debug module and
a debug hart. Around it stand a Python reference model and the scripts that
compare, test, release and publish it. This directory holds TLA+ models of both
halves, the TLC runs that check them on small instances, and the proofs TLAPS
checks for every value of the parameters.

## Inventory

The hardware:

| Part | State | Operations | Talks to |
| --- | --- | --- | --- |
| Core control and AXI port (`DitDah32.scala`) | `state`, `pc`, handshake flags, the first half of a straddled parcel, the registers of a memory phase, `trapEventReg` | fetch, join parcels, commit, memory phase, fault, interrupt, sleep | AXI slave, pins, debug hart |
| Execution (`DitDah32.scala`, `DitDah32Gpr.scala`) | x1..x15 | decode, trap priority, results, lanes, next pc | core control |
| CSRs (`DitDah32Csr.scala`) | `mstatus mie mtvec mscratch mepc mcause mtval` | legalized writes, trap entry, MRET, interrupt priority | core control |
| Compressed decoder (`DitDah32Rvc.scala`) | none | expand a 16-bit parcel | execution |
| Debug hart (`DitDah32DebugHart.scala`) | `dcsr`, `dpc`, step, reset and command flags | halt, step, breakpoint, resume, reset, register and memory commands | core, debug module, AXI slave |
| Debug module (`DitDah32DebugModule.scala`) | `dmcontrol`, `data0`, `data1`, command, errors, acknowledgements | DMI reads and writes, one abstract command at a time | transport, debug hart |
| JTAG transport (`DitDah32JtagDtm.scala`) | TAP, IR/DR, request, sticky error (TCK domain) | scan, capture, update, resets | debug module, across clocks |

The scripts (`scripts/`, `Makefile`, `.github/workflows`):

| Part | State it lives on | Operations | Talks to |
| --- | --- | --- | --- |
| Reference model, encoders, ISA regression | program, architectural state, trace | execute, encode, generate, compare | the RTL simulation |
| Spike and Sail checks | logs, hex files, report | build, run with retry and timeout, trim, compare | external simulators |
| RISCV-DV campaign and RTL matrix | seed directories, `isa_out_dir`, report | generate, scan, compile, trace, run, compare | generator, compiler, RTL |
| Compliance gate | two builds, signatures, reference, results | build, run Sail, write the reference, run cocotb, judge | Sail, cocotb |
| Campaign and completion audit | working tree, step results, reports | run a profile, audit | git, every report |
| Gap audit and composite ISS report | reports under `result/` | close a gap or list what is missing | every producer of a report |
| Release packager | archives, `SHA256SUMS`, temporary directories | stage, verify, sum, replace | git, nix, other packagers |
| Remote dispatch, evidence, publication | listings and views of GitHub, local git | trigger, find, wait, judge; collect; create, push, verify | GitHub, the hosted workflow, other pushers |

What is hard:

* in one cycle of the core the slave may accept any request shown, answer at
  once or much later, or refuse with an error, while pins move; several `when`
  blocks assign one register and the last wins;
* the debug logic assigns after the core and overrides it, in any cycle of the
  core's own work; two clock domains exchange requests by toggles and are reset
  independently;
* the scripts ask one question per call while the world moves between the
  calls; their files outlive the run that wrote them; tools fail, time out, or
  are killed; several runs share a directory.

What makes each part correct: the port keeps the AXI rules and every response
reaches the phase that asked; faults and interrupts are precise; software cannot
tell the core from a machine that does one instruction at a time, with or without
a debugger; a DMI request is performed once and answered truly; a command always
ends, with its own result; model and RTL agree; and a script says "pass" only of
what was done, in this run, to what it names.

`PROJECT.json` lists every component, also those left out, and the hazards with
the property that watches each.

## Modules

| Module | Models |
| --- | --- |
| `DitDah32Csr`, `DitDah32Exec` | CSR values, legalization, interrupt priority; an instruction as a record, its traps, results and CSR writes as functions |
| `RV32E` | abstract: one step per instruction, fault, interrupt or wake-up |
| `DitDah32` | the core without JTAG, one step per clock edge, with the slave and the pins |
| `Rv32Word`, `DitDah32Alu`, `DitDah32Rvc` | the data path and the compressed decoder, bit by bit |
| `Rv32ecModel`, `Rv32ecEncode` | the Python reference model and the encoders |
| `EncodeTrip`, `TraceCompare`, `IsaRegress` | encoders against decoders; lock step of model and RTL; the directed and random programs |
| `Dmi` | abstract: a request is made, performed, answered |
| `JtagDtm`, `DmiLink` | the TCK domain; both sides of the handshake, each on its own clock, with resets |
| `DebugProgram` | abstract: what a debugger is promised of the program it looks at |
| `DebugModule`, `DebugHart`, `DebugSession` | the module's registers, the core's control under the debug logic, both with bus and debugger |
| `Workflow` | the hosted workflow: triggers, jobs, concurrency groups, artifacts, what listings and views show |
| `CiDispatch`, `CiEvidence`, `CiPublish` | the three remote scripts |
| `IssSmoke`, `RiscvDv`, `ComplianceGate` | the gates against Spike and Sail, RISCV-DV, the compliance suite |
| `Campaign`, `OpenGaps`, `PackageRelease` | campaign and completion audit, gap audit, release packager |
| `MCDitDah32`, `MCDebugSession`, `MCIsaRegress` | programs, encodings, suites and requests for TLC |
| `MCCiScripts`, `MCSimulators`, `MCSignoff` | scripts of one kind side by side: each behaviour is one of one script, chosen in the initial state; the others rest |
| `DitDah32Proofs`, `DmiLinkProofs`, `DebugSessionProofs`, `CiScriptsProofs`, `CampaignProofs`, `SignoffProofs`, `SimulatorsProofs`, `IsaProofs` | the proofs |

Composition: `DitDah32` instantiates `RV32E`; `DmiLink` extends `JtagDtm` and
instantiates `Dmi`; `DebugSession` extends `DebugModule` and `DebugHart` and
instantiates `DebugProgram`; `CiDispatch` and `CiEvidence` extend `Workflow`.
The `MC...` modules of the scripts instantiate the scripts over variables of their
own, so that one run checks all of them and one theorem speaks of what the run
checks. `DmiLink` is its own model for TLC.

### State and actions of `DitDah32`

A step is one rising edge of `clock`. `state`, `pc`, `fetchOutstanding`,
`memOutstanding`, `storeAwDone`, `storeWDone`, `straddleLow` and `trapEvent` are
the registers of the same names; `mem` holds `memPcReg` (`epc`), `memNextPcReg`,
`memAddrReg`, `memRdReg`, `memStoreDataReg`; `csr` the CSR registers. `reads`,
`awrites` and `wwrites` are the slave's queues of accepted requests, `imem` and
`dmem` its memories (fetches carry `arprot` = instruction, so the two can be kept
apart; self-modifying code is left out). `stalled` remembers what was shown and
not accepted, for the stability property only.

The actions are the ways a cycle can end, for each control state: `FetchCycle`
(no response), `FetchFault`, `FetchStraddle`, `CommitTrap`, `CommitRetire`,
`CommitMem`, `LoadCycle`, `LoadFault`, `LoadDone`, `StoreCycle`, `StoreFault`,
`StoreDone`, `SleepCycle`, `IrqCycle`, `ResetCycle`. Each contains everything the
`when` blocks of that cycle assign, with the last assignment winning; `Boundary`
is the interrupt check that ends an instruction.

Addresses count halfwords (bit 0 of `pc`, `mepc` and every target is zero);
addition wraps at `AddrSpace`, 2^31 in the code. An instruction is a record and
the decoders are constants, so everything holds for any encoding. Loads and stores
are words, the ALU is represented by its additions; `DitDah32Alu` has the rest.
Reset is the power-on reset.

### State and actions of `JtagDtm` and `DmiLink`

Each register is written in one clock domain; the other sees the two toggles
through two flops, and address, op and answer directly. A step is an edge of TCK
(`TckScan` by the state the TAP is in, `TckTrst`, `TckReset`), an edge of the core
clock (`CoreEdge`, `PerformEdge`, `CoreResetEdge`) or a change of `io.reset`
(`ResetPin`). The order of the edges is free: any ratio, drift or stop of either
clock is covered, and a pulse of reset may be seen by one side, the other, both
or neither.

Three history variables serve the properties. `performed`: the request offered
last was performed. `failed`: a debugger was told of an error and has not cleared
it. `broken`: a reset of one side, or a drop of an awaited request
(Test-Logic-Reset, `dmihardreset`, `trstN`), left something of a request on its way;
it ends when everything has come to rest. Nothing is promised while `broken` holds,
and `LinkSettles` promises that waiting is enough.

`irShift` and `drShift` are one variable: they are live in different TAP states, and
one edge in a shift state leaves any word that many edges could. Data bits, IDCODE,
the bypass bit and `tdo` are left out; what a request does to the module's registers
is in `DebugModule`. The `busy` branch of the DMI update (`DitDah32JtagDtm.scala:216`)
cannot be taken: a scan that updates has captured, and a capture with a request
outstanding has made busy sticky already.

### State and actions of the debug modules

`dm` is the record of the debug module's registers, `hart` that of the hart and
its debug logic, changing at one clock edge. `stage` is the place of the request
toggle (made, two flops, served), `made` counts requests. The steps are a
request made, a flop, or the service of a request by the register it names
(`DmNext`), together with what the hart does in that cycle (`HartNext`): the
registers `c` a core cycle leaves go through `Debugged(c, ends, at)`, which
applies the assignments of `DitDah32DebugHart.scala` in their order. A program is
the kind of the instruction at each address; reading memory returns the address
read, so that answers can be told apart. `Orderly` says that the debugger polls: it
resets only a hart that is halted and not about to resume, and neither resets nor
switches the module off during a command. The violated run `debug_reset_reads` shows
what happens without it.

### State and actions of the scripts

A script is its program counter and its locals, the files it reads and writes,
and the world that moves between two of its calls: one action per call
(subprocess, file or network), with every error path. `Kill` ends a run anywhere
and leaves the files. `did`, `ran`, `seen`, `prior`, `scanned` and `shown` are
histories for the properties. Contents are named by what the scripts do with them:
a program by what becomes of it, a signature by its value, a report by the facts
somebody asks of it, an archive by the trees it was made of.

* `CiDispatch`: the deadlines of both polling loops are counters of polls; a poll may
  use up more than one. Listings show the newest runs GitHub has indexed.
* `CiEvidence`: one call per question; runs go on meanwhile.
* `CiPublish`: the audit reads branch, head, status and origin by separate git calls;
  the developer commits, edits and checks out, others push.
* `IssSmoke`: a simulator leaves any first part of its log, or does not open it; Spike's
  log is removed before every start and a timeout without one is retried once; Sail's is
  not, so that a Sail that opens none leaves the old one.
* `RiscvDv`: generation per seed, scan, compilation, model, matrix.
* `ComplianceGate`: sources are edited while a run is under way; `--skip-build`
  takes the build found.
* `Campaign`: the developer edits, commits, checks out, builds; `git_metadata` and the
  audit's `build_report` read head and status by separate calls.
* `PackageRelease`: several packagers, each with its temporary directory, replace
  one file at a time.
* `OpenGaps`: a fact is one thing an audit looks up; producers replace their own facts
  in any order, composite reports are computed from others.

## Runs

| Run | Question | Properties |
| --- | --- | --- |
| `core_safety` | can any interleaving of stalls, split handshakes, errors and pins break the port, the latches, the precision of faults and interrupts, or be seen by software? | `TypeOK PortProtocol LatchesMatchProgram FaultIsPrecise InterruptsPrecise ImplementsRV32E` |
| `core_liveness` | does every access end, WFI wake, a due interrupt enter? | `AccessesComplete SleepWakes InterruptTaken` |
| `dmi_link` | is a request performed once and answered truly, for every relation of the clocks and every reset; does a broken link come to rest? | `TypeOK LinkConsistent PerformsOnce ErrorsHold ImplementsDmi RequestAnswered LinkSettles` |
| `debug_safety` | does the program, or the port, notice a debugger that halts, steps, breaks, resets and sends commands in any cycle; is a command lost, doubled or ended with another's result? | `TypeOK PortKept CommandsReachHart ImplementsProgram AnswerIsOfThisCommand` |
| `debug_liveness` | does a halt take effect, a command end, a resume get its acknowledgement? | `HaltTakesEffect CommandEnds ResumeAcknowledged` |
| `isa` | do model, encoders and RTL agree? | `EncodersTrip StateAgrees TrapsAgree TracesMatch ProgramsEnd` |
| `ci_scripts` | is what the remote scripts report true, and what they write allowed, while the hosted side moves? | `PublicationTrue DispatchIsTrue EvidenceIsTrue WritesBounded TriggersAreFollowed` |
| `simulators` | has what a gate passes been compared in this run? | `CampaignCompared IssCompared ComplianceIsTrue` |
| `signoff` | is "complete", "closed" and a matching checksum earned? | `ReleaseSafe SignoffEarned GapsAgree` |
| `debug_reset_reads` | doc/requirements.md:40, "at most one outstanding read;" | `OneReadOutstanding`, violated |
| `debug_half_trap` | doc/requirements.md:177, "The hart enters Debug only at an instruction or completed memory boundary." | `HaltsAtBoundary`, violated |
| `gaps_disagree` | doc/open_gaps.md:4, "A gap is closed only when the requirement, implementation, test or property, command, and machine-readable evidence all agree." | `ClosedAgrees`, violated |

The three violated runs: a hart reset clears `fetchOutstanding` and
`memOutstanding` while the bus still owes the response, and the first fetch after
it takes that response for its own; and a halt request in the cycle a trap is begun
keeps `mepc`, `mcause` and the cleared MIE but leaves out the jump to the handler;
and the external ISS gap, once its composite was computed, stays closed when a report the
composite was computed from is replaced by one that the same audit lists as missing.
`DebugProgram` names the second of them (`HalfTrap`) and its sibling, a step that goes on
into the handler (`FaultInStep`), as the only departures of the hart.

### Bounds

* Core: sixteen halfwords, so that instructions in either half of a word, across
  two words and across the end of memory occur; three registers (x0, a base, a
  value; numbers above stand for x16..x31); four programs that between them use
  every kind of instruction, trap and CSR operation; three pins (one, and the program
  that sleeps, for liveness). `SlaveDepth` 2 is one more than the core may use, so
  that a second request would be seen. Time, stalls, faults and pins are unbounded.
* Link: two addresses, so that an answer to another request would be told apart, and
  two ops. Nothing else is bounded.
* Debug: four addresses, handler at 2, slave depth 1 (2 where a second read is
  looked for), and `MaxRequests` requests: 4 with faults and interrupts (`debug_safety`),
  3 for liveness, 6 for the violated runs. Halt, step, resume and one more command need
  four. `Session`, an action constraint, makes `debug_safety` three families of sessions:
  run control with resets, and steps, over a program that traps and stores; halts, resumes
  and a step over one that sleeps and meets interrupts; and abstract commands over a plain
  program. An orderly reset meets a halted hart, whatever the program.
* `isa`: words of 24 bits with bytes of 6 (TLC's integers are too narrow for 32), a
  width all instruction formats but the top byte of LUI and AUIPC fit into; all 49,152 compressed parcels, the edges of
  every field of the 32-bit formats, sequences of three sub-word accesses and three CSR
  instructions; offsets of 13 bits; directed programs whole, random programs of two
  instructions. `--random-steps` above about 240 would let a random program run into its
  data block at 0x400; the default is 64, and no run looks at longer programs.
* CI: two repositories, one branch, two commits, one move of others, the profiles
  smoke and ci-evidence; listings of one run (two for evidence) with three (two) runs
  in all, so that they overflow; one poll left in each loop, which may be used up.
  After its report a script's world stops. Repositories and commits are symmetric.
* Simulators: seeds 1, 2, 1 (a repeated one), one file, five kinds of program; two
  artifacts and two programs for Spike, one and five for Sail; two programs, two
  signatures, two runs and one edit for compliance.
* Sign-off: two packagers, two trees, one tag, three variants, three runs, one move;
  profiles of three steps (two for smoke), three campaigns, two moves; all seven gaps (`gaps_disagree`
  needs one, the external ISS gap).

### Fairness

`DitDah32!FairSpec` assumes that the clock ticks and that the slave accepts a request
that stays and answers one it has accepted (`AcceptRead`, `AnswerRead`,
`AcceptAddress`, `AcceptData`, `AnswerWrite`). The core has no timeout: it waits for
the slave by design, so this is the bus contract. Weak fairness is enough because the
core keeps a request up until it is accepted. Nothing is assumed of the pins.
`DebugSession!FairSpec` is the same; of the debugger nothing is assumed, and resets and
new requests are alternatives in the conclusions. `DmiLink!FairSpec` assumes that both
clocks run: TCK is the debugger's, and `RequestAnswered` is about a debugger that keeps
clocking while it waits. No TAP state is assumed to be visited, and `io.reset` may do
anything, except that `LinkSettles` asks that it ends up low.

The scripts promise no progress: they may be killed, and GitHub may never answer.
They are checked for safety only, and their models may stop: those runs do not check
for deadlock.

## Proofs

All proofs are checked by TLAPS for every value of the constants that satisfies the
named assumptions. Each proof module EXTENDS the module whose specification the run
checks, so a theorem is about the very formula of the run.

| Theorem | Property of the run | Assumes, besides the modules' ASSUMEs |
| --- | --- | --- |
| `DitDah32Proofs!TypeCorrect`, `PortTheorem`, `LatchTheorem`, `PreciseFaults`, `PreciseInterrupts`, `Refinement` | `TypeOK PortProtocol LatchesMatchProgram FaultIsPrecise InterruptsPrecise ImplementsRV32E` | |
| `DmiLinkProofs!LinkTypeCorrect`, `ConsistentLink`, `HeldErrors`, `PerformedOnce`, `LinkRefinement` | `TypeOK LinkConsistent ErrorsHold PerformsOnce ImplementsDmi` | |
| `DebugSessionProofs!TypeCorrect` | `TypeOK` | |
| `DebugSessionProofs!CommandsReach` | `CommandsReachHart` | `Orderly` |
| `DebugSessionProofs!PortUndisturbed`, `ProgramRefinement`, `AnswersAreOwn` | `PortKept ImplementsProgram AnswerIsOfThisCommand` | `Orderly` |
| `CiScriptsProofs!TruePublication`, `BoundedWrites`, `TrueDispatch`, `OrderlyTriggers`, `TrueEvidence` | `PublicationTrue WritesBounded DispatchIsTrue TriggersAreFollowed EvidenceIsTrue` | |
| `CampaignProofs!PassesCover`, `CompletionIsEarned` | parts of `SignoffEarned`, of the campaign alone | `CampaignConstants`, the latter also `Quiet` |
| `SignoffProofs!SafeRelease`, `EarnedSignoff`, `AgreeingGaps` | `ReleaseSafe SignoffEarned GapsAgree` | the second `Quiet` |
| `SimulatorsProofs!ComparedCampaign`, `LogsCompared`, `SignaturesCompared` | `CampaignCompared IssCompared ComplianceIsTrue` | the last `"bare" \notin Kinds` |
| `IsaProofs!EncodersAgree`, `ModelAndRtlAgree`, `ModelAndRtlTrapAlike` | `EncodersTrip StateAgrees TrapsAgree` | `XLEN = 32` |

The assumptions beside the ASSUMEs are those under which the runs check the same
properties. `Orderly` is a debugger that polls before it resets the hart or switches the
module off; what one that does not can meet is in `debug_reset_reads` and in the list of
divergences. `Quiet` says that nobody edits, commits or builds between the
first and the last call of one campaign or audit; without it `complete` is not earned
(see the divergences). A bare source is one without `begin_signature` and `end_signature`; with
one, a stale signature file counts. `XLEN = 32` is the width of the code; TLC, whose
integers have 32 bits, checks the same formula with words of 24.

### The core

    IInv == TypeOK /\ StraddleHoldsFirstHalf /\ RequestsStable
            /\ ResponsesExpected /\ MemoryPhaseMatchesProgram

None of its parts is inductive alone: `TypeOK` needs `StraddleHoldsFirstHalf` (the
second address of a straddled fetch is aligned only because `pc` is odd);
`MemoryPhaseMatchesProgram` needs the fact that the committed instruction is the one at
`pc` (`CommitsInsnAtPc`), and that needs `ResponsesExpected` (the word that arrived is
the word at `FetchAddr`) and `StraddleHoldsFirstHalf`. Each part has a lemma with one
step per action; `Inductive` joins them. For `Refinement`, `pc` maps to the handler in
state IRQ and `sleeping` to SLEEP; commits and the ends of memory phases are the steps
`Execute`, `Load`, `Store` and `AccessFault`, the end of SLEEP is `Wake`, and all other
cycles are waits.

### The link

    IInv == TypeOK /\ AnswersSucceed /\ OneInRing /\ Awaited /\ AnswerIsTrue
            /\ Blank /\ ErrorsStick

The argument is that of a ring: request toggle, three flops in the core, response
toggle, three flops in the TCK domain; the last is compared with the first by
`outstanding`. A request puts one front into the ring, each edge moves it on, and no
second one enters before the first is out (`OneInRing`). Where the front is says who
may read what: before `requestToggleSeen` the request is not performed, after it the
answer is there and names the address (`Awaited`), and when it is out the answer has
been taken (`AnswerIsTrue`). `Blank` (no request, no answer) is what a reset leaves.
The proof first reduces every edge of TCK to one of three effects on the link
(`ScanEffect`: `Offers`, `DropRequest`, `Keeps`), so that the TAP's sixteen states do
not appear in the rest. `LinkRefinement` maps the place of the front to `phase`: a reset
is `Forget` if it leaves nothing of the request and `Break` if it does.

### The debug modules

    CommandInv == TypeInv /\ RunControl /\ OnePlace /\ CommandMeetsHaltedHart
    SessionInv == CommandInv /\ ResetWaits /\ PortInv
    PortInv    == InState /\ OfProgram /\ ResponsesExpected
    LatchInv   == ModuleLatch /\ HartLatch /\ AnswerLatch

`CommandInv` follows a command from the module to the hart and back: it is in one place
(`OnePlace`), meets a halted hart, and the run-control flags cannot release that hart
meanwhile (`RunControl`). `TypeInv` needs no assumption; from there on `Orderly` is
needed, because a reset or an inactive module in the middle of a command takes it from
the hart's hands. `PortInv` says that a handshake is open only in the state that closes
it and that the slave owes exactly what the hart waits for; `ResetWaits` that a reset,
which forgets the handshakes, meets a hart that has none. The refinement into
`DebugProgram` then goes cycle by cycle: what the core did, and what `Debugged` made of
it. `LatchInv` ties the data and address a command was given to the latched copies
in the module, in the hart and on the bus, and the register a command names to the one
the hart reads or writes, for `AnswersAreOwn`.

### The remote scripts

For the publisher, `IInv == TypeOK /\ ShownIsHosted /\ Known /\ BlockersRespected /\
PassIsPublished`: what the script saw was hosted at some time in its run, its target
and flags are known from the audit on, and a blocker keeps it away from every write.
For dispatcher and collector the hosted workflow is first reduced to two facts:
`RunsSound` (a run's status, job, conclusion and artifact belong together) and
`Grows` (runs are only added, and a completed one does not change). So an old view of a
successful run is still true (`ViewTrue`, `EntriesTrue`), a run rejected because it is
completed stays rejected for good reason (`IgnoredForGood`), and a run listed
before the trigger is not taken although listings are cut off (`OldAreOut`), which
needs that the listing before is at least as long as the ones after.

### Sign-off

Packager: `IInv == TypeOK /\ (\A p \in Procs : RunOK(p)) /\ SumsOfOneRun /\
ReleasedIsAudited`; `RunOK(p)` is what run p knows by the part it is at, and
`SumsOfOneRun` that the checksums in place were computed of one run's staged
archives, so that they match nothing else, whatever was moved over what and whoever
was killed. Campaign: `IInv` counts the steps passed (`Progress`) and
`QuietInv == CampaignEarned /\ AuditEarned /\ Earned(signoff) /\ Earned(copy.signoff)`
says that a report of a clean tree is of that commit; `SignoffProofs` takes both over
by instantiating `CampaignProofs`. Gap audit: `GapsHold` adds to the type the facts that
hold only together because one producer writes them together (`IssTogether`,
`DvTogether`, `RvfiTogether`); the rest is by cases over the gaps.

### RISCV-DV and compliance

`IInv == TypeOK /\ SeedsSettled /\ ArtifactInv` follows a program through the run: a
seed whose scan is over is settled, so that directory, step and scan agree on it, also
when a seed is repeated; once every step has passed, what is in `isa_out_dir` comes from
there (`TracesTrue`), nothing is missing (`Covered`), and what has left the matrix's
list was run and agreed (`Compared`). For compliance,

    GateInv == TypeOK /\ BuiltPlain /\ BuildingPlain /\ SailRecords /\ SailAnswers
               /\ ReferenceAnswers /\ CoreAnswers

follows a signature: builds are of sources that name one (`BuiltPlain`), so Sail's
record of this run is the ISA's signature of the build or a failure (`SailRecords`);
a run in which Sail did not fail has those records in its report (`SailAnswers`) and
in `reference.json` (`ReferenceAnswers`), and a cocotb test passes against that entry
(`CoreAnswers`). A build reused by `--skip-build`, files of earlier runs and edits do
not enter the chain.

### The comparison with Spike and Sail

    IssInv == IssGate /\ Iss!TypeOK /\ IssTypes /\ ReadOnce /\ FreshLog /\ Attempts
              /\ Undecided /\ Iss!PassIsOfThisRun /\ Iss!NotSilentlyPassed

says that the artifact in work is the one that was read, and one of the matrix where only
those are run (`ReadOnce`); that a parsed log was written in this run, because Spike's old
one is gone before the simulator starts and Sail is started once on each artifact, except
by a Sail that never opened its own (`OwnLog`, `FreshLog`); that
retries are bounded (`Attempts`) and that what is not yet decided was not yet run
(`Undecided`). What a failure means then needs the simulators themselves: lemmas on what
Spike and Sail write of a program (`SpikeLog`, `SailLog`) and on what the comparison
accepts (`AgreementAccepted`).

### Encoders and decoders

`EncodersAgree` rests on one lemma per format: its immediate is cut into groups of bits,
the word or parcel is their sum, and each decoder takes the same groups out again.

For the other two, `Agrees(s, t, insn)` says of a state of the model and one of the core
that on this instruction both trap, for the same cause or one either side may prefer
(`OneTrap`), or both go to the same effect (`OneEffect`). `WideAgrees` and `ParcelAgrees`
state it of every instruction of 32 and of 16 bits, in all states that are `Paired`: equal
but for `mstatus.MPP`, which the two keep differently. Under them are lemmas for the
immediates, the ALU operations, the bitwise operators, the byte lanes of a memory word,
the branches and the CSR legalization; a parcel goes through the core's expansion into an
instruction of 32 bits. The invariant is

    Lockstep == the two properties, and until one side halts Paired(model, rtl)

with the start of a suite and the instructions of a program (`PlainInsns`) beside it. In a
program both sides must fetch the same instruction: no two of them start at one address
(`OneInsn`), which for a layout that adds up lengths is shown by taking the least
counterexample, and everything the generator emits, prologue, directed programs and random
instructions, is one both sides execute alike.

`SuitesAssumption`, which TLC evaluates, leaves two things out of a suite that goes on
afterwards, both among the divergences below: a read of `mstatus`, and a set or clear of
a read-only CSR by a register that holds zero. `DrawsAssumption` says what the generator
draws from. Random programs of any length are covered, and any number of suites, starting
states and instructions.

### Only model-checked

* Liveness (`AccessesComplete`, `SleepWakes`, `InterruptTaken`, `RequestAnswered`,
  `LinkSettles`, `HaltTakesEffect`, `CommandEnds`, `ResumeAcknowledged`): fairness and
  ENABLED are out of the prover's reach.
* `TracesMatch`, `ProgramsEnd`: that a directed program reaches its breakpoint and a random
  one does not trap before its end, within the steps given, is the execution of concrete
  programs and an induction over their length. That the two sides agree on the way is
  proved.

## Divergences met in reading

Three are runs (above). The others were found while the models were written; where one
would break a property, the property or an assumption names the exception, so that the
rest is shown.

Hardware:

* An access fault signals `trap` for two cycles (`DitDah32.scala:896`, 920, 930, 942;
  doc/microarchitecture.md:134 says one).
* `mstatus.MPP` reads zero between reset and the first write or trap
  (`DitDah32Csr.scala:80`; the comment at 57 says it is wired).
* A misaligned access through x16..x31 reports the misaligned address, not the illegal
  register (`DitDah32.scala:707`; doc/microarchitecture.md:98). `TrapsAgree` makes the
  exception.
* `dmihardreset` clears the request without its toggle (`DitDah32JtagDtm.scala:203`), which
  an assertion of `formal/ditdah32_jtag.sv:126` excludes; and a core reset that no edge of
  TCK sees makes the module perform the last request again
  (`DitDah32DebugModule.scala:169`). `broken` covers both.
* A halt withdraws a fetch address shown and not accepted (`DitDah32.scala:321`;
  doc/requirements.md:46). `PortKept` asks for data requests only.
* `dmactive` 0 during a command leaves the hart's access going and its completion to
  nobody, or to the next command (`DitDah32DebugModule.scala:190`). `Orderly` excludes it.
* A step whose fetch fails runs on into the handler (`DitDah32DebugHart.scala:370`).
  `DebugProgram!FaultInStep`.

Reference model and RTL, where `StateAgrees` and `TrapsAgree` leave out what differs:

* no register write is reported for compressed hints that the RTL writes
  (`rv32ec_model.py:360`; the generator avoids them at 292 and 296 of
  `rv32ec_isa_regress.py`);
* CSRRS and CSRRC with a register that holds zero do not write, so a read-only CSR does
  not trap (691; the RTL looks at the register number);
* a CSR instruction with an upper destination has written the CSR when it traps (703);
* both bits of MPP are writable in the model, wired in the RTL (200).

The main function of `rv32ec_isa_regress.py` compares the model's trace with itself
(373), and `rtl_trace_schema` copies the memory fields of the expected item
(`test_ditdah32.py:1090`): `TracesMatch` compares what is left, `StateAgrees` all of it.

Scripts:

* `ci_remote_dispatch.py`: after a failed listing an older run is taken for the new one
  (127); a skipped job with the profile's name identifies a run (97).
* `run_sail_iss_smoke.py:375`: a Sail that fails before it opens its trace is judged by the
  old one; `PassIsOfThisRun` names that exception: such a pass is on a log with the
  reference's effects, of an earlier run.
* `run_compliance_sail.py:113`: an old `signature.txt` counts for a bare source; kinds
  exclude it. `run_compliance.py:151`: after a failed Sail run the manifest is not used.
  `run_compliance.py:173`: the test filter is not passed on, the whole suite runs;
  `Other` is empty in the run.
* `run_verification_campaign.py:401`: head and status are read once, before the first
  step; hence `Quiet`.
* `open_gap_audit.py:204`, 377, 690: three gaps close on fewer facts than they list.
  The first is the run `gaps_disagree`. `DriftKnown` states exactly what each may list when
  it is closed (`Unneeded`), and what the RVFI gap needs that no entry asks for, its fault
  configuration and symbiyosys (`Unasked`).
* `package_release.py:416`: the working tree is built whatever the tag names.

## Not modelled

* RVFI and formal runs, the strict Spike run, publish readiness, closure and tool audits:
  lists of calls written into a report; their verdicts are facts of `OpenGaps` and steps of
  `Campaign`.
* Coverage, benchmarks, synthesis and timing scripts: tabulation of finished outputs.
* SVA assertions, formal harnesses, vendored bus models: they observe the core and its
  ports; the stability ones are parts of `PortProtocol` and `PortKept`.
* The interface and parameter declarations, the FPGA wrapper.
* In modelled parts: the shadow CSRs of the trace port (wires), `tdo`, status words of the
  debug module that are only read, the archive format, command lines and wording.

## Plan

Done: the core, the link, the debug modules, model and RTL, and every script that decides
something, each with its run; theorems for all safety properties but two.

Left: `TracesMatch` and `ProgramsEnd` for programs of any length; the command-line entry
points that only call what is modelled.
