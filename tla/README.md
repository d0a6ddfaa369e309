# Formal models of the Ibex core with the extended instruction cache, and of the scripts that verify it

This directory holds TLA+ models of two parts of the repository:

* the processor core in `src/ibex/rtl`, lowRISC Ibex with an instruction cache
  extended by this repository (PLRU replacement, an optional line buffer,
  performance pulses, a fill-buffer throttle), and the optimization variants in
  `src/optimizations`;
* the Python programs around it that run concurrently or decide what counts as
  verified: the proof conductor (`dv/formal/conductor.py`), the regression flow
  (`dv/uvm/core_ibex`, make and the scripts it runs), and the tools in `util`.

TLC checks the models on small instances; TLAPS proves the safety properties of every
component, and that they implement their abstract specifications (`FetchStream`,
`InstrStream`, `ShellService`), for every value of the constants. What stays with TLC,
liveness above all, is said at the end of section 4.

**Core.** A step is one rising clock edge: unprimed variables are the registers
(`*_q`) before it, primed ones after it, and an operator with the name of a
combinational signal is that signal as a function of the registers and the
inputs of the cycle. An input record `in` holds what the surroundings drive in
one cycle. Masks over fill buffers, FIFO entries or ways are sets.

**Scripts.** A step is what a program does between two points at which another
program, coroutine or command can get in between: an `await`, a poll of a process,
opening, truncating or filling a file, the start and the end of a recipe of make.
A script that only computes something is an operator on its input, and a call of one is
a behaviour (`RegressionScripts`).

## 1. Inventory

| Part | State | Operations | Talks to |
|---|---|---|---|
| Icache, fetch side (`ibex_icache.sv`) | prefetch address, IC1 lookup, per fill buffer: busy, age, stale, cache, hit, request/response/output counters, data, errors | lookup and allocate, request, receive, hit, output, write to RAM, release, branch | IF stage, instruction bus, RAMs |
| Icache, invalidation | state, index, key registers (`ibex_top.sv`) | request, wait for key, sweep, restart | RAMs, key manager |
| Icache, RAMs and ways | tags, data, replacement bits, way and victim registers, ECC correction, line buffer | lookup, allocate, evict, correct, sweep | fill buffers |
| Icache, output side | skid half-word, output address | offer, keep half, realign | IF stage |
| Prefetch buffer and fetch FIFO | request, discard bits, outstanding queue, FIFO entries | request, receive, discard, realign, pop | IF stage, instruction bus |
| IF stage, branch predictor, dummy instructions | IF/ID register, skid register, LFSR | predict, pass on, insert | ID, controller |
| Compressed decoder | Zcmp sequencer state | expand one instruction into many | ID |
| ID/EX, controller | FSM, exception, irq, NMI, debug state | take traps, sleep, debug | all |
| Load/store unit | FSM, saved half word, address, errors | split, realign, report | ID, WB, data bus, PMP |
| Writeback stage | one instruction | retire | LSU, register file |
| CSRs, counters, PMP | registers | read, write, trap entry and return | controller, bus checks |
| ALU, multiplier, divider | intermediate results | iterate | ID |
| Conductor, scheduler (`Process`, `ProcessRunner`) | lists `pending` and `running`, per process: command, memory, timeout, future, kill mark | append, cancel, poll (kill, start, drop) | coroutines, operating system |
| Conductor, sessions (`explore`, `prove`) | strategy in hand, counter of AIGER files, jobs; `strategies/step<N>.json` | load, build, answer, store, run, check | scheduler, strategy files, design |
| Regression flow (`wrapper.mk`, `ibex_sim.mk`, scripts) | files and their times, per test: result (`trr`), logs | compile, generate, run, check, collect; interrupt, edit | make, file system |
| Metadata (`LockedMetadata`) | `metadata.pickle`, its lock | lock, load, export, read | all scripts |
| Test selection (`metadata.py`, `ibex_cmd.py`) | none | select, filter, repeat | test lists, configuration |
| Configuration options (`ibex_config.py`, `ibex_cmd.py`) | none | validate, print options, ISA strings | simulators, compiler |
| Command templates (`riscvdv_interface.py`, `scripts_lib.py`) | none | substitute options, values, environment | simulators |
| Tool checks (`check_tool_requirements.py`) | none | read version, compare | tools |
| `sv2v_in_place.py` | the files, temporary copies | convert, copy back, empty headers | sv2v |

What is hard here, and what makes each part correct:

* The **fetch side** runs up to four lookups and a pipeline of bus requests that
  carry no identifier. It is correct if each response reaches the buffer that
  asked for it, the IF stage sees the words of its stream in order, only whole
  and error-free lines go into the RAM, a request once made is held, and nothing
  waits for itself. Allocation, hit, branch, grant, response, output, RAM write
  and release of different buffers all happen in one cycle.
* **Invalidation** may be requested at any time, also while a sweep runs or a key
  is awaited. It is correct if the cache is used again only after every set was
  rewritten under a fresh key, and it ends.
* **RAMs and ways**: a lookup's result is used in the cycle after, a way chosen
  in IC1 is written many cycles later, an ECC correction and a sweep write the
  same port. It is correct if a hit returns the line that was asked for, and
  FENCE.I hides every older word.
* The **prefetch buffer** and the **output side** reassemble instructions of two
  and four bytes. They are correct if both hand over the same instruction stream.
* The **load/store unit** splits accesses; grants, responses, PMP denials and bus
  errors of the two halves come in many orders. It is correct if the bytes, the
  error and the fault address are those of the whole access, and if nothing is
  stored behind a failed access.
* The **controller** gives one order to interrupts, debug requests, faults from
  writeback and special instructions that arrive together.
* The **scheduler** kills, restarts, starts and drops commands while they grow,
  exit and overrun their timeouts and while races cancel their futures. It is
  correct if no command is lost, run twice at a time or answered twice, and every
  awaited command is answered.
* The **sessions** interleave coroutines that share a counter and files, may crash
  at any point, and meet strategy files of other sessions and other designs. They
  are correct if a strategy file holds only proofs that an engine completed, and a
  certificate means that the properties hold.
* The **regression flow** is correct if the verdicts and the summary are those of
  the present sources, whatever was interrupted, failed or edited between two calls
  of make. Results live in pickled files that three scripts load and change, and
  make sees times only.
* The **metadata** are loaded, changed and written back as a whole by several
  scripts: no update may be lost, and no half-written file read.
* The **computing scripts** are correct if they agree with their own definition:
  a log with its verdict, the requested tests with those that run, a configuration
  with the options of every simulator, a template with a full command, a version
  with its place in the order.

`PROJECT.json` lists these parts with what is modelled of each, and the hazards
with the line where each bites.

## 2. Modules

| Module | Models | State |
|---|---|---|
| `FetchStream` | what the cache promises to its output side: words in address order from the branch target on | `pc`, `fetched` |
| `IcacheFill` | fill buffers, lookups, bus requests, word output of `ibex_icache.sv`; `Variant` selects opt1, opt2, opt3 where they differ | the registers listed above, and the queue on the bus |
| `IcacheInval` | invalidation FSM and key handshake | FSM, index, key; `clean_q` is the set of indices swept since the last request |
| `Icache` | extends `IcacheFill` with the RAMs and with `IcacheInval`; a memory whose contents have a version that software advances | RAMs, replacement, way, ECC and line-buffer registers |
| `IcachePerf` | the eviction pulse, and what is said about it and the line buffer | |
| `InstrStream` | what both fetch units promise to the IF stage: instructions in order, errors where they belong | `pc`, `taken` |
| `PrefetchBuffer` | `ibex_prefetch_buffer.sv` with `ibex_fetch_fifo.sv` | request registers, discard and outstanding bits, FIFO |
| `IcacheOutput` | skid buffer, output address and realignment of `ibex_icache.sv` | skid, output address |
| `IcacheComplete` | `Icache` with `IcacheOutput` behind it: one clock, `output_ready` and the word on offer between them | those of both |
| `LoadStoreUnit` | `ibex_load_store_unit.sv`, one operator per FSM state | FSM and saved values |
| `MemPipeline` | `LoadStoreUnit` with what the ID and writeback stages do around it | access in ID and in WB; what the bus saw |
| `ShellService` | what `shell()` promises: a command runs, perhaps several times, at most `MAX_RUNNING` at once, and its future is resolved once | futures, active commands |
| `ProcessRunner` | `Process` and `ProcessRunner` of `conductor.py`; the poll loop is split wherever it looks at a command | lists, kill marks, commands, memory, futures, place in the loop |
| `Conductor` | `explore` and `prove` sessions, their command lines, strategy files, crashes, changing designs | store, strategy, jobs, AIGER files, `proved` (what engines answered) |
| `LogChecks` | `check_ibex_uvm_log`, `process_ibex_sim_log`, `compare_test_run` on sequences of kinds of lines | none |
| `RegressionFlow` | make with its dependency graph, the scripts it runs, interrupts and edits | files, `newer`, recipes, results, logs, versions |
| `MetadataStore` | `LockedMetadata` and its readers, kills, reruns | pickle, lock, copy of each process |
| `TestSelection`, `ConfigOptions`, `CommandTemplate`, `ToolRequirements` | the computing scripts, each with the definition its result is compared with | none |
| `RegressionScripts` | a call of one of these scripts, or of `check_ibex_uvm_log`, on any input; which inputs are possible | `part`, `input` |
| `Sv2vInPlace` | `sv2v_in_place.py` | what each file is, what each conversion read |
| `IcacheFillProofs`, `IcacheStreamProofs` | theorems about `IcacheFill`: the bus; data, output and refinement of `FetchStream` | |
| `IcacheProofs` | theorems about `IcacheInval`, `Icache` and `IcacheComplete` | |
| `IcacheOutputProofs`, `PrefetchBufferProofs`, `MemPipelineProofs` | theorems about the module of that name | |
| `ConductorProofs` | theorems about `ProcessRunner` and `Conductor` | |
| `RegressionProofs` | theorems about `RegressionFlow`, `MetadataStore`, `Sv2vInPlace` and `RegressionScripts` | |
| `MCIcacheFill`, `MCIcache` | instances of the cache | bounds |
| `IcacheFillLive` | `IcacheFill` with fairness, boundedly many branches, and opt3 beside the variant of the configuration | `branches`, `opt3` |
| `MCUnits` | load/store pipeline, invalidation, output side, and `IcacheFillLive`, one per behaviour | `unit` |
| `MCConductor`, `MCRegressionFlow` | instances of the sessions and of the flow | |
| `MCScripts` | scheduler, sessions, flow, metadata, sv2v and the inputs of `RegressionScripts`, one per behaviour | `part` |

The parts of `MCUnits` and of `MCScripts` do not share state in the code; they are put
in one run each because each is small. A session of the
conductor uses the scheduler through `ShellService`: commands of a session end in
any order and with any answer (`Answer`), which is all that the service leaves open,
and `ProcessRunner` is shown to implement the service.

`IcacheFill` takes the outcome of a lookup as an input: no hit, or the data of
the line looked up. `Icache` supplies it from the RAMs and shows that it is such
data (`HitServesItsLine`). `IcacheOutput` takes words in address order
(`WordInOrder`); `IcacheFill` is shown to deliver them so (`StreamInOrder`), and
`IcacheComplete` connects the two without that assumption.

Abstraction, core. A word is the record of its line, beat, the version of memory it
was read from and whether the bus reported an error; a byte of data memory is its
own address. Registers of a free fill buffer are kept at their reset value,
because nothing reads them. `bus_q` is the bus: what was granted and not yet
answered, with ghost fields (`owner`, `nth`, `acc`) that say who asked; no
register reads the ghosts. Addresses wrap at `NUM_LINES`, `NUM_WORDS`, which
keeps prefetching finite.

Abstraction, scripts. A property, a command or a test is a name; a design is the
properties it has, the step of each, and which of them hold; a log is a sequence of kinds of lines;
a file is what it was made from. Times of files are the relation `newer` between a
prerequisite and a target, which is all that make looks at. `proved` (`Conductor`),
`sims`, `logtb` and `unwritten` (`RegressionFlow`), `committed` and `killed`
(`MetadataStore`) are auxiliary: no program reads them. In `ProcessRunner`, memory
is counted in GB, and a process grows from 0 to the memory it needs in one step.

A few notes on reading the models:

* After an error nothing is promised until the next branch (`lost_q`,
  `Lost`): the core takes an exception there. After an unaligned error the
  cache's output address runs ahead of the words consumed, which is harmless for
  the same reason.
* `in.ready` is the ready input in a cycle in which something is offered;
  otherwise it has no effect and is FALSE.
* A store that PMP denies in one half still writes the other half:
  `StoredExactly` says so.
* In `Icache` two ways may hold the same line after a fetch without an
  invalidation in between (`src/ibex/doc/03_reference/icache.rst` asks software
  to invalidate); `HitServesItsLine` is stated for memory that has not changed
  since the last invalidation.
* In `Conductor` a session without `--hard` ends in an exception as soon as a step
  has a missing property: the lambdas of `race()` (`conductor.py:68`) bind their loop
  variables late, and `gather` raises `RuntimeError`. The model does the same
  (`End("crash")`).
* `Answered` is stated for memory estimates that fit: a killed command whose
  `expected_memory` plus the buffer exceeds what is ever free is never restarted.
* In `Conductor`, `proved` holds the entries that an engine answered for, and the strategy
  files of the repository at first. That a crash between `open()` and `dump()` loses a file
  is in the model, and no property denies it: `StoredProved` and `KeepsProofs` say that
  what is left is not taken for more than it is, and not overwritten with less.
* `StampHonest` is about the verdict that is recorded; `stale_verdict` shows that this one
  may be an earlier one. `Rtl` stands for the sources: make looks at `rtl` and `dv` only
  (`wrapper.mk:90-102`), and directed tests do not depend on their sources (`:126`), so an
  edit elsewhere is not seen by make and is not an edit of the model.
* In `Sv2vInPlace`, copying back does not fail and is not killed half way.
* `RegressionFlow` keeps a result over two calls of make because the scripts do:
  `create_metadata` is skipped when the metadata exist.

## 3. Runs

| Run | Question | Instance |
|---|---|---|
| `fill` | order of requests, responses and output; completeness of allocations; `busy_o` | 3 buffers, 2 lines of 2 beats, one line that hits or misses and one that misses, errors anywhere, unbounded branches |
| `cache_fence` | FENCE.I end to end, ECC corrections of data, baseline and opt1 | 2 buffers, 2 lines in one set, one store by software, one invalidation, 2 branches |
| `cache_evict` | replacement, requests held, enable switched at any time, bus errors, ECC corrections of tags | 3 lines in one set of 2 ways, PLRU, 2 branches |
| `prefetch` | FIFO room, discards, instruction stream, no mutual waiting | 2 requests, 3 words, branches to an aligned and an unaligned target, unbounded |
| `units` | load/store pipeline: bytes, errors, fault address, completion. Invalidation: sweeps and keys. Output side: instruction stream, no blocking. Fill buffers: every one is released, no starvation, baseline and opt3 | 2 words, 10 kinds of access (sizes, splits, wrap-around), every PMP setting, with and without writeback stage; 8 sets, 4 keys; 3 words; 2 buffers, 2 branches, cache always enabled, no bus errors |
| `scripts` | the flow: verdicts, summary, builds. Metadata: no lost update. sv2v: edits come last. Computing scripts: equal to their definitions. Scheduler: no command lost, answered twice or waiting for ever, and it implements `ShellService`. Sessions: stored proofs and certificates | 1 riscv-dv and 1 directed test, 8 outcomes of a simulation, 2 calls of make, 1 edit; 2 writers, 1 reader; 4 files; logs of up to 4 lines and the sets of inputs in `MCScripts`; 3 commands, 2 at a time, 13 GB, two commands with a timeout; 2 sessions, 2 steps, 4 properties (one skipped), 5 designs, one with a property that moved to another step, 2 sets of strategy files to begin with, 8 command lines |
| `perf_evict` | the eviction pulse counts evictions | violated |
| `line_buffer` | a line-buffer hit is served its own line | violated |
| `opt2_request` | responses reach requesters in opt2 | violated |
| `stale_verdict` | a regression succeeds only if the logs pass | violated |
| `moved_step` | `--check-complete` fails if a property has no proof | violated |
| `failed_log` | the check of a log that was written does not stop make | violated |

Bounds and why they are enough. Two beats per line already give start in the
middle, wrap, partial request and completion. Three buffers are the smallest
number with an oldest, a youngest and one between them, which the age order
needs; the proof covers the rest. Two ways are the code's own
`IC_NUM_WAYS`; three lines are one more than fits. `MaxBranches`, `MaxInvals` and
`MaxKeys` bound runs of the large compositions only: a fence needs one branch
before it and one after it. In those runs the IF stage takes each word when it
is offered (`MCIcache`); stalls are explored in `fill`. `Versions` = {0, 1} is one
change of memory.

Two simulations of a test, with an interrupt and an edit between, already mix old
and new results, logs and testbenches in every way make can see; a second test lets
one be up to date while the other is not. Three commands are one more than run at
a time, and the memory is such that two of them do not fit together while each does
alone: kills, restarts and starts alternate. Two sessions are one that stores and
one that finds what was stored, perhaps for another design; two steps are what an
assumption needs. Every other size is covered by the proofs, also for the computing scripts: their
inputs in the run are short sequences, the theorems are about all sequences.

What the properties of the runs say is written beside their definitions. In short:
`IInv` (age order, bus contents, lookup, words held, order of the lines), `CacheInv` (tags and data paired, ways known),
`PrefetchInv` (room, queue), `BusInv` and `ResponseRight` (load/store), `SweptSafely`
(invalidation), `OutputInv` (skid buffer), `RunnerInv` (lists, futures and commands
agree) are invariants with named parts.

`CHECK_DEADLOCK FALSE` is set in `scripts`, `stale_verdict`, `moved_step` and `failed_log`: sessions,
calls of make and files to convert are finite in number, and an input of a computing
script does not move. The clock of the core always ticks, so the other runs check
for deadlock.

### What the violated runs show

* **Evictions are never counted.** `fill_evict_d` (`ibex_icache.sv:824`) is not
  held, so `fill_evict_q` is high only in the cycle after IC1, in which no buffer
  can write the RAM. `perf_ic_evict_o` stays low although valid lines are
  overwritten; the comment at line 923 and `docs/performance_counters.md:19`
  say that they are counted.
* **Line buffer (`ICacheLineBuffer` = 1).** The address is compared in IC0 and the
  data are read in IC1; a capture in between (`:1281`) serves another line.
* **opt2.** `instr_req` (`opt2_sequential_line_buffer.sv:967`) is not masked by a
  line-buffer hit while the buffer's own record of the request is, so a request
  is on the bus that nobody counts. The documented co-simulation failure of that
  variant (`docs/optimizations.md`) is of this kind.
* **A stale pass.** When the log of a simulation shows a failure, `compare_test_run`
  (`check_logs.py:63`) sets `failure_mode` and not `passed`. The result is a pickled
  file that outlives a call of make, so a test that passed, was edited, and now
  fails is still counted as passed by `collect_results.py`, and make succeeds.
  `FirstVerdict` (in `scripts`) shows that the first verdict of a test is right.

* **A property that moved to another step.** `--check-complete` compares the names of
  the design's properties with the names in the strategy files (`conductor.py:646-650`).
  Their steps come from the present `build/all.ywmap` (`:726-731`), and
  `aig-manip select` (`main.rs:144-156`) keeps a name only if its step is that of the
  entry. A strategy of a design in which a property had another step thus counts as
  its proof, nothing asks an engine about it, and `prove --check-complete`, which the
  workflow `ci-formal.yml` runs, ends with 0, against the help text (`:542`): "fail if
  there are unskipped properties without proofs". In the trace the property does not
  hold. `CertificateSound` therefore has the premise `Unmoved`, and says that no other
  staleness of the strategies leads to a wrong 0.
* **A failure without an error line.** The testbench writes FAILED after a UVM_WARNING
  too (`core_ibex_report_server.sv:13-20`), and then no line before it need be an
  error. `check_ibex_uvm_log` guards its first use of the error line (`:237`) and not
  the second (`ibex_log_to_trace_csv.py:245`): `TypeError` leaves `check_logs.py`, whose
  recipe fails, so make stops before the results are collected. Its comment
  (`check_logs.py:99-101`) says "Always return 0 (success), even if the test failed
  [...] we don't want to stop Make from gathering them all up for us", and the
  docstring (`:180-182`) that the function reports the failure. `VerdictsRight` says that
  whatever verdict is given is right, and that this is the only case without one.

Differences between code and documents that have no run, core: the data write
pulse is the tag write strobe (`:298`), so it also fires for sweeps and ECC
corrections; and a way that was valid when the victim was chosen (`:441`) may be
empty by the time the other is overwritten, against "invalid-first"
(`docs/methodology.md:42`). Scripts:

* `TEST=all` selects no directed test, against "Use the special name "all" to run all
  the tests" (`metadata.py:266`). `directed_matches` does as the code does.
* `filter_tests_by_config` appends a test once for every parameter it meets until the
  first it does not meet (`ibex_cmd.py:159-187`). A test with two parameters of which
  the second is not met stays in the list, against the docstring ("all incompatible
  tests removed", `:144-147`); one with two that are met is there twice; one whose
  `rtl_params` is `{}` is dropped. `TestsRight` says what holds for the entries that the
  repository's lists have (one parameter, or no key), and for any other that only an
  empty `rtl_params` loses a supported test.
* `subst_env_vars` raises an error for a listed variable that is not set, whether or not
  a command uses it (`scripts_lib.py:160-165`); the docstrings say "If <V> occurs in
  the string" (`:154-157`, `riscvdv_interface.py:105-108`, `119-120`). `CommandsRight` says
  that a command given out is right and that something left to fill is an error; it
  does not count the other error as promised, and allows it.
* `VcsToolReq` writes service pack and patch behind the month; "This should work as
  long as the patch version isn't greater than 99" (`check_tool_requirements.py:263-265`).
  It does not for two versions of one year when the earlier month has more digits
  behind it: 2020.12 becomes 2020.120, and 2020.03-SP2 becomes 2020.03200, which is
  greater. `Comparable` excludes exactly these, and `ToolsAreChecked` holds for the rest.

Seen while modelling, without a document that says otherwise: the failure mode
`TIMEOUT` is never cleared; an interrupted `run_rtl.py` leaves `trr.yaml` newer than
`rtl_sim.log`, so that make may skip `check_logs.py`; `run_instr_gen.py` returns 0 when the
generator failed; readers of `metadata.pickle` take no lock. The models do what the
code does in each case.

### Fairness

All fairness is weak.

* `units`: the clock; a grant for a request that stays on the bus; an
  answer to what was granted (both rules of the bus protocol,
  `doc/03_reference/instruction_fetch.rst` and `load_store_unit.rst`); the IF stage
  taking a word that stays on offer; the first branch after reset (the core jumps to
  its boot address); the key manager answering. A core that branches in each cycle
  never consumes a word, so the fill buffers of `units` see two branches at most. There
  the cache is always enabled and the bus reports no errors; a buffer that loses
  cacheability or has an error is in the safety properties of `fill`, not in `Released`. For the prefetch buffer the
  absence of mutual waiting is the invariant `NeverWedged`, which is proved.
* `scripts`, for the scheduler: the event loop calls `poll()` again (`call_later`); a command that is
  left running exits, or overruns its timeout if it has one. No fairness is assumed
  of starting: that every awaited command gets its turn is what `Answered` shows,
  through any series of kills.

## 4. Proofs

Each theorem is about the specification the runs check, for every value of the
constants that satisfies the assumptions of its module. One specification is in no run:
`CompleteSpec`, whose states are the products of those of `cache_evict` and `units`.
TLC checks its two halves, and the proof joins them.

| Module | Theorem | States | Holds for every |
|---|---|---|---|
| `IcacheFillProofs` | `BusInductive` | `Spec => []BusIInv` | number of buffers, lines, beats, throttle |
| | `TypeCorrect`, `AgeOrderCorrect`, `ArbitersOneHot` | `Spec => []TypeOK`, `[]AgeOrder`, `[]ArbOneHot` | |
| | `ResponsesReachRequesters` | `Spec => []ResponseReachesRequester` | |
| | `BusyCorrect` | `Spec => []BusyCoversBus` | |
| `IcacheStreamProofs` | `InductiveInvariant` | `Spec => []IInv` | as above, and any lookup results |
| | `WritesAreComplete` | `Spec => []CacheWriteComplete` | |
| | `RequestsHeld` | `Spec => RequestHeld` | |
| | `StreamRefinement` | `Spec => StreamInOrder`, the refinement of `FetchStream` | |
| `IcacheProofs` | `InvalidationComplete` | `InvalSpec => []SweptSafely` | number of sets, with and without scrambling |
| | `CacheInductive`, `CacheConsistent` | `CacheSpec => [](CacheIInv /\ InvalInv)`, `[]CacheInv` | as `IcacheFill`, and sets, replacement, ECC events, memory versions; baseline and opt1, with and without line buffer |
| | `CacheResponses`, `CacheRequestsHeld` | `CacheSpec => []ResponseReachesRequester`, `RequestHeld` | |
| | `FenceInductive`, `HitsServeTheirLines`, `CacheIsFenced`, `FenceWorks` | `CacheSpec => [](FenceIInv /\ InvalInv)`, `[]HitServesItsLine`, `[]FencedCache`, `FencedFetch` | the same; baseline without line buffer, opt1 with three lines or more |
| | `CacheStream` | `CacheSpec => StreamInOrder` | the same, one version of memory |
| | `CompleteServes` | `CompleteSpec => OutputServed`, the refinement of `IcacheOutput` | |
| | `CompleteDelivers`, `CompleteAgrees` | `CompleteSpec => WholeStream`, the refinement of `InstrStream`; `[]SidesAgree` | |
| `IcacheOutputProofs` | `OutputCorrect` | `OutputSpec => []OutputInv` | address space |
| | `OutputStream` | `OutputSpec => InstrsInOrder`, the refinement of `InstrStream` | |
| `PrefetchBufferProofs` | `FifoNeverOverflows`, `NoDeadlock` | `Spec => []PrefetchInv`, `[]NeverWedged` | number of outstanding requests, address space |
| | `RequestsHeld` | `Spec => RequestHeld` | |
| | `StreamRefinement` | `Spec => InstrsInOrder`, the refinement of `InstrStream` | |
| `MemPipelineProofs` | `InductiveInvariant`, `BusCorrect`, `ResponsesRight` | `Spec => []MemIInv`, `[]BusInv`, `[]ResponseRight` | memory of two words or more, accesses, PMP settings, with and without writeback stage |
| `ConductorProofs` | `RunnerCorrect` | `RunnerSpec => []RunnerInv` | commands, processors, memory, estimates |
| | `RunnerImplementsService` | `RunnerSpec => ServiceSpec` | |
| | `StoreSound` | `Spec => []StoredProved` | properties, designs with their steps, first strategy files, command lines, sessions |
| | `CertificateCorrect` | `Spec => []CertificateSound` | the same; no property at another step than the strategies say |
| | `ProofsKept` | `Spec => KeepsProofs` | |
| `RegressionProofs` | `StampIsHonest` | `FlowSpec => []StampHonest` | tests, goals, outcomes, calls, edits |
| | `FlowInvariant`, `VerdictsAreEarned`, `BuildIsCurrent` | `FlowSpec => []FlowIInv`, `[]FirstVerdict`, `[]CurrentBuild` | |
| | `NoLostUpdate`, `TornOnlyUnderLock` | `StoreSpec => []CommittedStays`, `[]TornIsGuarded` | writers and readers |
| | `NothingHalfConverted` | `Sv2vSpec => []EditsLast` | list of files |
| | `EveryVerdictIsRight` | `ScriptSpec => []VerdictsRight` | log |
| | `EveryTestIsRunOnce` | `ScriptSpec => []TestsRight` | test lists with distinct names, request, parameters of the core; each TEST.SEED once if entries have one parameter or no `rtl_params` |
| | `EveryFieldIsSet` | `ScriptSpec => []BuiltAsConfigured` | fields and their types, configuration |
| | `EveryCommandIsFilled` | `ScriptSpec => []CommandsRight` | template, options, values, environment |
| | `ToolsAreChecked` | `AreTools(reqs, installed) => ToolsChecked(reqs, args, installed)` | tools, requirements, versions that are `Comparable` |

### Fetch side of the cache

Assumptions: `ParamAssumption` and `InputAssumption` on the constants, and, except
for the age order and the arbiters, `MasksAgree`: the variant is the baseline or
opt1, or there are no line-buffer hits. `opt2_request` shows that it is needed.

Argument. `ResponseReachesRequester` is not inductive: an untagged response is
given to the oldest buffer that expects one, so what has to be known is the
whole content of the bus. `BusIInv` is the conjunction of

* `TypeOK`, and `AgeOrder`: `fill_older_q` is a strict total order on the busy
  buffers;
* `Started`: busy buffers have addresses;
* `BusInv`: the bus queue is exactly the words the buffers counted as requested
  and not received, sorted by age and beat (`BusMatchesCounts`); an older buffer
  is done requesting before a younger starts (`ExtInAgeOrder`); being done is
  stable (`DoneStable`); a request on hold has a word left (`HoldNotFull`) and a
  request the bus waits for is on hold (`WaitHeld`).

Each clock edge is one step; the lemmas are one per conjunct and per group of
registers. The head of the queue then belongs to the oldest expecting buffer
(`HeadOwner`), which is the theorem about responses; `busy_o` covers the bus
because every entry belongs to a busy buffer that is not done receiving.

Data and output (`IcacheStreamProofs`) need to know what a buffer holds and in which
order buffers are emptied. `IInv` adds to `BusIInv`

* `LookupInv`: the lookup in IC1 is that of the youngest busy buffer, so a hit is
  stored in the buffer of its line;
* `ReceivedHeld` and `HitHeld`: a received beat is that word of the buffer's line, with
  its error bit exactly if the bus reported an error; a buffer that hit holds its
  whole line;
* `OutInv`: what is output was received, and (`Consecutive`) the buffers with words to
  output have consecutive lines in the order of their age, the oldest being at the
  output address and the prefetch address behind the youngest;
* `WaitAddr`: the address of a request that waits is that of the buffer on hold.

`Consecutive` is what makes the output a stream: when the oldest buffer is done, the
next in age continues where it ended, and a branch makes all of them stale at once.
`CacheWriteComplete` follows from `ReceivedHeld` for a buffer that received every beat
without an error (`LineComplete`).

### The whole cache

Assumptions: `CacheAssumption`, `InvalAssumption`, and those above. Here hits come from
the RAMs, so the invariant of the fetch side is used in two parts: `FetchInv` is
preserved whatever a lookup returns (`EdgeFetchInv`), `HitHeld` only if a hit is the line
looked up (`HitPreserved`).

Invalidation. `SweptSafely` needs `KeyFresh` (a valid key is newer than the last accepted
request, and outside of the waiting state the key is valid) and `NothingSwept` (before
the first sweep nothing counts as swept).

Consistency, for the baseline and opt1 (`WithMasks`), also with a line buffer. `CacheIInv`
adds to `FetchInv` that every valid tag has its own line's data (`RamHoldsItsLines`) and
that a buffer that may write has its way or is in IC1 and gets it (`WayChosen`);
`FetchInv` is what makes the data written those of the tag written.

FENCE.I, for the baseline without a line buffer and for opt1 (`LineBufSafe`); with the
baseline's line buffer, `line_buffer` shows that hits are wrong. `FenceIInv` compares versions: while memory is as it was at the
latest request, every set swept since and every word a buffer may still write is of that
version (`Fenced`); while it is as it was for the current stream, so is every word that
stream will get (`Floored`). Both are implications because software may
change memory at any time, and are inductive because versions only grow and because a
request empties `clean_q` and `fill_cache_q` (`RequestEmpties`), so nothing is claimed of
older contents. `LookupsInUse` keeps lookups out of a sweep and an ECC correction out of
its way. opt1's line buffer holds the line before the one that is looked up, or that
will be (`LineBufPlace`), so only a branch hits it, and that lookup empties it: what it
reads in IC1 is what it found in IC0 and, by `LineBufFenced`, of the right version. With
only two lines in all memory, the line after the next is the line itself: the theorems
assume three lines or more, the run has two.

`CacheStream` puts the two modules together: with code that does not change, the RAMs
are the environment that `IcacheFill` takes for granted (`HitsAreLines`), and the whole
cache implements `FetchStream`. With code that changes and no invalidation, two ways may
hold a line in two versions, and a hit is the OR of both: `FencedFetch` says what holds
then.

### Output side

Assumption: `OutputAssumption`. `OutputIInv` relates the skid buffer, the output address
and the next word: the skid half-word, if valid, is the one at the output
address, and the next word continues behind it (`SkidMatchesAddress`). The refinement
goes by the cases of alignment, of a kept half and of compressed or whole
instructions, and of the word's error.

Both sides together (`IcacheComplete`, in `IcacheProofs`). A step of the two is one of `IcacheOutput`
whose next word is the register `out_addr` of the fetch side: what is on offer is that word
(`WordOnOffer`, with the RAMs by `HitsAreLines`), and the register moves when the output side
consumes it, from line to line and round the end of memory as `word_addr` does (`HalfOfNext`).
`CompleteServes` is this refinement. The theorems of `IcacheOutputProofs` are then used for an
address space of `NUM_LINES * IC_LINE_BEATS` words, whose assumption is `OutputAssumed`:
from bus and RAMs to the IF stage, the cache implements `InstrStream`, as the prefetch buffer does.
Assumptions: those of `CacheStream`.

### Prefetch buffer

Assumption: `PrefetchAssumption`. The bit vectors of valid entries, outstanding
requests and discard marks are runs of ones from bit 0, so the state is three
lengths: v entries hold words, n requests are outstanding, d of them, the oldest,
are cancelled. `PrefetchIInv` is `TypeOK` with `v + n - d <= DEPTH`, strictly less while a
request that is not cancelled waits for its grant, and d = n while a cancelled one
waits. The overlay of FIFO and requests in `fifo_ready` is then the comparison of v + n
with `DEPTH` (`AtMostOne`); without the part about waiting requests a grant could use
up room that nobody had kept. What `PrefetchInv` says in bits and cardinalities
follows (`FromLengths`).

For the stream, `StreamIInv` says also which words these are (`Follows`, `Contents`): the
entries of the FIFO, then the requests that are not cancelled, then the one that waits
for its grant, then the next fetch address, are consecutive from the word of the next
instruction (`Expected`). An instruction handed over is then made of the first one or
two of them, with the error of the half it needs. `NoDeadlock`: without a whole
instruction on offer entry 1 is empty, because entries fill from 0, and with
nothing on the bus that is room for a request.

### Load/store unit

Assumptions: `PipelineAssumption`, and `LsuAssumption` (two words or more: with one, both
halves of a split access would be the same word). The access in the unit is in exactly
one phase (`Phase`): none, first or second word waiting for its grant or for its
answer, each with and without a failure behind it. The phase fixes the state of the
machine, the bus queue, the stage the access occupies and what is remembered of the
first word; `MemIInv` is `TypeOK`, `NextAccess` (without a writeback stage only ID is
occupied, and between accesses the next one has its first cycle) and `PhaseInv`. There is one lemma per phase and event. `ResponseRight` and
`RequestHeld` of a step are conjuncts of it because they speak of registers that
record what the step did.

### Conductor

Scheduler: `ConstantsAssumption` only. `RunnerInv` is inductive as it stands; the work
is in the lists, from whose ends and middle processes are taken (`RemoveFacts`,
`FrontFacts`). The refinement maps the list `running` to the set of active commands;
steps of the loop that change no list are stutters.

Sessions: `ConductorAssumption` only. `IInv` adds to `StoredProved` that an engine reads
the file made for its own entry (`OwnFiles`), that the answers in hand are true of the
design (`AnsweredProvable`), what `prove` has checked when it reaches its end
(`Selection`, `EndOfProve`), and that a strategy to be stored extends the stored one
(`Extends`). `CertificateSound` then goes by the lowest step with a property that does not
hold (`LowestStep`): its entry keeps it, as it has not moved (`Unmoved`), the properties
assumed for it hold, so its proof was a proof.

### Regression

Flow. `StampHonest` is inductive once the files are told apart (`Names`); a
script that changes a result exports it, which makes `regr.log.stamp` out of date
(`Exported`), and no other file that is written, removed or edited makes it up to
date again (`OtherWritten`). `FirstVerdict` and `CurrentBuild` need `FlowIInv`: make runs a
recipe only when none of the files it is made from is still to be made (`Ordered`); a
testbench that is up to date is of the present sources, and a log that is up to date
of the present testbench (`Fresh`); what make found out of date when it was called
and has not run is all that can be out of date since (`Snapshot`), although it looks at the
times once; and PASS for a test simulated at most once is what its log says (`Verdicts`).

Metadata: `KindsDiffer`. The holder of the lock has loaded all that was committed
(`LoadedAll`). sv2v: while it converts, and after a failure, all files are
untouched (`Sv2vInv`).

Scripts: `ScriptInputsAssumption` and `KnownFieldsAssumption` say which inputs there are:
entries with distinct names (all that `testlist.yaml` and `directed_testlist.yaml` list),
options that use no other option, values without holes, fields of the three types that
`ibex_config.py` knows. A behaviour of `ScriptSpec` is one call,
so a theorem is what a lemma says about every input.

* Four of the scripts go through a sequence, and so do the proofs: `UpTo` is induction up
  to the length, from the least element of a set of numbers (`WFMin`). The folds of the
  community modules choose a recursive function on sets, which is what its
  equation says only if such a function exists; `Iterated` shows that it does, `Steps` and
  `Flattened` turn it into one state after each element.
* Log: `Known` says what the reader knows after k lines, in the words of the docstring: a
  result seen, FAILED seen, the last error line before the first result. Each kind of line
  preserves it (`KnownOnward`), after FAILED because the reader does not move.
* Tests: what each stage makes of a list is a set of entries and no duplicates (`AskedAre`,
  `FilteredAre`, `PickledAre`); the sets compose to the definition, and no duplicates come
  in because names are distinct and an entry with one parameter, or without the key, has at
  most one copy (`CopiesFacts`). `Raises` says when the filter ends in an error.
* Configuration: a parameter and a macro have their outputter at exactly one of the two
  stages (`SetAtStage`).
* Commands: substituting one entry after the other is a replacement of each word
  (`SubstDict`), because the texts put in have no holes that a later entry fills; two replacements
  in a row are one (`ApplyApply`); so three dictionaries are one look-up (`FillIs`).
* Tools, which is about operators only: the comparison of padded tuples is the order of
  versions (`PaddedOrder`, `CheckIsOrder`). For VCS, whose month, service pack and patch
  become one number, it is so for versions of different years or of one month, and for
  two months of one year if the later has as many digits behind it (`VcsOrder`, from
  `Written` and `LaterMonth`). TLC evaluates the same statement on a set of versions as
  the assumption `ToolsAssumption` of `MCScripts`.

### Only model-checked

* Liveness, which the prover does not do: `Released` and `KeepsFetching` of
  `IcacheFillLive`, `InvalEnds` (`SweepEnds` of `IcacheInval` in its run),
  `AccessesComplete`, `Answered`.
* `HitServesItsLine`, `FencedCache` and `FencedFetch` for opt1 when all memory is two
  lines, as in `cache_fence`.

## 5. Not modelled, and why

* ECC codes bit by bit (an error is an event), `BranchCache` = 1, opt3's line
  buffer. opt4 is the baseline with another `FB_THRESHOLD`.
* Interrupts, debug and special instructions that kill the instruction in ID in
  `MemPipeline`; instructions without memory access appear as cycles without
  one. Sign extension, and the integrity code on the bus.
* Random sources (dummy instructions), the lockstep copy (the same logic
  twice), tables from bits to bits (decoders), register maps.
* Conductor: the modes `bmc` and `info`; the bisection of `build_strategy_rec`, which only
  runs without `--hard`, where `race()` raises first; logging.
* Configuration: the outputters for FuseSoC and for queries, which print fields.
* Report writers, the generator of the directed test list, plotting and comparison of
  results, edits on generated properties (`smt2manip.py`, `fix_bugs.py`): text and
  arithmetic in one pass, without state.
* Test benches, vendored IP, synthesis scripts: not part of the core or of the flow.
* The controller's state machine (interrupts, NMI, debug, single step, WFI) with the
  trap state of `ibex_cs_registers.sv`; the IF/ID register with the branch predictor;
  the Zcmp sequencer. They are within reach and left for later, see below.
* Arithmetic of ALU, multiplier, divider, and PMP matching at 32 bits: out of TLC's
  reach except at a width at which the carries that matter do not occur.

## 6. What is left

1. `Controller` with the trap state: interrupt, NMI and debug entry and return,
   integrity-error NMI, special requests that wait for writeback. Properties: each
   trap saves the pc of the first instruction not executed; an NMI does not lose the
   state of an interrupted handler; sleep is left; single step executes one
   instruction.
2. `IfStage`: IF/ID register and the predictor's skid register over `InstrStream`,
   composed with `PrefetchBuffer` or `IcacheOutput`.
3. `ZcmpSequencer` against the list of instructions the manual gives, with interrupts
   between steps; `MultDiv` and `Pmp` at a small width.
4. opt3's line buffer and `BranchCache` as variants of `Icache`.
5. A run of `IcacheComplete` with stalls of the IF stage, once its states are few enough.
