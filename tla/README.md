# Verification of the near-data offloading tools

This directory holds TLA+ models of the programs in this repository that have
behaviour of their own: the load generator `faasmspeed`, the monitoring daemon
`statmon` and the experiment the two make together, the memory-reset benchmarks
`faultspeed`, the access tracer `pin-NearMAP` with its `analyse-results`, and
the DPU programs of `memspeed`. The models are checked with TLC on
small instances; every safety property that a passing run checks is also proved
with TLAPS, for every instance.

## 1. Inventory

| Part | State | Operations | Interacts with | What is hard | What makes it correct |
|---|---|---|---|---|---|
| `faasmspeed` (`faasmspeed/src/main.rs`) | barrier, `SharedState` counters, per function: period counter, pool index, join handles; connections to monitoring hosts | test request, request loop, one task per request, progress task, `[`/`]`/`q` to the hosts, report (intervals, quantiles, moments) | Faasm over HTTP (external), `statmon` over TCP | four barriers among N+1 tasks, counters read while they change, requests that fail, hosts that fail or do not answer, results rewritten in place, wrapping arithmetic | load lies inside the monitored range; no deadlock; counters agree at the report; the requested offload fraction is met; what is printed describes the answers |
| `statmon` (`statmon/src/*.rs`) | one `Stats` behind a mutex: values, aggregates, `in_range`, references of the readers | timer update, `[`, `]`, `?`, `q` on any number of connections | `/proc`, perf events (external), clients | all clients share one range; updates fail midway; clients vanish; counters step back | a range is measured exactly; aggregates describe one set of samples and are frozen after `]`; every `]` is answered or its connection ends |
| `faultspeed` (`faultspeed/src/faultspeed.cpp`) | per thread a `WMemory` (size, pages, protection); one `UffdHandler` (mappings, snapshot, fault counter, workers) | restore, read, write, grow; fault, find, check, fill; add, remove; replace the handler | kernel (userfaultfd, SIGBUS), Google Benchmark's barriers | faults of many threads served by many workers; the handler uses memory without the lock and is itself replaced between benchmarks; reused mappings hold old data | memory restored, old data gone, no illegal access, each fault answered and counted |
| `pin-NearMAP` (`NearMAP.cpp`) and `analyse-results` | logical clock, last read and write per page, phase boundaries, counters; the log | read, write, basic block, I/O, phase change, exit; parse, report | Pin (external), each other through the log | phases are recovered from time stamps; names shifted by one line | per phase, exactly the pages read and written, dead writes, new reads, I/O and instructions |
| `memspeed` (`upmemdpu.cpp`, `dpusrc/*.c`) | buffers in the DPU's memories, the tasklets' positions | load, launch, copy word by word or by DMA | UPMEM SDK (external) | tasklets share a cache; sizes in bytes and in words | every word is copied once, nothing else is written, the reported number of bytes is the copied one |
| `ndoffloadsim` | none | none: data types and a greeting | - | - | - |
| stub library, test program, graphs, scripts, vendored benchmark library | - | - | - | - | not modelled, see section 7 |

`PROJECT.json` lists the hazards with the line where each bites and the
properties that would catch it.

## 2. Modules

| Module | Models |
|---|---|
| `OffloadFraction` | the arithmetic of `run_function`: period counter, offload decision, pool index |
| `RequestGenerator` | one function's request loop alone: the abstract specification of the generator |
| `FaasmSpeed` | the whole process: `async_main`, `run_function`, request tasks, progress task |
| `Report` | the end of `async_main` and `print_stats`: what is printed of one function's answers and errors |
| `Stats` | `struct Stats` as a value and its methods as operators |
| `StatMon` | the server: timer, connections, commands, failures; the host's counters |
| `Experiment` | `FaasmSpeed` and `StatMon` composed over their connection, with the host that executes the requests |
| `NetDev` | which field of `/proc/net/dev` becomes which statistic |
| `NearMAP` | the tool's analysis routines, the log, the parser and the CSV rows |
| `WMemory` | `struct WMemory` as a value and the ways to resize it |
| `FaultSpeed` | suites of benchmarks in one process: bodies, threads, `UffdHandler` and its replacement |
| `DpuCopy` | `BM_dpu_copy_within` and the tasklets of `wramcopy.c` and `mramcopy.c` |
| `MC...` | the values of the constants for TLC |
| `SequentialProofs` | theorems and proofs about `RequestGenerator` and `Report`, the parts of `faasmspeed` that run in one task |
| `FaasmSpeedProofs`, `StatMonProofs`, `ExperimentProofs`, `FaultSpeedProofs`, `DpuCopyProofs`, `NearMAPProofs` | theorems and proofs about the module of that name |
| `SumTheorems` | facts about sums over finite sets, and about least elements, that the proofs need |

Names ending in `_Something` after the name of a definition (`Wrap_ToZero`) are
deliberately wrong variants: for each property there is one that TLC finds to
violate it, so that the property is known to depend on the code.

### FaasmSpeed

`mpc`, `fpc[f]`, `ppc` are the points where `async_main`, a function's task and
the progress task stand between two awaits or two accesses to shared state; the
tasks run on several threads, so every access to an atomic is a step. `phase`,
`arrived` and `gen` are tokio's barrier: `Arrive(p)` is the call of `wait()`,
`Passed(p)` its return. `mlink[h]` is the last thing done on the connection to
host `h`. `reqs[f]` is the sequence of request tasks that `f` has spawned, each
with its pool entry, whether it may be offloaded and its state. Every `?` and
`expect` is a choice between going on and ending the process; the release
profile (`panic = "abort"`) is modelled. The HTTP exchange is its outcome.
`opts` holds what decides about control: `oneshot`, `dry_run`, the sign of `time`
and the functions with a rate of 0. A time of 0 gives empty loads, a negative one
fails the assertion at `:229`, a rate of 0 panics at `:244`.
`Gen(f)` instantiates `RequestGenerator` with the locals of function `f`:
`GeneratorsRefined` says that whatever the other tasks do, each function sends
what its generator prescribes.

### Report

The answers and errors of one function, from the join of its task to the last
printed column; each step is one statement that rewrites the vector, or one
iteration of the loops that part the results and that make the intervals. (With
several functions the error texts are counted together, the rest per function.)
An unstable sort is any permutation that is sorted. u128 is modulo `Word`. Times
are small numbers, the square root is left out. The properties compare with what
is read off the answers in the order of the requests: the value of a rank
(`HasRank`), the values in order (`Ordered`), sums of integers.

### Stats and StatMon

About sixty statistics are kept in five ways, and there is one statistic for
each way: gauges; signed differences to a reference (`upd_net`); unsigned
differences of two stored totals (`CpuStat`, and `IoStat`, which is read last);
perf counters. `Failures` names the places where `?` leaves `update()`, and
`Published`, `Totals` say what each has already changed. u64 arithmetic is
modulo `Word`, and so are the sums, which are i64s (`AddI64`). The host's counters have one entry per disk and per CPU: `IoStat`
keeps the last disk's, `EventStat` sums up the CPUs before the first one
(`Closed`) on which a counter cannot be opened. The runtime is single-threaded and no handler awaits while it
holds the lock, so one command byte or timer tick is one step. `span` is a
history variable: who measures since when.

### Experiment

The variables of both programs side by side. A step of `async_main` on the
connection is conjoined with what it does to `statmon`'s side: `Connect`
succeeds iff the daemon listens, a written byte lands in the handler's inbox, a
write fails only on a connection that has ended, `read_line` returns a packet or
the end of the connection. Failures that `FaasmSpeed` alone leaves to chance thus
need a cause in `StatMon`. `Execute` is the host executing a request that was
sent, perhaps after its timeout: one unit of work on some disk and CPU. Another
client sends any of the range commands. `early` counts the requests executed
before `statmon` has taken `[`. What the daemon does after the load generator has
ended is not followed.

### NearMAP

`accessState` is the struct; the routines map it to its next value. The traced
program is any sequence of reads, writes, read-writes, basic blocks, I/O calls
and phase changes. `truth` is a history variable with the bytes each phase
touched, each instruction having at most one read operand and always executing it:
`NearMAP.cpp:155-158` inserts one call for the first read operand, and none that
asks for the instruction's predicate. `Parse` and `Row` are `analyse_file`.

### WMemory and FaultSpeed

A page is missing, zero, a snapshot page, or data of the k-th invocation. A
benchmark body is a sequence of operations, each touching its pages one after
the other; touching a missing page of a registered mapping stops the thread.
`handling[h]` is one execution of `handleOne`, by a worker or, for SIGBUS, by
the faulting thread itself; it has a step for each of: event read, mapping found
under the lock, bounds checked and fault counted without it, page filled and
thread woken. `suite` is the selection of benchmarks the process runs; `hps` is
the one handler object, which the first thread of a benchmark of the other kind
replaces. A worker of the old object that sleeps in `read` stays there (closing a
descriptor wakes nobody); one on its way to `read` finds the new object's
descriptor or a closed one (`EnterRead`). The latter is a use of freed memory,
reduced to these two outcomes: another object of the same class is at the place of
the old one, or nothing is. A host with a single hardware thread, for which
`hardware_concurrency() / 2` is 0 and every call of `uffdHandler()` makes a new
object, is left out.

### DpuCopy

`buffer_b` maps each word to the word of `buffer_a` it holds; what it held before
is one value, `Before`. `tasklet[t]` is where tasklet t stands: in its loop, or
between `mram_read` and `mram_write`. A DMA transfer is one step. That the host
reads what it puts into `buffer_b` from behind its own array (`upmemdpu.cpp:373-376`) is
left out: `Before` is whatever that read gives, if it gives anything.

## 3. Runs

| Run | Instance | Shows |
|---|---|---|
| `faasmspeed` | 2 functions with 2 and 1 requests, 2 hosts, all options | seven properties, safety and liveness, 77 thousand states |
| `sequential` | the request loop with fraction 5/12, pool 7, 150 requests | fraction and round robin over twelve periods |
| | the report on up to 5 outcomes, each one of a few answers or of 2 errors, 7-bit words | columns, moments and error counts describe the answers, intervals those of more than two |
| `statmon` | 2 clients with 2 and 1 commands, 2 units of activity, 2 samples per range, 1 failure, 4-bit words | ranges, aggregates; 2.4 million states |
| `experiment` | 1 request, 1 other client with one command, 2 disks, 2 CPUs of which the second has no counters, 1 failure | the printed line accounts for the load; results are lost only by a failure; it ends; 276 thousand states |
| `nearmap` | 2 pages of 2 bytes (3 asked for), operands within and across pages, clock up to 5 | log and report exact after the first phase |
| `faultspeed` | suites with all 9 benchmarks and the change of handler, 2 threads, 2 workers, 2 iterations, sizes 1 < 2 < 3 pages | memory, handler and its replacement, liveness |
| `dpucopy` | lengths 2, 8, 16, 64 words with blocks of 16 and transfers of 4, 1 to 3 tasklets, 1 or 2 repetitions, 2 launches | wramcopy exact and reported as such; what mramcopy never overwrites |
| `net_errors` | | finding: `net_tx_errors` counts packets |
| `nearmap_first_phase` | | finding: the first phase reports all pages read and written |
| `faultspeed_lazy` | | finding: lazily filled pages are zero, not the snapshot |
| `experiment_started` | | finding: requests execute before the monitoring has started |
| `dpucopy_reported` | as `dpucopy` | finding: `mramcopy` copies a quarter of each block, the host reports all of it |

Why the bounds are enough for the cases they are meant for. Two functions with
different totals make one wait for the other at each barrier; one host more than
one shows hosts in different states. In `statmon`, two commands of one client
are a range and the one of the other is enough to disturb it; one failure hits
each of the eight places; words of 16 values let a counter that steps back wrap.
In `nearmap`, five clock ticks allow four phases with an access in each of the
first three, and the exit is not bounded. In `faultspeed` the second iteration
starts on what the first left; two threads fault at once and two workers serve
them in any order; the suites contain every benchmark, UFFD
benchmarks that inherit the handler of their predecessor, the change from workers
to SIGBUS (the only one the order of registration allows), and SIGBUS without
the benchmark that registers the signal handler. The orders of sizes are those of the
code (3, 4, 5 MiB). In `experiment` one request is enough: it can run before `[`
is taken, inside the range, after its sender has given up, or never; the one
command of the other client can begin or end the range anywhere, and one failure
can hit the daemon at boot, in the timer or in a command of either client. The
request loop and the report share no variable, so a behaviour of `sequential` follows
one of them and leaves the other at its start. In the report, five results are the least for which minimum, first quartile, median,
third quartile and maximum are five different positions; words of 128 values hold
the sum of five squares of the largest field, while the differences from the
average wrap. In `dpucopy` the
lengths are less than a block, part of a block, one block and four blocks, so
three tasklets have unequal shares.

Deadlock is checked in `faasmspeed`, `faultspeed` and `experiment`, which have an
explicit step for "ended". `statmon` never ends and rests only at the model's bounds; the
request loop, the report, the DPU benchmark and the traced program simply end: there the check is off.

### Fairness

`faasmspeed`: weak fairness of main, of each function's task, of each request
task and of the progress task. Tokio polls every task that is ready; a request
ends because `make_request` gives it a timeout. That `read_line` returns rests on
the monitoring host, for which the code has no timeout (a listed hazard):
`experiment` replaces that assumption by the daemon itself. Its fairness is
one weak condition on all steps of both runtimes together (some task that is
ready runs); nothing is assumed of the host's work, the timer, the network's
other clients or the daemon's start. `faultspeed`: the operating system runs
every runnable thread and worker. No strong fairness is used.

## 4. Findings

1. `statmon/src/stats.rs:614-622` publishes field 10 of `/proc/net/dev` (packets
   sent) as `net_tx_errors`; the comment above it numbers errors as field 11.
2. `NearMAP.cpp:59-62`: stamps default to 0, the start of the first phase, so in
   it every page touched is reported as read and written. All later rows are
   right (`TraceExact`), as is the set of pages of the first.
3. `faultspeed.cpp:525`: the fault address is compared with the snapshot's size
   as if it were an offset. The two lazy benchmarks therefore measure filling
   with zeros. (Were the comparison right, `:527` would copy the snapshot's first
   page to every address.)
4. `faasmspeed/src/main.rs:347-352`: run_function's second barrier is there to
   "Wait for monitoring to start" (`:225`), but `[` is only written, not
   acknowledged. The daemon may take it after the host has executed requests,
   which its range then misses. `LoadAccountedFor` says how much can be
   missing: what was executed before `[` was taken, and nothing else.
5. `memspeed/dpusrc/mramcopy.c:26-27`: the size of a DMA transfer is in bytes, but
   is given in words, the unit of the pointers and of `copy_words_amount`. Of each
   block a quarter is copied, while `upmemdpu.cpp:389-391` reports the whole length,
   plotted as "copy bandwidth" (`memspeed-graphs/analysis.Rmd:245`). `CopiedAsReported`
   would also fail for another reason: the transfers of all tasklets go through the start of
   `wram_cache`; `my_cache` (`:22`), the tasklet's own part of it, is computed and
   not used, so that one tasklet may write another one's block to its own place.

Behaviour the properties describe rather than forbid, because no text of the
repository promises otherwise: only the last disk of `/proc/diskstats` and the
CPUs before the first unavailable one are counted (`ExclusiveRangeExact`,
`LoadAccountedFor`); a sum of samples wraps when they are too large and too many
(`AggregatesConsistent`); `BM_UFFD_SIGBUS_Lazy` alone is killed by its first fault
(`CrashOnlyUnregistered`); a time of 0 divides by zero in the progress task
(`AbortOnlyOnTestFailure`). Not claimed, because it does not hold: with one or two answers the column
labelled "Inter-request interval" (`faasmspeed/src/main.rs:485-486`) contains the start
time of the first, counted from the start of the run, because `:478` replaces it only
if there are more; `avg-rps` is computed from the same average. `IntervalsExact` is
about the other numbers of answers. Seen while reading, without a behaviour to model:
`eventstat.rs:35-36` counts major faults under the name of minor ones and the
reverse; `upmemdpu.cpp:374` adds bytes to a pointer to words, so that `buffer_b`
is filled from behind the array.

## 5. Proofs

All theorems are about every value of the constants that the named assumptions
allow. They are what the code or its use guarantees:

| Assumption | Says |
|---|---|
| `GeneratorAssumption`, `LoadAssumption` | finitely many functions, at least one; positive denominator, pool sizes and, where rate and time are positive, totals |
| `WordAssumption`, `StatMonAssumption` | words of an even number of values; finitely many clients; no counter of the host reaches 2^63 (`MaxWork + NCpus <= MaxVal`), though differences of them wrap |
| `ExperimentAssumption` | the two above; one host; `load` is no other client and sends three bytes; the load is less than `MaxWork` |
| `SizeAssumption`, `FaultSpeedAssumption` | the order of the code's sizes; non-empty suites in the order of registration; at least one thread, iteration and worker, workers and threads being different |
| `ReportAssumption` | the fields of an answer are u128 values, the texts of errors are ordered, a `usize` is no wider than a u128 |
| `NearMAPAssumption` | sizes and counts are numbers, operands have at least one byte |
| `DpuAssumption` | positive sizes, a block of four transfers, a length that fits into the memory |

Every inductive invariant below was checked with TLC on the run's instance before
it was proved.

**SequentialProofs**, the generator: `TypeOK`, `FractionExact`, `FractionTracked`,
`PoolRoundRobin`. Neither fraction property is inductive: the count of offloadable
requests has to be tied to the position within the period. `PeriodInv` says that
there are a number q of complete periods and a position r with
`sent = q * Den + r`, that `ndp_var` is determined by r, and that `ndp` is
`q * PerPeriod` plus what the first r positions contribute. The two properties are
then linear arithmetic with one product each, handled by small lemmas on
multiplication.

**SequentialProofs**, the report: `ReportTypeOK`, `QuantilesExact`, `IntervalsExact`,
`MomentsExact`, `ErrorsTallied`. `Rearranged(e, d)` says that there is a bijection
between the places of e and of d under which they hold the same values; the
invariant `ReportInv` says at each stage what the vectors are a rearrangement of.
`CollectInv`: of what the first `idx` requests returned. `DiffInv`: there is a
sorted rearrangement e of the start times such that the places behind the loop
hold `e[j] - e[j - 1]` and the others still `e[j]`, which is why the loop must run
backwards; no difference wraps, since e is sorted, and none is more than the later of
its two start times, which is what `ReportTypeOK` says. `ColumnsInv`: each field, of what
its column is about, whatever the sorts of the other columns did to the order. For
the start times that is the intervals with the first one twice, unless there are
one or two answers (`EnoughAnswers` excludes these; `StartColumn` is what the column
holds in either case).
`PrintedInv`, `TallyInv`: what was printed or counted was computed from a sorted
rearrangement. Four facts turn this into the properties. In a sorted rearrangement
the value at place k + 1 has rank k (`RankOfSorted`, by counting through the
bijection), and only one value has that rank (`RankUnique`), so the order in which
an unstable sort leaves equal keys cannot be seen. The sum does not depend on the
order (`SumRearranged`), and the wrapping fold is its remainder
(`SumOfIsRemainder`). The square of a wrapped difference, wrapped, is the square of
the difference (`WrappedSquare`). Sorted texts have one group each, as long as there
are texts like it (`GroupsOfSorted`). `MomentsAreExact` alone has a hypothesis,
`NoOverflow`: the largest field squared, times the number of requests, is less
than `Word`. With u128 it holds for any use of the program (microseconds since the
start of the run, and bytes of an answer, are below 2^48, which leaves room for
2^32 requests), the instance of the run satisfies it, and without it the sum of
the squares wraps. The proof needed the loop over the results to be a step per result, and
`Report`'s reference values to be defined by rank instead of by a library sort.

**FaasmSpeedProofs**: first `TypeOK`, `LoadInsideMonitoring`, `AbortOnlyOnTestFailure`,
for every setting of the options. The inductive invariant `IInv` has one part per
task: `BarrierInv` (each participant has called `wait()` as often as the barrier
has opened, or once more and then it is among `arrived`), `MainInv` and `PhaseInv`
(control state and number of calls fit), `MonitorInv` (what main has done on the
hosts' connections), `JoinInv` (joined requests are finished; behind the loop all
were spawned), `ProgressInv` (the progress task exists only behind the third
barrier). The argument for the load: a request exists only if its function is
past the second barrier, so main has arrived there, which it does after the last
`[`; and a `]` means main is past the fourth, so every function has arrived
there, which it does after its last join. The argument for the division: the
progress task exists only behind the third barrier, and each function adds its
positive total before it arrives there, if every function has something to
send.

Then `ProgressSane`, `AccountingExact` and the refinement
`GeneratorsRefined`. `AInv` adds to `IInv` what the counters are: `CounterInv` (each
shared counter is the sum over the functions of the request tasks that have done
that update), `PlanInv` (a function spawns no more requests than it planned),
`SeenInv` (the total that the progress task has read is the final one, and the
answers it has read are no more) and `CloseInv` (the connections to the hosts that
main is done with are closed). The refinement is
proved action by action: a step of `run_function`'s loop for f is a step of f's
generator, every other step of any task leaves it alone.

**SumTheorems**. The library's induction theorems cannot be instantiated by the
provers used, so facts about sums over a finite set are proved by taking, of the
subsets for which the fact fails, one that is minimal: it is not empty, and
removing an element from it gives a smaller one for which the fact fails as well.
Facts about sequences take the least index or the shortest prefix that fails.

Leaves that take a backend more than a moment name it with a generous time limit
(`SMTT(60)`, `ZenonT(60)`), so that the proofs do not depend on how busy the machine is:
they also check with all the time limits cut to a fifth and three copies running side by side.

**StatMonProofs**: `TypeOK`, `AggregatesConsistent`, `ExclusiveRangeExact` and the
action property `RangeFrozen`. `Control` is about the types of
connections, inboxes and replies. `Books` has four parts: `HostInv` (the host's
counters are bounded by the work done, hence stay below 2^63, and `SubLemma` says that
such counters are subtracted exactly although u64 wraps), `Readable` (the perf
counters that run have not yet been read further than the host has counted),
`Consistent` (count, sum, minimum and maximum belong to one set of samples, also
after an `update()` that failed halfway; the sum only while `SumFits`, that is
while count times minimum and count times maximum are i64s, because beyond that
`set_add` may have wrapped; `AddLemma` says that it has not before) and `Measuring` (while a range is exclusive,
each sum of differences is what happened between its begin and the last reading,
which is where the next difference starts; it is a difference of two counters
below 2^63, hence an i64 and exact without any condition). `ExclusiveRangeExact` is itself a conjunct of the
invariant: it is about replies, which outlive their range.

**ExperimentProofs**: `LoadRefined`, `MonitorRefined`, `OnlyFailuresLose`,
`LoadIsAccountedFor`. First, every step of the composition is a step or a stutter of
`FaasmSpeed` and of `StatMon` with the load generator among its clients, so all
that is proved of either holds in it; `StatMonProofs` is instantiated and not
repeated. What is left is how the two are linked (`XInv`): `LinkInv` (the state of
the connection at each point of main), `BytesInv` (what waits in the daemon's inbox
is a part of `[`, `]`, `q` in that order, and the limit of three bytes never stops
a write), `WellInv` (the connection ends only by a failed update or by `q`),
`WorkInv` (the host's work is the number of requests executed, each at most once,
and every answered request was executed; hence the work stays below `MaxWork`),
`SpanInv` (until `[` is taken all that was executed is `early`; if the load generator's
range is exclusive, it began there) and `ReplyInv` (a measured reply and `early`
together cover all that was answered). `ReplyInv` rests on the daemon's
exactness and on `LoadInsideMonitoring`: when `]` is written every request has ended,
so nothing that is answered is executed later.

**FaultSpeedProofs**: `TypeOK`, `CrashOnlyUnregistered`, `Isolated`,
`SnapshotRestored`, `FaultsReportedExact`, `HandlerSeesLiveMemory` and the action
property `HandlerReplacedIdle`. The invariant: `Control` (where the threads
stand, and that a barrier keeps them together), `Registration` (registered are the
threads of a UFFD benchmark between `add` and `remove`, with the handler of its
kind), `Hands` (an event, and an execution of `handleOne`, is for a missing page of
a stopped thread, and no thread has two of them),
`Counting` (faults counted plus those still on their way are the faults taken),
`Memories` (what a page holds, by the benchmark and the operation its thread is
in) and `Signal` (whether the SIGBUS handler is installed). The safety of the
unlocked part of `handleOne` rests on `Hands`: the memory can only be removed by
its thread, which is stopped until this handler wakes it. An attempt at the
proof showed that `Written` had two CASE guards that overlap; they are now
disjoint.

**DpuCopyProofs**: `TypeOK`, `WramExact`, `MramConfined` and, of wramcopy, `BytesReported`. The units
(words or blocks) are dealt to the tasklets by their residue modulo the number of
tasklets, and a unit below a tasklet's position with its residue has been copied;
when all have left their loops, every unit is below its owner's position.
`ContentInv` says so for the buffer, `CacheInv` what may be in the cache that all
tasklets share, `CountInv` that the bytes moved are those of all pairs of repetition
and unit that lie behind the tasklets.

**NearMAPProofs**: `TypeOK`, `TraceExact`, `ReportExact`. Two recursions have to be
unfolded before anything can be said. The shift loops that make the page size are
shown to round the one asked for down to a power of two (`PageSizeRounded`). The parser is a fold over the
lines; `ParseEmpty` and `ParseAppend` say that parsing one line more is one step of the
parser more, which is proved of the least prefix for which it would fail. The
invariant ties the tool's state to `truth`, the history of what the phases did:
`Tracing` (the clock is ahead of all stamps; the stamps since the last boundary
belong to exactly the pages that the current phase has read, and written) and `LogInv` (what the parser makes of
the log so far is a record for each finished phase, with its name, counts and
pages, and it waits for the lines of the current one). `PhaseLogged` is the step
where a phase ends: the lines written for its pages, in whatever order the map is
walked through, are parsed back to the sets of pages read and written
(`ParseTraces`). In the first phase the boundary is 0 and so is the stamp of a
page that was never read: there `Recorded` claims the set of pages only, as does
`TraceExact`, and finding 2 shows that no more is true. `ReportExact` then is
counting: each row's sets are finite and have the size of the sets of `truth`
(`CountedPages`).

Only model-checked:

- the liveness properties `Termination`, `ExperimentEnds` and `SuiteCompletes`:
  liveness under fairness is beyond the prover used here;
- the five findings, which are counterexamples of a small instance.

## 6. Plan

1. Done: load generator with proofs; daemon; tracer; memory benchmarks.
2. Done: the experiment that composes load generator and daemon; suites with a
   replaced handler; the report; the DPU programs; several disks and CPUs; edge
   values of the options.
3. Done: proofs about the accounting of the load generator, the daemon, the
   experiment, the memory benchmarks and the DPU programs.
4. Done: proofs about the report and about the tracer with its parser.
5. Open: the liveness properties, with a prover that does fairness; tracing of
   programs with several threads, if the tool takes a lock.

## 7. Not modelled

Option parsing, formatting and logging; the HTTP exchange and Faasm, but for
their outcomes; CPU-time counters and everything about elapsed time (the spacing
of requests by `interval.tick`, timing loops); Pin; traced programs with several
threads (the tool takes no lock, so the code promises nothing there);
`offload_frac_den` of 0, for which the wrap loops forever; the names of the
sixty statistics, except the fields of `/proc/net/dev`; the copies of `memspeed`
between CPU and DPU and on the CPU, which are single library calls inside a
timing loop; `ndoffloadsim`, which declares data types and prints a greeting;
stubs, scripts, graphs and the vendored libraries, except the barrier and the
order of runs of Google Benchmark.
