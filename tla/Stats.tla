-------------------------------- MODULE Stats --------------------------------
(***************************************************************************)
(* statmon's struct Stats (statmon/src/stats.rs, cpustat.rs, iostat.rs,    *)
(* eventstat.rs) as a value, and its methods as operators from a Stats     *)
(* value and a reading of the host's counters to the next Stats value.     *)
(* The sixty statistics are five, one for each way of keeping books:       *)
(*   "faasm"  a gauge, copied (loadavg, meminfo, faasm-monitor)            *)
(*   "net"    a signed difference to a reference (upd_net)                 *)
(*   "cpu"    an unsigned difference of two kept totals (CpuStat)          *)
(*   "event"  a perf counter, running since the last '[' (EventStat)       *)
(*   "io"     as "cpu", read last (IoStat)                                 *)
(***************************************************************************)
EXTENDS Integers, Sequences, Functions

CONSTANTS
    Word,    \* 2^64: the number of values of a u64
    Closed   \* CPUs on which no perf counter can be opened

ASSUME WordAssumption == Word \in Nat /\ Word >= 4 /\ Word % 2 = 0

Names == {"faasm", "net", "cpu", "event", "io"}

MinVal == -(Word \div 2)        \* StatValue::minval, i64::MIN
MaxVal == (Word \div 2) - 1     \* StatValue::maxval, i64::MAX

\* a - b on u64 in the release build.
SubU64(a, b) == (a - b) % Word

\* Mutant: the difference is published without the conversion to i64.
AsI64_Unsigned(x) == x

\* x as i64
AsI64(x) == IF x > MaxVal THEN x - Word ELSE x

\* a + b on i64 in the release build.
AddI64(a, b) == AsI64((a + b) % Word)

\* A reading of the host's counters: traffic and gauges, CPU time, I/O of every
\* disk in the order of /proc/diskstats, and perf events of every CPU.
Reading == [work : Nat, cpu : Nat, disks : Seq(Nat), cpus : Seq(Nat)]

\* CpuStat::new, IoStat::new, and EventStat::new, whose counters count from their
\* creation on.
NewCpuStat == [open |-> FALSE, cur |-> 0, last |-> 0]
NewIoStat == [open |-> FALSE, cur |-> 0, last |-> 0]
NewEventStat == [run |-> TRUE, since |-> 0, acc |-> 0]

\* Stats::new
New ==
    [in_range |-> FALSE,
     now |-> [n \in Names |-> 0],
     min |-> [n \in Names |-> MaxVal],
     max |-> [n \in Names |-> MinVal],
     sum |-> [n \in Names |-> 0],
     cnt |-> [n \in Names |-> 0],
     net_ref |-> 0,
     cpu |-> NewCpuStat,
     io  |-> NewIoStat,
     events |-> NewEventStat]

------------------------------------------------------------------------------
(* The aggregates *)

\* Mutant: value_cnt is not reset.
Reset_KeepCnt(s) ==
    [s EXCEPT !.min = [n \in Names |-> MaxVal],
              !.max = [n \in Names |-> MinVal],
              !.sum = [n \in Names |-> 0]]

\* Stat::reset of every statistic.
Reset(s) ==
    [s EXCEPT !.min = [n \in Names |-> MaxVal],
              !.max = [n \in Names |-> MinVal],
              !.sum = [n \in Names |-> 0],
              !.cnt = [n \in Names |-> 0]]

Lesser(a, b) == IF a < b THEN a ELSE b
Greater(a, b) == IF a > b THEN a ELSE b

\* Stat::update_aggregate of every statistic.  value_sum wraps: a perf counter is
\* summed up twice a second while it grows.  value_cnt is an i64, too, but it
\* counts samples, of which there are never 2^63.
UpdateAggregate(s) ==
    [s EXCEPT !.min = [n \in Names |-> Lesser(@[n], s.now[n])],
              !.max = [n \in Names |-> Greater(@[n], s.now[n])],
              !.sum = [n \in Names |-> AddI64(@[n], s.now[n])],
              !.cnt = [n \in Names |-> @[n] + 1]]

Aggregates(s) == <<s.min, s.max, s.sum, s.cnt>>

------------------------------------------------------------------------------
(* The perf counters *)

\* with_event opens a counter on one CPU after the other until one fails; the
\* value of an event is the sum over these.
Watched(k) == {c \in DOMAIN k.cpus : (1..c) \cap Closed = {}}
EventTotal(k) == SumFunctionOnSet(k.cpus, Watched(k))

EventRead(e, k) == e.acc + IF e.run THEN EventTotal(k) - e.since ELSE 0

\* EventStat::start: reset, then enable.
EventStart(k) == [run |-> TRUE, since |-> EventTotal(k), acc |-> 0]

\* EventStat::stop: disable; the count stays readable.
EventStop(e, k) == [run |-> FALSE, since |-> 0, acc |-> EventRead(e, k)]

------------------------------------------------------------------------------
(* The readers *)

\* The first lines of CpuStat::update and IoStat::update: the first call reads
\* everything twice, so that the totals since boot are not taken for a delta.
Shift(t, total) ==
    LET cur == IF t.open THEN t.cur ELSE total
    IN  [open |-> TRUE, cur |-> cur, last |-> cur]

\* IoStat::update assigns the fields of every line that is a whole disk to the
\* same totals: those of the last disk stay.
DiskTotal(k) == k.disks[Len(k.disks)]

ReadTotal(t, total) == [Shift(t, total) EXCEPT !.cur = total]

\* cpu_totals_ms, context_switches, io_totals_ms, published as i64.
Delta(t) == AsI64(SubU64(t.cur, t.last))

\* What each reader publishes as value_now.
Fresh(s, k) ==
    [faasm |-> k.work,
     net   |-> k.work - s.net_ref,
     cpu   |-> Delta(ReadTotal(s.cpu, k.cpu)),
     event |-> EventRead(s.events, k),
     io    |-> Delta(ReadTotal(s.io, DiskTotal(k)))]

\* Where a `?` can leave update(): opening, reading or parsing the files.
Failures ==
    {"gauges", "net read", "net parse", "cpu read", "cpu parse", "event", "io read", "io parse"}

\* update() calls its readers in this order; those before the error have
\* published their value.
Published(fail) ==
    CASE fail = "gauges"                                 -> {}
      [] fail = "net read"                               -> {"faasm"}
      [] fail \in {"net parse", "cpu read", "cpu parse"} -> {"faasm", "net"}
      [] fail = "event"                                  -> {"faasm", "net", "cpu"}
      [] fail \in {"io read", "io parse"}                -> Names \ {"io"}
      [] fail = "none"                                   -> Names

\* A reader of totals that fails to read has moved last up; one that fails to
\* parse the last field has stored the total, too, without publishing it.
Totals(t, total, read, shifted) ==
    CASE read             -> ReadTotal(t, total)
      [] ~read /\ shifted -> Shift(t, total)
      [] OTHER            -> t

\* The readers of one update, up to the error.
Read(s, k, fail) ==
    LET done == Published(fail)
    IN  [s EXCEPT
           !.now = [n \in Names |-> IF n \in done THEN Fresh(s, k)[n] ELSE @[n]],
           !.net_ref = IF "net" \in done THEN k.work ELSE @,
           !.cpu = Totals(@, k.cpu, "cpu" \in done \/ fail = "cpu parse", fail = "cpu read"),
           !.io = Totals(@, DiskTotal(k), "io" \in done \/ fail = "io parse", fail = "io read")]

\* Mutant: the aggregates are updated outside of a range, too.
Update_Always(s, k, fail) ==
    LET r == Read(s, k, fail)
    IN  IF fail = "none" THEN UpdateAggregate(r) ELSE r

\* Stats::update.
Update(s, k, fail) ==
    LET r == Read(s, k, fail)
    IN  IF fail = "none" /\ s.in_range THEN UpdateAggregate(r) ELSE r

\* Which statistics' readings an update that fails has taken and thrown away:
\* their part of the range is missing from the sums.
Lost(fail) ==
    CASE fail \in {"gauges", "net read", "none"}     -> {}
      [] fail \in {"net parse", "cpu read"}          -> {"net"}
      [] fail \in {"cpu parse", "event", "io read"}  -> {"net", "cpu"}
      [] fail = "io parse"                           -> {"net", "cpu", "io"}

------------------------------------------------------------------------------
(* The range *)

BeginRange(s, k) == [Reset(s) EXCEPT !.in_range = TRUE, !.events = EventStart(k)]

EndRange(s, k) == [s EXCEPT !.in_range = FALSE, !.events = EventStop(@, k)]

\* stat_packet: what a client is told.
StatPacket(s) == [now |-> s.now, min |-> s.min, max |-> s.max, sum |-> s.sum, cnt |-> s.cnt]
==============================================================================
