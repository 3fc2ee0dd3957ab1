---------------------------- MODULE StatMonProofs ----------------------------
(***************************************************************************)
(* statmon's measurements are exact for any number of clients, disks and   *)
(* CPUs, as long as no counter of the host reaches 2^63.  The invariant    *)
(* keeps the books of the range that a client has begun: what each         *)
(* statistic has summed up is what happened between the begin of the range *)
(* and the last reading, and what it summed up are consistent aggregates.  *)
(***************************************************************************)
EXTENDS StatMon, SumTheorems, SequenceTheorems

I64 == MinVal..MaxVal
Counter == 0..MaxVal        \* a u64 below 2^63

Host == [work : Counter, cpu : Counter, disks : [1..NDisks -> Nat], cpus : [1..NCpus -> Nat]]
Account == [open : BOOLEAN, cur : Counter, last : Counter]
Statistics ==
    [in_range : BOOLEAN, now : [Names -> I64], min : [Names -> I64], max : [Names -> I64],
     sum : [Names -> I64], cnt : [Names -> Nat], net_ref : Counter, cpu : Account, io : Account,
     events : [run : BOOLEAN, since : Counter, acc : Counter]]

\* k is a reading that s can be updated from.
Readable(s, k) ==
    /\ s \in Statistics
    /\ k \in Host /\ DiskTotal(k) \in Counter /\ EventTotal(k) \in Counter
    /\ s.events.run => s.events.acc = 0 /\ s.events.since <= EventTotal(k)

\* s has aggregated one set of samples.
Consistent(s) ==
    \A n \in Names :
       /\ s.cnt[n] = s.cnt["net"]
       /\ s.cnt[n] > 0 => /\ s.min[n] <= s.max[n]
                          /\ SumFits(s, n) => /\ s.cnt[n] * s.min[n] <= s.sum[n]
                                              /\ s.sum[n] <= s.cnt[n] * s.max[n]
       /\ s.cnt[n] = 0 => s.sum[n] = 0 /\ s.min[n] = MaxVal /\ s.max[n] = MinVal

\* s has summed up what happened since the begin of the span sp: every reading up
\* to the last one taken, which is where the next difference starts.
Measuring(s, k, sp) ==
    sp.owner # "nobody" =>
       /\ s.in_range /\ s.cpu.open /\ s.io.open /\ DiskTotal(sp.begin) \in Counter
       /\ "net" \notin sp.lost => s.sum["net"] = s.net_ref - sp.begin.work
       /\ "cpu" \notin sp.lost => s.sum["cpu"] = s.cpu.cur - sp.begin.cpu
       /\ "io" \notin sp.lost => s.sum["io"] = s.io.cur - DiskTotal(sp.begin)
       /\ s.events.run /\ s.events.since = EventTotal(sp.begin)
       /\ s.max["event"] <= EventTotal(k) - EventTotal(sp.begin)

Spans == [owner : Clients \cup {"nobody"}, begin : Host, lost : SUBSET Names]

\* The host's counters stay far from the end of a u64.
HostInv(k) ==
    /\ k \in Host
    /\ k.work >= 1 /\ (k.work = 1 \/ k.work <= MaxWork)
    /\ k.cpu <= k.work
    /\ \A d \in 1..NDisks : k.disks[d] <= k.work
    /\ 0 <= EventTotal(k) /\ EventTotal(k) <= NCpus + k.work - 1

Books(s, k, sp) ==
    HostInv(k) /\ Readable(s, k) /\ Consistent(s) /\ sp \in Spans /\ Measuring(s, k, sp)

\* Two counters below 2^63 are subtracted exactly, also when the second is larger:
\* the u64 difference wraps around, and the cast to i64 brings it back.
LEMMA SubLemma ==
  ASSUME NEW a \in 0..MaxVal, NEW b \in 0..MaxVal
  PROVE  AsI64(SubU64(a, b)) = a - b
<1>1. Word \in Nat /\ Word >= 4 /\ Word = 2 * (Word \div 2) /\ Word \div 2 \in Nat
  BY WordAssumption
<1>2. CASE a >= b
  <2>1. SubU64(a, b) = a - b
    BY <1>1, <1>2 DEF SubU64, MaxVal
  <2>2. QED
    BY <1>1, <1>2, <2>1 DEF AsI64, MaxVal
<1>3. CASE a < b
  <2>1. SubU64(a, b) = a - b + Word
    BY <1>1, <1>3 DEF SubU64, MaxVal
  <2>2. QED
    BY <1>1, <1>3, <2>1 DEF AsI64, MaxVal
<1>4. QED
  BY <1>1, <1>2, <1>3 DEF MaxVal

\* A product is ordered as its factor is.
LEMMA ProductOrdered ==
  ASSUME NEW a \in Nat, NEW b \in Int, NEW c \in Int, b <= c
  PROVE  a * b <= a * c
  OBVIOUS

\* One more summand.
LEMMA ProductStep ==
  ASSUME NEW a \in Nat, NEW b \in Int
  PROVE  (a + 1) * b = a * b + b
  OBVIOUS

\* The bounds of i64.
LEMMA WordFacts ==
  /\ MinVal \in Int /\ MaxVal \in Nat /\ MaxVal >= 1 /\ MinVal = - MaxVal - 1
  BY WordAssumption DEF MinVal, MaxVal

\* A sum of i64s wraps to an i64, and only if it is none itself.
LEMMA AddLemma ==
  ASSUME NEW a \in Int, NEW b \in Int
  PROVE  /\ AddI64(a, b) \in I64
         /\ a + b \in I64 => AddI64(a, b) = a + b
<1> DEFINE x == a + b
           h == Word \div 2
           r == x % Word
<1>1. Word \in Nat /\ Word >= 4 /\ Word = 2 * h /\ h \in Nat
  BY WordAssumption
<1>2. x \in Int /\ MaxVal = h - 1 /\ MinVal = - h
  BY <1>1 DEF MaxVal, MinVal
<1>3. r \in 0..(Word - 1)
  BY <1>1
<1>4. x \in I64 => r = x \/ r = x + Word
  <2>1. CASE x \in 0..(Word - 1)
    BY <1>1, <1>2, <2>1
  <2>2. CASE x \in (- h)..(- 1)
    <3>1. x + Word \in 0..(Word - 1)
      BY <1>1, <2>2
    <3>2. x % Word = x + Word
      BY <1>1, <1>2, <2>2, <3>1
    <3>3. QED
      BY <3>2
  <2>3. x \in I64 => x \in 0..(Word - 1) \/ x \in (- h)..(- 1)
    BY <1>1, <1>2 DEF I64
  <2>4. QED
    BY <2>1, <2>2, <2>3
<1>5. AddI64(a, b) = IF r > MaxVal THEN r - Word ELSE r
  BY DEF AddI64, AsI64
<1> HIDE DEF x, h, r
<1>6. AddI64(a, b) \in I64
  BY <1>1, <1>2, <1>3, <1>5 DEF I64
<1>7. x \in I64 => AddI64(a, b) = x
  BY <1>1, <1>2, <1>3, <1>4, <1>5 DEF I64
<1>8. QED
  BY <1>6, <1>7 DEF x

\* Reading a total.
LEMMA ReadTotalFacts ==
  ASSUME NEW t \in Account, NEW total \in Counter
  PROVE  /\ ReadTotal(t, total) \in Account /\ Shift(t, total) \in Account
         /\ ReadTotal(t, total).open /\ ReadTotal(t, total).cur = total
         /\ Shift(t, total).open /\ (t.open => Shift(t, total).cur = t.cur)
         /\ Delta(ReadTotal(t, total)) \in I64
         /\ t.open => Delta(ReadTotal(t, total)) = total - t.cur
<1> DEFINE r == ReadTotal(t, total)
           cur == IF t.open THEN t.cur ELSE total
           shifted == [open |-> TRUE, cur |-> cur, last |-> cur]
<1>1. Shift(t, total) = shifted
  BY DEF Shift
<1>2. r = [shifted EXCEPT !.cur = total]
  BY <1>1 DEF ReadTotal
<1> HIDE DEF cur, r
<1>3. r = [open |-> TRUE, cur |-> total, last |-> cur]
  BY <1>2
<1>4. cur \in Counter /\ t.cur \in Counter
  BY DEF Account, cur
<1>5. Delta(r) = total - cur
  BY <1>3, <1>4, SubLemma DEF Delta, Counter
<1>6. total - cur \in I64
  BY <1>4, WordFacts DEF I64, Counter
<1>7. QED
  BY <1>1, <1>3, <1>4, <1>5, <1>6 DEF Account, cur, r

\* What the perf counters show.
LEMMA EventReadFacts ==
  ASSUME NEW s, NEW k, Readable(s, k)
  PROVE  /\ EventRead(s.events, k) \in Counter
         /\ s.events.run => EventRead(s.events, k) = EventTotal(k) - s.events.since
  BY WordFacts DEF Readable, Statistics, EventRead, Counter

\* What the readers publish.
LEMMA FreshFacts ==
  ASSUME NEW s, NEW k, Readable(s, k)
  PROVE  /\ \A n \in Names : Fresh(s, k)[n] \in I64
         /\ Fresh(s, k)["net"] = k.work - s.net_ref
         /\ Fresh(s, k)["event"] = EventRead(s.events, k)
         /\ s.cpu.open => Fresh(s, k)["cpu"] = k.cpu - s.cpu.cur
         /\ s.io.open => Fresh(s, k)["io"] = DiskTotal(k) - s.io.cur
<1>1. /\ s.cpu \in Account /\ s.io \in Account /\ s.net_ref \in Counter
      /\ k.cpu \in Counter /\ k.work \in Counter /\ DiskTotal(k) \in Counter
      /\ EventRead(s.events, k) \in Counter
  BY EventReadFacts DEF Readable, Statistics, Host
<1>2. /\ Delta(ReadTotal(s.cpu, k.cpu)) \in I64
      /\ Delta(ReadTotal(s.io, DiskTotal(k))) \in I64
      /\ s.cpu.open => Delta(ReadTotal(s.cpu, k.cpu)) = k.cpu - s.cpu.cur
      /\ s.io.open => Delta(ReadTotal(s.io, DiskTotal(k))) = DiskTotal(k) - s.io.cur
  BY <1>1, ReadTotalFacts
<1>3. k.work \in I64 /\ k.work - s.net_ref \in I64 /\ EventRead(s.events, k) \in I64
  BY <1>1, WordFacts DEF I64, Counter
<1>4. QED
  BY <1>2, <1>3 DEF Fresh, Names

FailSet == Failures \cup {"none"}

\* The readers keep the statistics' types, and change no aggregate.
LEMMA ReadFacts ==
  ASSUME NEW s, NEW k, Readable(s, k), NEW fail \in FailSet
  PROVE  LET r == Read(s, k, fail)
         IN  /\ r \in Statistics
             /\ r.in_range = s.in_range /\ r.min = s.min /\ r.max = s.max
             /\ r.sum = s.sum /\ r.cnt = s.cnt /\ r.events = s.events
             /\ "net" \notin Lost(fail) /\ fail # "none" => r.net_ref = s.net_ref
             /\ s.cpu.open => r.cpu.open
             /\ s.cpu.open /\ "cpu" \notin Lost(fail) /\ fail # "none" => r.cpu.cur = s.cpu.cur
             /\ s.io.open => r.io.open
             /\ s.io.open /\ "io" \notin Lost(fail) /\ fail # "none" => r.io.cur = s.io.cur
             /\ fail = "none" => /\ \A n \in Names : r.now[n] = Fresh(s, k)[n]
                                /\ r.net_ref = k.work
                                /\ r.cpu.open /\ r.cpu.cur = k.cpu
                                /\ r.io.open /\ r.io.cur = DiskTotal(k)
<1> DEFINE done == Published(fail)
           now == [n \in Names |-> IF n \in done THEN Fresh(s, k)[n] ELSE s.now[n]]
           ref == IF "net" \in done THEN k.work ELSE s.net_ref
           cpu == Totals(s.cpu, k.cpu, "cpu" \in done \/ fail = "cpu parse", fail = "cpu read")
           io == Totals(s.io, DiskTotal(k), "io" \in done \/ fail = "io parse", fail = "io read")
           r == [s EXCEPT !.now = now, !.net_ref = ref, !.cpu = cpu, !.io = io]
<1>1. Read(s, k, fail) = r
  BY DEF Read
<1>2. /\ s \in Statistics /\ k.work \in Counter /\ k.cpu \in Counter /\ DiskTotal(k) \in Counter
      /\ s.cpu \in Account /\ s.io \in Account
  BY DEF Readable, Statistics, Host
<1>3. now \in [Names -> I64]
  BY <1>2, FreshFacts DEF Statistics
<1>4. ref \in Counter
  BY <1>2 DEF Statistics
<1>5. /\ cpu \in Account
      /\ s.cpu.open => cpu.open /\ ("cpu" \notin Lost(fail) /\ fail # "none" => cpu.cur = s.cpu.cur)
      /\ fail = "none" => cpu.open /\ cpu.cur = k.cpu
  BY <1>2, ReadTotalFacts, ZenonT(60) DEF Totals, FailSet, Failures, Published, Lost, Names
<1>6. /\ io \in Account
      /\ s.io.open => io.open /\ ("io" \notin Lost(fail) /\ fail # "none" => io.cur = s.io.cur)
      /\ fail = "none" => io.open /\ io.cur = DiskTotal(k)
  BY <1>2, ReadTotalFacts, ZenonT(60) DEF Totals, FailSet, Failures, Published, Lost, Names
<1>7. /\ "net" \notin Lost(fail) /\ fail # "none" => ref = s.net_ref
      /\ fail = "none" => ref = k.work /\ \A n \in Names : now[n] = Fresh(s, k)[n]
  BY DEF FailSet, Failures, Published, Lost, Names
<1> HIDE DEF now, ref, cpu, io
<1>8. /\ r \in Statistics /\ r.now = now /\ r.net_ref = ref /\ r.cpu = cpu /\ r.io = io
      /\ r.in_range = s.in_range /\ r.min = s.min /\ r.max = s.max
      /\ r.sum = s.sum /\ r.cnt = s.cnt /\ r.events = s.events
  BY <1>2, <1>3, <1>4, <1>5, <1>6 DEF Statistics
<1> HIDE DEF r
<1>9. QED
  BY <1>1, <1>5, <1>6, <1>7, <1>8

\* The aggregates are updated by a complete update within a range, and by no
\* other.
LEMMA UpdateFacts ==
  ASSUME NEW s, NEW k, Readable(s, k), NEW fail \in FailSet
  PROVE  LET u == Update(s, k, fail)
             r == Read(s, k, fail)
             sampled == fail = "none" /\ s.in_range
         IN  /\ u \in Statistics /\ Readable(u, k)
             /\ u.in_range = s.in_range /\ u.events = s.events
             /\ u.now = r.now /\ u.net_ref = r.net_ref /\ u.cpu = r.cpu /\ u.io = r.io
             /\ ~sampled => Aggregates(u) = Aggregates(s)
             /\ sampled => \A n \in Names :
                  /\ u.min[n] = Lesser(s.min[n], Fresh(s, k)[n])
                  /\ u.max[n] = Greater(s.max[n], Fresh(s, k)[n])
                  /\ u.sum[n] = AddI64(s.sum[n], Fresh(s, k)[n])
                  /\ u.cnt[n] = s.cnt[n] + 1
<1> DEFINE u == Update(s, k, fail)
           r == Read(s, k, fail)
<1>1. /\ r \in Statistics /\ r.in_range = s.in_range /\ r.min = s.min /\ r.max = s.max
      /\ r.sum = s.sum /\ r.cnt = s.cnt /\ r.events = s.events
      /\ fail = "none" => \A n \in Names : r.now[n] = Fresh(s, k)[n]
  BY ReadFacts
<1>2. CASE ~ (fail = "none" /\ s.in_range)
  <2>1. u = r
    BY <1>2 DEF Update
  <2> HIDE DEF u, r
  <2>2. QED
    BY <1>1, <1>2, <2>1 DEF Aggregates, Readable, u, r
<1>3. CASE fail = "none" /\ s.in_range
  <2> DEFINE min == [n \in Names |-> Lesser(r.min[n], r.now[n])]
             max == [n \in Names |-> Greater(r.max[n], r.now[n])]
             sum == [n \in Names |-> AddI64(r.sum[n], r.now[n])]
             cnt == [n \in Names |-> r.cnt[n] + 1]
  <2>1. u = [r EXCEPT !.min = min, !.max = max, !.sum = sum, !.cnt = cnt]
    BY <1>3 DEF Update, UpdateAggregate
  <2> HIDE DEF u, r
  <2>2. min \in [Names -> I64] /\ max \in [Names -> I64]
    BY <1>1 DEF Lesser, Greater, Statistics
  <2>3. sum \in [Names -> I64] /\ cnt \in [Names -> Nat]
    <3>1. \A n \in Names : r.sum[n] \in Int /\ r.now[n] \in Int /\ r.cnt[n] \in Nat
      BY <1>1, WordFacts DEF Statistics, I64
    <3>2. \A n \in Names : AddI64(r.sum[n], r.now[n]) \in I64
      BY <3>1, AddLemma
    <3>3. QED
      BY <3>1, <3>2
  <2>4. \A n \in Names :
           /\ min[n] = Lesser(s.min[n], Fresh(s, k)[n])
           /\ max[n] = Greater(s.max[n], Fresh(s, k)[n])
           /\ sum[n] = AddI64(s.sum[n], Fresh(s, k)[n])
           /\ cnt[n] = s.cnt[n] + 1
    BY <1>1, <1>3
  <2> HIDE DEF min, max, sum, cnt
  <2>5. /\ u \in Statistics
        /\ u.min = min /\ u.max = max /\ u.sum = sum /\ u.cnt = cnt
        /\ u.in_range = r.in_range /\ u.events = r.events
        /\ u.now = r.now /\ u.net_ref = r.net_ref /\ u.cpu = r.cpu /\ u.io = r.io
    BY <1>1, <2>1, <2>2, <2>3 DEF Statistics
  <2>6. Readable(u, k)
    BY <1>1, <2>5 DEF Readable
  <2>7. QED
    BY <1>1, <1>3, <2>4, <2>5, <2>6 DEF u, r
<1>4. QED
  BY <1>2, <1>3

\* '[' forgets the samples and starts the counters, ']' stops them.
LEMMA RangeFacts ==
  ASSUME NEW s, NEW k, Readable(s, k)
  PROVE  LET b == BeginRange(s, k)
             e == EndRange(s, k)
         IN  /\ Readable(b, k) /\ b.in_range
             /\ b.net_ref = s.net_ref /\ b.cpu = s.cpu /\ b.io = s.io
             /\ \A n \in Names : /\ b.min[n] = MaxVal /\ b.max[n] = MinVal
                                 /\ b.sum[n] = 0 /\ b.cnt[n] = 0
             /\ b.events.run /\ b.events.since = EventTotal(k)
             /\ Readable(e, k) /\ ~e.in_range /\ e.now = s.now
             /\ e.min = s.min /\ e.max = s.max /\ e.sum = s.sum /\ e.cnt = s.cnt
<1> DEFINE min == [n \in Names |-> MaxVal]
           max == [n \in Names |-> MinVal]
           zero == [n \in Names |-> 0]
           start == EventStart(k)
           stop == EventStop(s.events, k)
           b == BeginRange(s, k)
           e == EndRange(s, k)
<1>1. /\ b = [[s EXCEPT !.min = min, !.max = max, !.sum = zero, !.cnt = zero]
                 EXCEPT !.in_range = TRUE, !.events = start]
      /\ e = [s EXCEPT !.in_range = FALSE, !.events = stop]
  BY DEF BeginRange, Reset, EndRange
<1>2. s \in Statistics /\ EventTotal(k) \in Counter
  BY DEF Readable
<1>3. /\ min \in [Names -> I64] /\ max \in [Names -> I64]
      /\ zero \in [Names -> I64] /\ zero \in [Names -> Nat]
  BY WordFacts DEF I64
<1>4. /\ start = [run |-> TRUE, since |-> EventTotal(k), acc |-> 0]
      /\ stop = [run |-> FALSE, since |-> 0, acc |-> EventRead(s.events, k)]
      /\ start \in [run : BOOLEAN, since : Counter, acc : Counter]
      /\ stop \in [run : BOOLEAN, since : Counter, acc : Counter]
  BY <1>2, WordFacts, EventReadFacts DEF EventStart, EventStop, Counter
<1>5. \A n \in Names : min[n] = MaxVal /\ max[n] = MinVal /\ zero[n] = 0
  OBVIOUS
<1> HIDE DEF min, max, zero, start, stop, b, e
<1>6. /\ b \in Statistics /\ b.in_range /\ b.events = start
      /\ b.net_ref = s.net_ref /\ b.cpu = s.cpu /\ b.io = s.io
      /\ b.min = min /\ b.max = max /\ b.sum = zero /\ b.cnt = zero
  BY <1>1, <1>2, <1>3, <1>4 DEF Statistics
<1>7. /\ e \in Statistics /\ ~e.in_range /\ e.events = stop /\ e.now = s.now
      /\ e.min = s.min /\ e.max = s.max /\ e.sum = s.sum /\ e.cnt = s.cnt
  BY <1>1, <1>2, <1>4 DEF Statistics
<1>8. Readable(b, k) /\ Readable(e, k)
  BY <1>2, <1>4, <1>6, <1>7, WordFacts DEF Readable, Counter
<1>9. QED
  BY <1>4, <1>5, <1>6, <1>7, <1>8 DEF b, e

\* A sample v joins a statistic's aggregates.  If the samples with v fit, those
\* without it did, so the sum was good and stays so.
LEMMA SampleConsistent ==
  ASSUME NEW cnt \in Nat, NEW min \in I64, NEW max \in I64, NEW sum \in I64, NEW v \in I64,
         cnt > 0 => /\ min <= max
                    /\ cnt * max <= MaxVal /\ MinVal <= cnt * min
                       => cnt * min <= sum /\ sum <= cnt * max,
         cnt = 0 => sum = 0 /\ min = MaxVal /\ max = MinVal
  PROVE  LET lo == Lesser(min, v)
             hi == Greater(max, v)
         IN  /\ lo <= hi
             /\ (cnt + 1) * hi <= MaxVal /\ MinVal <= (cnt + 1) * lo
                => /\ (cnt + 1) * lo <= AddI64(sum, v)
                   /\ AddI64(sum, v) <= (cnt + 1) * hi
<1> DEFINE lo == Lesser(min, v)
           hi == Greater(max, v)
           clo == cnt * lo
           chi == cnt * hi
           cmin == cnt * min
           cmax == cnt * max
<1>1. /\ lo \in Int /\ hi \in Int /\ v \in Int /\ lo <= v /\ v <= hi /\ min \in Int /\ max \in Int
      /\ lo <= min /\ max <= hi /\ sum \in Int
  BY WordFacts DEF Lesser, Greater, I64
<1>2. (cnt + 1) * lo = clo + lo /\ (cnt + 1) * hi = chi + hi
  BY <1>1, ProductStep
<1>3. clo <= cmin /\ cmax <= chi
  BY <1>1, ProductOrdered
<1>4. /\ clo \in Int /\ cmin \in Int /\ chi \in Int /\ cmax \in Int
  BY <1>1
<1>5. (hi <= 0 => chi <= 0) /\ (0 <= lo => 0 <= clo)
  BY <1>1
<1>6. cnt = 0 => clo = 0 /\ chi = 0
  BY <1>1
<1>7. /\ cnt > 0 => (cmax <= MaxVal /\ MinVal <= cmin => cmin <= sum /\ sum <= cmax)
      /\ cnt = 0 => sum = 0
  OBVIOUS
<1> HIDE DEF lo, hi, clo, chi, cmin, cmax
<1>8. ASSUME chi + hi <= MaxVal, MinVal <= clo + lo
      PROVE  clo + lo <= sum + v /\ sum + v <= chi + hi
  <2>1. chi <= MaxVal /\ MinVal <= clo
    BY <1>1, <1>4, <1>5, <1>8, WordFacts
  <2>2. clo <= sum /\ sum <= chi
    BY <1>1, <1>3, <1>4, <1>6, <1>7, <2>1, WordFacts
  <2>3. QED
    BY <1>1, <1>4, <2>2
<1>9. ASSUME chi + hi <= MaxVal, MinVal <= clo + lo
      PROVE  clo + lo <= AddI64(sum, v) /\ AddI64(sum, v) <= chi + hi
  <2>1. sum + v \in I64
    BY <1>1, <1>4, <1>8, <1>9, WordFacts DEF I64
  <2>2. AddI64(sum, v) = sum + v
    BY <1>1, <2>1, AddLemma
  <2>3. QED
    BY <1>8, <1>9, <2>2
<1>10. lo <= hi
  BY <1>1
<1>11. QED
  BY <1>2, <1>9, <1>10 DEF lo, hi

\* So update() leaves the aggregates consistent.
LEMMA UpdateConsistent ==
  ASSUME NEW s, NEW k, Readable(s, k), Consistent(s), NEW fail \in FailSet
  PROVE  Consistent(Update(s, k, fail))
<1> DEFINE u == Update(s, k, fail)
<1>1. CASE ~ (fail = "none" /\ s.in_range)
  <2>1. u.min = s.min /\ u.max = s.max /\ u.sum = s.sum /\ u.cnt = s.cnt
    BY <1>1, UpdateFacts DEF Aggregates
  <2> HIDE DEF u
  <2>2. Consistent(u)
    BY <2>1 DEF Consistent, SumFits
  <2>3. QED
    BY <2>2 DEF u
<1>2. CASE fail = "none" /\ s.in_range
  <2>1. ASSUME NEW n \in Names
        PROVE  /\ s.cnt[n] \in Nat /\ s.min[n] \in I64 /\ s.max[n] \in I64
               /\ s.sum[n] \in I64 /\ Fresh(s, k)[n] \in I64
    BY FreshFacts DEF Readable, Statistics
  <2>2. ASSUME NEW n \in Names
        PROVE  LET lo == Lesser(s.min[n], Fresh(s, k)[n])
                   hi == Greater(s.max[n], Fresh(s, k)[n])
               IN  /\ lo <= hi
                   /\ (s.cnt[n] + 1) * hi <= MaxVal /\ MinVal <= (s.cnt[n] + 1) * lo
                      => /\ (s.cnt[n] + 1) * lo <= AddI64(s.sum[n], Fresh(s, k)[n])
                         /\ AddI64(s.sum[n], Fresh(s, k)[n]) <= (s.cnt[n] + 1) * hi
    <3>1. /\ s.cnt[n] > 0 =>
               /\ s.min[n] <= s.max[n]
               /\ s.cnt[n] * s.max[n] <= MaxVal /\ MinVal <= s.cnt[n] * s.min[n]
                  => /\ s.cnt[n] * s.min[n] <= s.sum[n]
                     /\ s.sum[n] <= s.cnt[n] * s.max[n]
          /\ s.cnt[n] = 0 => s.sum[n] = 0 /\ s.min[n] = MaxVal /\ s.max[n] = MinVal
      BY DEF Consistent, SumFits
    <3>2. QED
      BY <2>1, <3>1, SampleConsistent
  <2>3. \A n \in Names : /\ u.min[n] = Lesser(s.min[n], Fresh(s, k)[n])
                         /\ u.max[n] = Greater(s.max[n], Fresh(s, k)[n])
                         /\ u.sum[n] = AddI64(s.sum[n], Fresh(s, k)[n])
                         /\ u.cnt[n] = s.cnt[n] + 1
    BY <1>2, UpdateFacts
  <2>4. \A n \in Names : s.cnt[n] = s.cnt["net"] /\ "net" \in Names
    BY DEF Consistent, Names
  <2> HIDE DEF u
  <2>5. ASSUME NEW n \in Names
        PROVE  /\ u.cnt[n] = u.cnt["net"] /\ u.cnt[n] > 0 /\ u.cnt[n] # 0
               /\ u.min[n] <= u.max[n]
               /\ SumFits(u, n) => /\ u.cnt[n] * u.min[n] <= u.sum[n]
                                   /\ u.sum[n] <= u.cnt[n] * u.max[n]
    <3>1. u.cnt[n] = u.cnt["net"] /\ u.cnt[n] > 0 /\ u.cnt[n] # 0
      BY <2>1, <2>3, <2>4
    <3>2. QED
      BY <2>2, <2>3, <3>1, Zenon DEF SumFits
  <2>6. Consistent(u)
    BY <2>5 DEF Consistent
  <2>7. QED
    BY <2>6 DEF u
<1>3. QED
  BY <1>1, <1>2

\* Beginning and ending a range do, too.
LEMMA RangeConsistent ==
  ASSUME NEW s, NEW k, Readable(s, k), Consistent(s)
  PROVE  Consistent(BeginRange(s, k)) /\ Consistent(EndRange(s, k))
<1> DEFINE b == BeginRange(s, k)
           e == EndRange(s, k)
<1>1. /\ \A n \in Names : /\ b.min[n] = MaxVal /\ b.max[n] = MinVal
                          /\ b.sum[n] = 0 /\ b.cnt[n] = 0
      /\ e.min = s.min /\ e.max = s.max /\ e.sum = s.sum /\ e.cnt = s.cnt
  BY RangeFacts
<1>2. "net" \in Names
  BY DEF Names
<1> HIDE DEF b, e
<1>3. Consistent(b)
  BY <1>1, <1>2 DEF Consistent
<1>4. Consistent(e)
  BY <1>1 DEF Consistent, SumFits
<1>5. QED
  BY <1>3, <1>4 DEF b, e

\* A complete update adds what happened since the last reading.
LEMMA MeasuringSampled ==
  ASSUME NEW s, NEW k, Readable(s, k), NEW sp, sp.begin \in Host,
         EventTotal(sp.begin) \in Int, Measuring(s, k, sp)
  PROVE  Measuring(Update(s, k, "none"), k, sp)
<1> DEFINE u == Update(s, k, "none")
           r == Read(s, k, "none")
           now == Fresh(s, k)
<1> SUFFICES ASSUME sp.owner # "nobody"
             PROVE  Measuring(u, k, sp)
  BY DEF Measuring
<1>1. s.in_range /\ s.cpu.open /\ s.io.open /\ s.events.run /\ s.events.since = EventTotal(sp.begin)
  BY DEF Measuring
<1>2. "none" \in FailSet /\ {"net", "cpu", "io", "event"} \subseteq Names
  BY DEF FailSet, Names
<1>3. /\ r.net_ref = k.work /\ r.cpu.open /\ r.cpu.cur = k.cpu
      /\ r.io.open /\ r.io.cur = DiskTotal(k)
  BY <1>2, ReadFacts
<1>4. /\ u.in_range = s.in_range /\ u.events = s.events
      /\ u.net_ref = r.net_ref /\ u.cpu = r.cpu /\ u.io = r.io
      /\ \A n \in Names : u.sum[n] = AddI64(s.sum[n], now[n]) /\ u.max[n] = Greater(s.max[n], now[n])
  <2> DEFINE sampled == "none" = "none" /\ s.in_range
  <2>1. /\ u.in_range = s.in_range /\ u.events = s.events
        /\ u.net_ref = r.net_ref /\ u.cpu = r.cpu /\ u.io = r.io
        /\ sampled => \A n \in Names :
             /\ u.max[n] = Greater(s.max[n], now[n])
             /\ u.sum[n] = AddI64(s.sum[n], now[n])
    BY <1>2, UpdateFacts
  <2>2. QED
    BY <1>1, <2>1
<1>5. /\ now["net"] = k.work - s.net_ref /\ now["event"] = EventRead(s.events, k)
      /\ now["cpu"] = k.cpu - s.cpu.cur /\ now["io"] = DiskTotal(k) - s.io.cur
  BY <1>1, FreshFacts
<1>6. EventRead(s.events, k) = EventTotal(k) - EventTotal(sp.begin)
  BY <1>1, EventReadFacts
<1>7. /\ sp.begin.work \in Int /\ sp.begin.cpu \in Int /\ k.work \in Int /\ k.cpu \in Int
      /\ DiskTotal(k) \in Int /\ s.net_ref \in Int /\ s.cpu.cur \in Int /\ s.io.cur \in Int
      /\ EventTotal(k) \in Int /\ \A n \in Names : s.sum[n] \in Int /\ s.max[n] \in Int
  BY WordFacts, SMTT(60) DEF Readable, Host, Statistics, Account, Counter, I64
<1>8. s.max["event"] <= EventTotal(k) - EventTotal(sp.begin)
  BY DEF Measuring
<1> HIDE DEF u, r, now
<1>9. u.max["event"] <= EventTotal(k) - EventTotal(sp.begin)
  BY <1>2, <1>4, <1>5, <1>6, <1>7, <1>8 DEF Greater
<1>10. ASSUME NEW n \in Names, NEW a \in Counter, NEW b \in Counter, NEW c \in Counter,
              s.sum[n] = b - c, now[n] = a - b
       PROVE  u.sum[n] = a - c
  <2>1. s.sum[n] \in Int /\ now[n] \in Int /\ s.sum[n] + now[n] = a - c /\ a - c \in I64
    BY <1>10, WordFacts DEF Counter, I64
  <2>2. QED
    BY <1>4, <2>1, AddLemma
<1>11. /\ sp.begin.work \in Counter /\ sp.begin.cpu \in Counter /\ DiskTotal(sp.begin) \in Counter
       /\ k.work \in Counter /\ k.cpu \in Counter /\ DiskTotal(k) \in Counter
       /\ s.net_ref \in Counter /\ s.cpu.cur \in Counter /\ s.io.cur \in Counter
  BY SMTT(60) DEF Readable, Host, Statistics, Account, Measuring
<1>12. /\ "net" \notin sp.lost => u.sum["net"] = u.net_ref - sp.begin.work
       /\ "cpu" \notin sp.lost => u.sum["cpu"] = u.cpu.cur - sp.begin.cpu
       /\ "io" \notin sp.lost => u.sum["io"] = u.io.cur - DiskTotal(sp.begin)
  <2>1. /\ "net" \notin sp.lost => s.sum["net"] = s.net_ref - sp.begin.work
        /\ "cpu" \notin sp.lost => s.sum["cpu"] = s.cpu.cur - sp.begin.cpu
        /\ "io" \notin sp.lost => s.sum["io"] = s.io.cur - DiskTotal(sp.begin)
    BY DEF Measuring
  <2>2. "net" \notin sp.lost => u.sum["net"] = k.work - sp.begin.work
    BY <1>2, <1>5, <1>10, <1>11, <2>1
  <2>3. "cpu" \notin sp.lost => u.sum["cpu"] = k.cpu - sp.begin.cpu
    BY <1>2, <1>5, <1>10, <1>11, <2>1
  <2>4. "io" \notin sp.lost => u.sum["io"] = DiskTotal(k) - DiskTotal(sp.begin)
    BY <1>2, <1>5, <1>10, <1>11, <2>1
  <2>5. QED
    BY <1>3, <1>4, <2>2, <2>3, <2>4
<1>13. QED
  BY <1>1, <1>3, <1>4, <1>9, <1>11, <1>12 DEF Measuring

\* One that fails adds nothing; what it has read is lost.
LEMMA MeasuringLost ==
  ASSUME NEW s, NEW k, Readable(s, k), NEW sp, NEW sq, NEW fail \in Failures,
         sq.owner = sp.owner, sq.begin = sp.begin, sq.lost = sp.lost \cup Lost(fail),
         Measuring(s, k, sp)
  PROVE  Measuring(Update(s, k, fail), k, sq)
<1> DEFINE u == Update(s, k, fail)
           r == Read(s, k, fail)
<1> SUFFICES ASSUME sp.owner # "nobody"
             PROVE  Measuring(u, k, sq)
  BY DEF Measuring
<1>1. fail \in FailSet /\ fail # "none"
  BY DEF FailSet, Failures
<1>2. s.cpu.open /\ s.io.open
  BY DEF Measuring
<1>3. /\ r.cpu.open /\ r.io.open
      /\ "net" \notin Lost(fail) => r.net_ref = s.net_ref
      /\ "cpu" \notin Lost(fail) => r.cpu.cur = s.cpu.cur
      /\ "io" \notin Lost(fail) => r.io.cur = s.io.cur
  <2>1. "net" \notin Lost(fail) /\ fail # "none" => r.net_ref = s.net_ref
    BY <1>1, ReadFacts
  <2>2. /\ s.cpu.open => r.cpu.open
        /\ s.cpu.open /\ "cpu" \notin Lost(fail) /\ fail # "none" => r.cpu.cur = s.cpu.cur
    BY <1>1, ReadFacts
  <2>3. /\ s.io.open => r.io.open
        /\ s.io.open /\ "io" \notin Lost(fail) /\ fail # "none" => r.io.cur = s.io.cur
    BY <1>1, ReadFacts
  <2>4. QED
    BY <1>1, <1>2, <2>1, <2>2, <2>3
<1>4. /\ u.in_range = s.in_range /\ u.events = s.events
      /\ u.net_ref = r.net_ref /\ u.cpu = r.cpu /\ u.io = r.io
      /\ u.sum = s.sum /\ u.max = s.max
  BY <1>1, UpdateFacts DEF Aggregates
<1> HIDE DEF u, r
<1>5. QED
  BY <1>2, <1>3, <1>4 DEF Measuring

------------------------------------------------------------------------------
(* The host's counters *)

\* What StatMonAssumption says.
LEMMA ConstantFacts ==
  /\ NDisks \in Nat /\ NDisks >= 1 /\ NCpus \in Nat /\ NCpus >= 1
  /\ MaxWork \in Nat /\ MaxSamples \in Nat /\ MaxFails \in Nat
  /\ MaxWork + NCpus <= MaxVal /\ "nobody" \notin Clients /\ MaxBytes \in [Clients -> Nat]
  BY StatMonAssumption

\* The CPUs whose perf counter EventStat::new could open, before the first failure.
WatchedCpus == {c \in 1..NCpus : (1..c) \cap Closed = {}}

\* They are finitely many, at most all.
LEMMA WatchedFinite ==
  /\ IsFiniteSet(WatchedCpus) /\ Cardinality(WatchedCpus) <= NCpus
  /\ WatchedCpus \subseteq 1..NCpus
<1>1. IsFiniteSet(1..NCpus) /\ Cardinality(1..NCpus) = NCpus
  BY ConstantFacts, FS_Interval
<1>2. WatchedCpus \subseteq 1..NCpus
  BY DEF WatchedCpus
<1>3. QED
  BY <1>1, <1>2, FS_Subset, ZenonT(60)

\* The totals that are read off a host.
LEMMA HostFacts ==
  ASSUME NEW k \in Host
  PROVE  /\ EventTotal(k) = SUM(k.cpus, WatchedCpus)
         /\ EventTotal(k) \in Int
         /\ DiskTotal(k) = k.disks[NDisks]
         /\ k \in Reading
<1>1. k.disks \in [1..NDisks -> Nat] /\ k.cpus \in [1..NCpus -> Nat]
  BY DEF Host
<1>2. Watched(k) = WatchedCpus
  BY <1>1 DEF Watched, WatchedCpus
<1>3. EventTotal(k) = SUM(k.cpus, WatchedCpus)
  BY <1>2 DEF EventTotal, SUM
<1>4. \A c \in WatchedCpus : k.cpus[c] \in Int
  BY <1>1, ConstantFacts, WatchedFinite
<1>5. EventTotal(k) \in Int
  BY <1>3, <1>4, WatchedFinite, SumIsInt
<1>6. k.disks \in Seq(Nat) /\ k.cpus \in Seq(Nat)
  BY <1>1, ConstantFacts, SeqDef, SMTT(60)
<1>7. Len(k.disks) = NDisks
  BY <1>1, <1>6, ConstantFacts, LenProperties
<1>8. k \in Reading
  BY <1>6, WordFacts DEF Host, Reading, Counter
<1>9. QED
  BY <1>3, <1>5, <1>7, <1>8 DEF DiskTotal

\* HostInv bounds everything the readers read.
LEMMA HostReadable ==
  ASSUME NEW k, HostInv(k)
  PROVE  k \in Host /\ DiskTotal(k) \in Counter /\ EventTotal(k) \in Counter
<1>1. k \in Host /\ k.work \in Counter /\ k.work \in Int
  BY WordFacts DEF HostInv, Host, Counter
<1>2. k.disks[NDisks] \in Nat
  BY <1>1, ConstantFacts DEF Host
<1>3. k.disks[NDisks] <= k.work
  BY ConstantFacts DEF HostInv
<1>4. QED
  BY <1>1, <1>2, <1>3, HostFacts, ConstantFacts, WordFacts DEF HostInv, Counter

\* The host is in bounds when it boots.
LEMMA NewHostInv == HostInv(NewHost)
<1>1. /\ NewHost.work = 1 /\ NewHost.cpu = 1
      /\ NewHost.disks = [d \in 1..NDisks |-> 1] /\ NewHost.cpus = [c \in 1..NCpus |-> 1]
  BY DEF NewHost
<1>2. NewHost \in Host
  BY WordFacts DEF NewHost, Host, Counter
<1>3. EventTotal(NewHost) = SUM(NewHost.cpus, WatchedCpus) /\ EventTotal(NewHost) \in Int
  BY <1>2, HostFacts
<1>4. \A c \in WatchedCpus : NewHost.cpus[c] = 1
  BY <1>1 DEF WatchedCpus
<1>5. SUM(NewHost.cpus, WatchedCpus) <= Cardinality(WatchedCpus)
  <2>1. \A c \in WatchedCpus : NewHost.cpus[c] \in Int /\ NewHost.cpus[c] <= 1
    BY <1>4
  <2>2. QED
    BY <2>1, WatchedFinite, SumAtMostOneEach, Zenon
<1>6. Cardinality(WatchedCpus) \in Nat
  BY WatchedFinite, FS_CardinalityType
<1>7. SUM(NewHost.cpus, WatchedCpus) >= 0
  <2> DEFINE zero == [c \in 1..NCpus |-> 0]
  <2>1. \A c \in WatchedCpus : zero[c] \in Int /\ NewHost.cpus[c] \in Int /\ zero[c] <= NewHost.cpus[c]
    BY <1>4 DEF WatchedCpus
  <2>2. \A c \in WatchedCpus : zero[c] = 0
    BY DEF WatchedCpus
  <2> HIDE DEF zero
  <2>3. SUM(zero, WatchedCpus) <= SUM(NewHost.cpus, WatchedCpus)
    BY <2>1, WatchedFinite, SumOrdered
  <2>4. SUM(zero, WatchedCpus) = 0
    BY <2>2, WatchedFinite, SumOfZeros
  <2>5. QED
    BY <2>3, <2>4, <1>3
<1>8. QED
  BY <1>1, <1>2, <1>3, <1>5, <1>6, <1>7, ConstantFacts, WatchedFinite DEF HostInv

\* A unit of activity shows in the perf counters at most once.
LEMMA WorkEvents ==
  ASSUME NEW k \in Host, NEW l \in Host, NEW c \in 1..NCpus,
         l.cpus = [k.cpus EXCEPT ![c] = @ + 1]
  PROVE  EventTotal(l) = EventTotal(k) \/ EventTotal(l) = EventTotal(k) + 1
<1> DEFINE f == k.cpus
           g == l.cpus
<1>1. EventTotal(k) = SUM(f, WatchedCpus) /\ EventTotal(l) = SUM(g, WatchedCpus)
  BY HostFacts
<1>2. f \in [1..NCpus -> Nat] /\ g = [f EXCEPT ![c] = @ + 1]
  BY DEF Host
<1> HIDE DEF f, g
<1>3. \A i \in WatchedCpus : f[i] \in Int /\ i \in 1..NCpus
  BY <1>2, ConstantFacts, WatchedFinite
<1>4. CASE c \in WatchedCpus
  <2>1. \A i \in WatchedCpus : f[i] \in Int /\ g[i] = IF i = c THEN f[i] + 1 ELSE f[i]
    BY <1>2, <1>3
  <2>2. SUM(g, WatchedCpus) = SUM(f, WatchedCpus) + 1
    BY <1>4, <2>1, WatchedFinite, SumOneMore, ZenonT(60)
  <2>3. QED
    BY <1>1, <2>2
<1>5. CASE c \notin WatchedCpus
  <2>1. \A i \in WatchedCpus : g[i] = f[i]
    BY <1>2, <1>3, <1>5
  <2>2. SUM(g, WatchedCpus) = SUM(f, WatchedCpus)
    BY <2>1, WatchedFinite, SumAgrees
  <2>3. QED
    BY <1>1, <2>2
<1>6. QED
  BY <1>4, <1>5

------------------------------------------------------------------------------
(* What the steps do to the books *)

\* The host works on: later readings show no less.
LEMMA BooksHost ==
  ASSUME NEW s, NEW k, NEW l, NEW sp, Books(s, k, sp), HostInv(l),
         EventTotal(k) <= EventTotal(l)
  PROVE  Books(s, l, sp)
<1>1. l \in Host /\ DiskTotal(l) \in Counter /\ EventTotal(l) \in Counter
  BY HostReadable
<1>2. EventTotal(k) \in Counter /\ s \in Statistics /\ EventTotal(sp.begin) \in Int
  BY HostFacts DEF Books, Readable, Spans
<1>3. s.events.since \in Int /\ s.max["event"] \in Int /\ EventTotal(k) \in Int /\ EventTotal(l) \in Int
  BY <1>1, <1>2, WordFacts DEF Statistics, Counter, I64, Names
<1>4. Readable(s, l)
  BY <1>1, <1>2, <1>3 DEF Books, Readable
<1>5. Measuring(s, l, sp)
  BY <1>2, <1>3 DEF Books, Measuring
<1>6. QED
  BY <1>4, <1>5 DEF Books

\* What Books says, with the types of the totals at the begin of the range.
LEMMA SpanFacts ==
  ASSUME NEW s, NEW k, NEW sp, Books(s, k, sp)
  PROVE  /\ Readable(s, k) /\ Consistent(s) /\ Measuring(s, k, sp) /\ HostInv(k)
         /\ sp \in Spans /\ sp.begin \in Host
         /\ EventTotal(sp.begin) \in Int
<1>1. Readable(s, k) /\ Consistent(s) /\ Measuring(s, k, sp) /\ HostInv(k) /\ sp \in Spans
  BY DEF Books
<1>2. sp.begin \in Host
  BY <1>1 DEF Spans
<1>3. QED
  BY <1>1, <1>2, HostFacts

\* A complete update.
LEMMA BooksUpdate ==
  ASSUME NEW s, NEW k, NEW sp, Books(s, k, sp)
  PROVE  Books(Update(s, k, "none"), k, sp)
<1>1. "none" \in FailSet
  BY DEF FailSet
<1>2. Readable(Update(s, k, "none"), k)
  BY <1>1, SpanFacts, UpdateFacts
<1>3. Consistent(Update(s, k, "none"))
  BY <1>1, SpanFacts, UpdateConsistent
<1>4. Measuring(Update(s, k, "none"), k, sp)
  BY SpanFacts, MeasuringSampled
<1>5. QED
  BY <1>2, <1>3, <1>4, SpanFacts DEF Books

\* One that fails.
LEMMA BooksLost ==
  ASSUME NEW s, NEW k, NEW sp, Books(s, k, sp), NEW fail \in Failures
  PROVE  Books(Update(s, k, fail), k,
               IF sp = NoSpan THEN sp ELSE [sp EXCEPT !.lost = @ \cup Lost(fail)])
<1> DEFINE sq == IF sp = NoSpan THEN sp ELSE [sp EXCEPT !.lost = @ \cup Lost(fail)]
           u == Update(s, k, fail)
<1>1. fail \in FailSet
  BY DEF FailSet
<1>2. Readable(u, k) /\ Consistent(u)
  BY <1>1, SpanFacts, UpdateFacts, UpdateConsistent
<1>3. Lost(fail) \subseteq Names
  BY DEF Lost, Failures, Names
<1>4. sq \in Spans
  BY <1>3, SpanFacts DEF Spans
<1>5. Measuring(u, k, sq)
  <2>1. CASE sp = NoSpan
    BY <2>1 DEF Measuring, NoSpan
  <2>2. CASE sp # NoSpan
    <3>1. sq.owner = sp.owner /\ sq.begin = sp.begin /\ sq.lost = sp.lost \cup Lost(fail)
      BY <2>2, SpanFacts DEF Spans
    <3> HIDE DEF sq
    <3>2. QED
      BY <3>1, SpanFacts, MeasuringLost
  <2>3. QED
    BY <2>1, <2>2
<1> HIDE DEF sq, u
<1>6. Books(u, k, sq)
  BY <1>2, <1>4, <1>5, SpanFacts DEF Books
<1>7. QED
  BY <1>6 DEF sq, u

\* '['
LEMMA BooksBegin ==
  ASSUME NEW s, NEW k, NEW sp, Books(s, k, sp), NEW c \in Clients
  PROVE  Books(BeginRange(Update(s, k, "none"), k), k, [owner |-> c, begin |-> k, lost |-> {}])
<1> DEFINE u == Update(s, k, "none")
           b == BeginRange(u, k)
           sq == [owner |-> c, begin |-> k, lost |-> {}]
<1>1. Books(u, k, sp) /\ "none" \in FailSet
  BY BooksUpdate DEF FailSet
<1>2. Readable(u, k) /\ Consistent(u) /\ HostInv(k)
  BY <1>1, SpanFacts
<1>3. /\ u.net_ref = k.work /\ u.cpu.open /\ u.cpu.cur = k.cpu
      /\ u.io.open /\ u.io.cur = DiskTotal(k)
  BY <1>1, SpanFacts, ReadFacts, UpdateFacts
<1>4. /\ Readable(b, k) /\ b.in_range /\ b.net_ref = u.net_ref /\ b.cpu = u.cpu /\ b.io = u.io
      /\ \A n \in Names : b.max[n] = MinVal /\ b.sum[n] = 0
      /\ b.events.run /\ b.events.since = EventTotal(k)
  BY <1>2, RangeFacts
<1>5. Consistent(b)
  BY <1>2, RangeConsistent
<1>6. /\ k \in Host /\ k.work \in Int /\ k.cpu \in Int /\ DiskTotal(k) \in Int
      /\ EventTotal(k) \in Int /\ DiskTotal(k) \in Counter
  BY <1>2, HostReadable, WordFacts DEF Host, Counter
<1> HIDE DEF u, b
<1>7. Measuring(b, k, sq)
  <2>1. {"net", "cpu", "io", "event"} \subseteq Names
    BY DEF Names
  <2>2. MinVal <= EventTotal(k) - EventTotal(k)
    BY <1>6, WordFacts
  <2>3. QED
    BY <1>3, <1>4, <1>6, <2>1, <2>2 DEF Measuring
<1>8. sq \in Spans
  BY <1>6 DEF Spans
<1> HIDE DEF sq
<1>9. Books(b, k, sq)
  BY <1>2, <1>4, <1>5, <1>7, <1>8 DEF Books
<1>10. QED
  BY <1>9 DEF u, b, sq

\* ']', and what it reports of a range that its owner ends.
LEMMA BooksEnd ==
  ASSUME NEW s, NEW k, NEW sp, Books(s, k, sp)
  PROVE  LET e == EndRange(Update(s, k, "none"), k)
         IN  /\ Books(e, k, NoSpan)
             /\ sp.owner # "nobody" =>
                  /\ "net" \notin sp.lost => e.sum["net"] = k.work - sp.begin.work
                  /\ "cpu" \notin sp.lost => e.sum["cpu"] = k.cpu - sp.begin.cpu
                  /\ "io" \notin sp.lost => e.sum["io"] = DiskTotal(k) - DiskTotal(sp.begin)
                  /\ e.now["event"] = EventTotal(k) - EventTotal(sp.begin)
                  /\ e.max["event"] = EventTotal(k) - EventTotal(sp.begin)
<1> DEFINE u == Update(s, k, "none")
           e == EndRange(u, k)
<1>1. Books(u, k, sp) /\ "none" \in FailSet
  BY BooksUpdate DEF FailSet
<1>2. Readable(u, k) /\ Consistent(u) /\ HostInv(k) /\ Measuring(u, k, sp)
  BY <1>1, SpanFacts
<1>3. Readable(e, k) /\ e.now = u.now /\ e.sum = u.sum /\ e.max = u.max
  BY <1>2, RangeFacts
<1>4. Consistent(e)
  BY <1>2, RangeConsistent
<1>5. NoSpan \in Spans /\ Measuring(e, k, NoSpan)
  BY NewHostInv DEF NoSpan, Spans, Measuring, HostInv
<1>6. Books(e, k, NoSpan)
  BY <1>2, <1>3, <1>4, <1>5 DEF Books
<1>7. ASSUME sp.owner # "nobody"
      PROVE  /\ "net" \notin sp.lost => e.sum["net"] = k.work - sp.begin.work
             /\ "cpu" \notin sp.lost => e.sum["cpu"] = k.cpu - sp.begin.cpu
             /\ "io" \notin sp.lost => e.sum["io"] = DiskTotal(k) - DiskTotal(sp.begin)
             /\ e.now["event"] = EventTotal(k) - EventTotal(sp.begin)
             /\ e.max["event"] = EventTotal(k) - EventTotal(sp.begin)
  <2> DEFINE total == EventTotal(k) - EventTotal(sp.begin)
  <2>1. u.net_ref = k.work /\ u.cpu.cur = k.cpu /\ u.io.cur = DiskTotal(k)
    BY <1>1, SpanFacts, ReadFacts, UpdateFacts
  <2>2. s.in_range /\ s.events.run /\ s.events.since = EventTotal(sp.begin)
    BY <1>7, SpanFacts DEF Measuring
  <2>3. Fresh(s, k)["event"] = total
    BY <2>2, SpanFacts, FreshFacts, EventReadFacts
  <2>4. "event" \in Names
    BY DEF Names
  <2>5. u.now["event"] = total
    BY <1>1, <2>3, <2>4, SpanFacts, ReadFacts, UpdateFacts
  <2>6. u.max["event"] = Greater(s.max["event"], total)
    <3> DEFINE sampled == "none" = "none" /\ s.in_range
    <3>1. sampled => \A n \in Names : u.max[n] = Greater(s.max[n], Fresh(s, k)[n])
      BY <1>1, SpanFacts, UpdateFacts
    <3>2. QED
      BY <2>2, <2>3, <2>4, <3>1
  <2>7. s.max["event"] <= total
    BY <1>7, SpanFacts DEF Measuring
  <2>8. s.max["event"] \in Int /\ total \in Int
    BY <2>4, SpanFacts, HostFacts, WordFacts DEF Readable, Statistics, I64
  <2> HIDE DEF u, e, total
  <2>9. u.max["event"] = total
    BY <2>6, <2>7, <2>8 DEF Greater
  <2>10. QED
    BY <1>2, <1>3, <1>7, <2>1, <2>5, <2>9 DEF Measuring, total
<1> HIDE DEF u, e
<1>8. QED
  BY <1>6, <1>7 DEF u, e

------------------------------------------------------------------------------
(* The invariant *)

Control ==
    /\ server \in {"boot1", "boot2", "up", "dead"}
    /\ conn \in [Clients -> {"none", "open", "closed"}]
    /\ alive \in [Clients -> BOOLEAN]
    /\ inbox \in [Clients -> Seq(Bytes)]
    /\ sent \in [Clients -> Nat] /\ \A c \in Clients : sent[c] <= MaxBytes[c]
    /\ fails \in 0..MaxFails
    /\ reply = [c \in Clients |-> reply[c]]

IInv == Control /\ Books(st, kern, span) /\ ExclusiveRangeExact

\* The invariant holds when statmon starts.
LEMMA InitIInv == Init => IInv
<1> SUFFICES ASSUME Init PROVE IInv
  OBVIOUS
<1>1. Control
  <2>1. \A c \in Clients : MaxBytes[c] \in Nat
    BY ConstantFacts
  <2>2. reply = [c \in Clients |-> reply[c]]
    BY DEF Init
  <2>3. QED
    BY <2>1, <2>2, ConstantFacts DEF Init, Control
<1>2. HostInv(kern) /\ span \in Spans /\ Measuring(st, kern, span)
  BY NewHostInv DEF Init, NoSpan, Spans, Measuring, HostInv
<1>3. st \in Statistics
  <2>1. 0 \in I64 /\ MinVal \in I64 /\ MaxVal \in I64 /\ 0 \in Counter
    BY WordFacts DEF I64, Counter
  <2>2. QED
    BY <2>1 DEF Init, New, NewCpuStat, NewIoStat, NewEventStat, Statistics, Account
<1>4. Readable(st, kern)
  <2>1. st.events.acc = 0 /\ st.events.since = 0
    BY DEF Init, New, NewEventStat
  <2>2. QED
    BY <1>2, <1>3, <2>1, HostReadable DEF Readable, HostInv
<1>5. Consistent(st)
  BY DEF Init, New, Consistent, Names
<1>6. ExclusiveRangeExact
  BY DEF Init, NoReply, ExclusiveRangeExact
<1>7. QED
  BY <1>1, <1>2, <1>4, <1>5, <1>6 DEF IInv, Books

\* Every step keeps the types of the server, its connections and their bytes.
LEMMA NextControl == Control /\ [Next]_vars => Control'
<1> SUFFICES ASSUME Control, [Next]_vars PROVE Control'
  OBVIOUS
<1> USE DEF Control
<1>1. CASE UNCHANGED vars
  BY <1>1 DEF vars
<1>2. CASE HostWork \/ CpuStepsBack
  BY <1>2 DEF HostWork, CpuStepsBack
<1>3. CASE Boot
  BY <1>3, ConstantFacts DEF Boot, Die
<1>4. CASE Tick
  BY <1>4, ConstantFacts DEF Tick, Die
<1>5. ASSUME NEW c \in Clients, Connect(c)
      PROVE  Control'
  BY <1>5 DEF Connect
<1>6. ASSUME NEW c \in Clients, ClientSend(c)
      PROVE  Control'
  <2>1. MaxBytes[c] \in Nat /\ sent[c] < MaxBytes[c]
    BY <1>6, ConstantFacts DEF ClientSend
  <2>2. /\ sent' = [sent EXCEPT ![c] = @ + 1]
        /\ \E b \in Bytes : inbox' = [inbox EXCEPT ![c] = Append(@, b)]
        /\ UNCHANGED <<server, conn, alive, reply, fails>>
    BY <1>6 DEF ClientSend
  <2>3. PICK b \in Bytes : inbox' = [inbox EXCEPT ![c] = Append(@, b)]
    BY <2>2
  <2>4. Append(inbox[c], b) \in Seq(Bytes)
    OBVIOUS
  <2>5. inbox' \in [Clients -> Seq(Bytes)]
    BY <2>3, <2>4
  <2>6. sent' \in [Clients -> Nat] /\ \A d \in Clients : sent'[d] <= MaxBytes[d]
    BY <2>1, <2>2, ConstantFacts, SMTT(60)
  <2>7. QED
    BY <2>2, <2>5, <2>6
<1>7. ASSUME NEW c \in Clients, ClientGone(c)
      PROVE  Control'
  BY <1>7 DEF ClientGone
<1>8. ASSUME NEW c \in Clients, NEW b, Take(c, b)
      PROVE  inbox' \in [Clients -> Seq(Bytes)] /\ server = "up"
  <2>1. inbox[c] \in Seq(Bytes) /\ inbox[c] # <<>> /\ server = "up"
    BY <1>8 DEF Take
  <2>2. Tail(inbox[c]) \in Seq(Bytes)
    BY <2>1
  <2>3. QED
    BY <1>8, <2>1, <2>2 DEF Take
<1>9. ASSUME NEW c \in Clients, NEW packet, Write(c, packet)
      PROVE  /\ conn' \in [Clients -> {"none", "open", "closed"}]
             /\ reply' = [d \in Clients |-> reply'[d]]
  BY <1>9 DEF Write, Close
<1>10. ASSUME NEW c \in Clients, Handle(c)
       PROVE  Control'
  <2>1. CASE Begin(c)
    BY <2>1, <1>8 DEF Begin
  <2>2. CASE End(c)
    <3>1. PICK packet : Write(c, packet)
      BY <2>2 DEF End
    <3>2. QED
      BY <2>2, <3>1, <1>8, <1>9 DEF End
  <2>3. CASE Query(c)
    <3>1. PICK packet : Write(c, packet)
      BY <2>3 DEF Query
    <3>2. QED
      BY <2>3, <3>1, <1>8, <1>9 DEF Query
  <2>4. CASE Quit(c)
    BY <2>4, <1>8 DEF Quit, Close
  <2>5. CASE OtherByte(c)
    BY <2>5, <1>8 DEF OtherByte
  <2>6. CASE CommandFails(c)
    BY <2>6, <1>8, ConstantFacts, SMTT(60) DEF CommandFails, UpdateFails, Close
  <2>7. CASE CommandPanics(c)
    BY <2>7, <1>8, ConstantFacts, SMTT(60) DEF CommandPanics, Die
  <2>8. CASE EndOfStream(c)
    BY <2>8 DEF EndOfStream, Close
  <2>9. QED
    BY <1>10, <2>1, <2>2, <2>3, <2>4, <2>5, <2>6, <2>7, <2>8 DEF Handle
<1>11. QED
  BY <1>1, <1>2, <1>3, <1>4, <1>5, <1>6, <1>7, <1>10 DEF Next

\* A unit of work, or a step back of the CPU time, keeps the host's counters in
\* bounds, and the perf counters never step back.
LEMMA NextHost ==
  ASSUME HostInv(kern), HostWork \/ CpuStepsBack
  PROVE  HostInv(kern') /\ EventTotal(kern) <= EventTotal(kern')
<1>1. /\ kern \in Host /\ kern.work \in Counter /\ kern.cpu \in Counter
      /\ kern.disks \in [1..NDisks -> Nat] /\ kern.cpus \in [1..NCpus -> Nat]
      /\ EventTotal(kern) \in Int
  BY HostReadable, HostFacts DEF HostInv, Host
<1>2. /\ kern.work \in Nat /\ kern.cpu \in Nat /\ kern.work <= MaxVal
      /\ kern.work >= 1 /\ (kern.work = 1 \/ kern.work <= MaxWork) /\ kern.cpu <= kern.work
      /\ 0 <= EventTotal(kern) /\ EventTotal(kern) <= NCpus + kern.work - 1
      /\ \A d \in 1..NDisks : kern.disks[d] <= kern.work
  BY <1>1, WordFacts DEF HostInv, Counter
<1>3. CASE HostWork
  <2>1. kern.work < MaxWork
    BY <1>3 DEF HostWork
  <2>2. PICK d \in 1..NDisks, c \in 1..NCpus :
           kern' = [kern EXCEPT !.work = @ + 1, !.cpu = @ + 1, !.disks[d] = @ + 1, !.cpus[c] = @ + 1]
    BY <1>3 DEF HostWork, Work
  <2>3. /\ kern'.work = kern.work + 1 /\ kern'.cpu = kern.cpu + 1
        /\ kern'.disks = [kern.disks EXCEPT ![d] = kern.disks[d] + 1]
        /\ kern'.cpus = [kern.cpus EXCEPT ![c] = kern.cpus[c] + 1]
        /\ kern' = [work |-> kern'.work, cpu |-> kern'.cpu,
                    disks |-> kern'.disks, cpus |-> kern'.cpus]
    BY <1>1, <2>2 DEF Host
  <2>4. /\ kern'.disks \in [1..NDisks -> Nat] /\ kern'.cpus \in [1..NCpus -> Nat]
        /\ \A i \in 1..NDisks : kern'.disks[i] <= kern.work + 1
    <3> DEFINE f == kern.disks
               g == kern.cpus
               f1 == kern'.disks
               g1 == kern'.cpus
               w == kern.work
    <3>1. /\ f \in [1..NDisks -> Nat] /\ g \in [1..NCpus -> Nat] /\ w \in Nat
          /\ f1 = [f EXCEPT ![d] = f[d] + 1] /\ g1 = [g EXCEPT ![c] = g[c] + 1]
          /\ \A i \in 1..NDisks : f[i] <= w
      BY <1>1, <1>2, <2>3
    <3> HIDE DEF f, g, f1, g1, w
    <3>2. /\ f1 \in [1..NDisks -> Nat] /\ g1 \in [1..NCpus -> Nat]
          /\ \A i \in 1..NDisks : f1[i] <= w + 1
      BY <3>1, ConstantFacts, SMTT(60)
    <3>3. QED
      BY <3>2 DEF f, g, f1, g1, w
  <2>5. kern'.work \in Counter /\ kern'.cpu \in Counter
    BY <1>2, <2>1, <2>3, ConstantFacts, WordFacts DEF Counter
  <2>6. kern' \in Host
    BY <2>3, <2>4, <2>5 DEF Host
  <2>7. EventTotal(kern') = EventTotal(kern) \/ EventTotal(kern') = EventTotal(kern) + 1
    BY <1>1, <2>3, <2>6, WorkEvents
  <2>8. \A i \in 1..NDisks : kern'.disks[i] <= kern'.work
    BY <2>3, <2>4
  <2>9. /\ kern'.work >= 1 /\ kern'.work <= MaxWork /\ kern'.cpu <= kern'.work
        /\ 0 <= EventTotal(kern') /\ EventTotal(kern') <= NCpus + kern'.work - 1
        /\ EventTotal(kern) <= EventTotal(kern')
    <3> DEFINE w == kern.work
               w1 == kern'.work
               t == kern.cpu
               t1 == kern'.cpu
               n == EventTotal(kern)
               n1 == EventTotal(kern')
    <3>1. /\ w \in Nat /\ t \in Nat /\ n \in Int /\ w < MaxWork /\ w1 = w + 1 /\ t1 = t + 1
          /\ w >= 1 /\ t <= w /\ 0 <= n /\ n <= NCpus + w - 1 /\ (n1 = n \/ n1 = n + 1)
      BY <1>1, <1>2, <2>1, <2>3, <2>7
    <3> HIDE DEF w, w1, t, t1, n, n1
    <3>2. /\ w1 >= 1 /\ w1 <= MaxWork /\ t1 <= w1 /\ 0 <= n1 /\ n1 <= NCpus + w1 - 1 /\ n <= n1
      BY <3>1, ConstantFacts
    <3>3. QED
      BY <3>2 DEF w, w1, t, t1, n, n1
  <2>10. QED
    BY <2>6, <2>8, <2>9 DEF HostInv
<1>4. CASE CpuStepsBack
  <2>1. kern.cpu > 0 /\ kern' = [kern EXCEPT !.cpu = kern.cpu - 1]
    BY <1>4 DEF CpuStepsBack
  <2>2. /\ kern'.work = kern.work /\ kern'.cpu = kern.cpu - 1
        /\ kern'.disks = kern.disks /\ kern'.cpus = kern.cpus
    BY <1>1, <2>1 DEF Host
  <2>3. kern.cpu - 1 \in Counter
    BY <1>1, <1>2, <2>1, WordFacts DEF Counter
  <2>4. kern' \in Host
    BY <1>1, <2>1, <2>3 DEF Host
  <2>5. EventTotal(kern') = EventTotal(kern)
    BY <1>1, <2>2, <2>4, HostFacts
  <2>6. QED
    BY <1>1, <1>2, <2>2, <2>4, <2>5 DEF HostInv
<1>5. QED
  BY <1>3, <1>4

\* Every step leaves the books in order.
LEMMA NextBooks ==
  ASSUME Books(st, kern, span), [Next]_vars
  PROVE  Books(st', kern', span')
<1>1. CASE UNCHANGED <<st, kern, span>>
  BY <1>1
<1>2. CASE HostWork \/ CpuStepsBack
  <2>1. HostInv(kern') /\ EventTotal(kern) <= EventTotal(kern')
    BY <1>2, NextHost, SpanFacts
  <2>2. st' = st /\ span' = span
    BY <1>2 DEF HostWork, CpuStepsBack
  <2>3. QED
    BY <2>1, <2>2, BooksHost
<1>3. CASE st' = Update(st, kern, "none") /\ UNCHANGED <<kern, span>>
  BY <1>3, BooksUpdate
<1>4. CASE Boot \/ Tick
  BY <1>1, <1>3, <1>4 DEF Boot, Tick
<1>5. ASSUME NEW c \in Clients, Begin(c)
      PROVE  Books(st', kern', span')
  BY <1>5, BooksBegin DEF Begin
<1>6. ASSUME NEW c \in Clients, End(c)
      PROVE  Books(st', kern', span')
  BY <1>6, BooksEnd DEF End
<1>7. ASSUME NEW c \in Clients, CommandFails(c)
      PROVE  Books(st', kern', span')
  <2>1. PICK fail \in Failures : UpdateFails(fail) /\ kern' = kern
    BY <1>7 DEF CommandFails
  <2>2. QED
    BY <2>1, BooksLost DEF UpdateFails
<1>8. ASSUME NEW c \in Clients,
             \/ Connect(c) \/ ClientSend(c) \/ ClientGone(c) \/ Query(c) \/ Quit(c)
             \/ OtherByte(c) \/ CommandPanics(c) \/ EndOfStream(c)
      PROVE  UNCHANGED <<st, kern, span>>
  BY <1>8 DEF Connect, ClientSend, ClientGone, Query, Quit, OtherByte, CommandPanics, EndOfStream
<1>9. CASE UNCHANGED vars
  BY <1>1, <1>9 DEF vars
<1>10. QED
  BY <1>1, <1>2, <1>4, <1>5, <1>6, <1>7, <1>8, <1>9 DEF Next, Handle

\* A packet that ends its owner's range is exact; other packets do not count,
\* and sent packets do not change.
LEMMA NextExact ==
  ASSUME IInv, [Next]_vars
  PROVE  ExclusiveRangeExact'
<1> DEFINE Exact(r) ==
             r.kind = "measured" =>
               /\ "net" \notin r.lost => r.packet.sum["net"] = r.work
               /\ "io"  \notin r.lost => r.packet.sum["io"]  = r.io
               /\ "cpu" \notin r.lost => r.packet.sum["cpu"] = r.cpu
               /\ r.packet.now["event"] = r.event /\ r.packet.max["event"] = r.event
<1>1. \A c \in Clients : Exact(reply[c])
  BY DEF IInv, ExclusiveRangeExact
<1>2. SUFFICES \A c \in Clients : Exact(reply'[c])
  BY DEF ExclusiveRangeExact
<1>3. CASE UNCHANGED reply
  BY <1>1, <1>3
<1>4. ASSUME NEW c \in Clients, NEW packet, Write(c, packet), Exact(packet)
      PROVE  \A d \in Clients : Exact(reply'[d])
  <2> HIDE DEF Exact
  <2>1. reply' = reply \/ reply' = [reply EXCEPT ![c] = packet]
    BY <1>4 DEF Write
  <2>2. reply = [d \in Clients |-> reply[d]]
    BY DEF IInv, Control
  <2>3. \A d \in Clients : reply'[d] = reply[d] \/ reply'[d] = packet
    BY <2>1, <2>2
  <2>4. QED
    BY <1>1, <1>4, <2>3
<1>5. ASSUME NEW c \in Clients, Query(c)
      PROVE  \A d \in Clients : Exact(reply'[d])
  <2> DEFINE packet == [kind |-> "other", packet |-> StatPacket(st)]
  <2>1. Write(c, packet) /\ Exact(packet)
    BY <1>5 DEF Query
  <2> HIDE DEF Exact, packet
  <2>2. QED
    BY <1>4, <2>1
<1>6. ASSUME NEW c \in Clients, End(c)
      PROVE  \A d \in Clients : Exact(reply'[d])
  <2> DEFINE e == EndRange(Update(st, kern, "none"), kern)
             r == Measured(c, e)
  <2>1. Write(c, r)
    BY <1>6 DEF End
  <2>2. CASE span.owner # c
    <3>1. r.kind = "other"
      BY <2>2 DEF Measured
    <3>2. Exact(r)
      BY <3>1
    <3> HIDE DEF Exact, r
    <3>3. QED
      BY <1>4, <2>1, <3>2
  <2>3. CASE span.owner = c
    <3>1. span.owner # "nobody" /\ Books(st, kern, span)
      BY <2>3, ConstantFacts DEF IInv
    <3>2. /\ "net" \notin span.lost => e.sum["net"] = kern.work - span.begin.work
          /\ "cpu" \notin span.lost => e.sum["cpu"] = kern.cpu - span.begin.cpu
          /\ "io" \notin span.lost => e.sum["io"] = DiskTotal(kern) - DiskTotal(span.begin)
          /\ e.now["event"] = EventTotal(kern) - EventTotal(span.begin)
          /\ e.max["event"] = EventTotal(kern) - EventTotal(span.begin)
      BY <3>1, BooksEnd
    <3>3. /\ DiskTotal(kern) = kern.disks[NDisks]
          /\ DiskTotal(span.begin) = span.begin.disks[NDisks]
      BY <3>1, SpanFacts, HostFacts DEF HostInv
    <3> HIDE DEF e
    <3>4. r = [kind |-> "measured", packet |-> StatPacket(e), lost |-> span.lost,
               work |-> kern.work - span.begin.work, cpu |-> kern.cpu - span.begin.cpu,
               io |-> kern.disks[NDisks] - span.begin.disks[NDisks],
               event |-> EventTotal(kern) - EventTotal(span.begin)]
      BY <2>3 DEF Measured
    <3>5. StatPacket(e).now = e.now /\ StatPacket(e).max = e.max /\ StatPacket(e).sum = e.sum
      BY DEF StatPacket
    <3> HIDE DEF r
    <3>6. Exact(r)
      BY <3>2, <3>3, <3>4, <3>5
    <3> HIDE DEF Exact
    <3>7. QED
      BY <1>4, <2>1, <3>6
  <2>4. QED
    BY <2>2, <2>3
<1>7. ASSUME NEW c \in Clients,
             \/ Connect(c) \/ ClientSend(c) \/ ClientGone(c) \/ Begin(c) \/ Quit(c)
             \/ OtherByte(c) \/ CommandFails(c) \/ CommandPanics(c) \/ EndOfStream(c)
      PROVE  UNCHANGED reply
  BY <1>7 DEF Connect, ClientSend, ClientGone, Begin, Quit, OtherByte, CommandFails,
              CommandPanics, EndOfStream
<1>8. CASE HostWork \/ CpuStepsBack \/ Boot \/ Tick \/ UNCHANGED vars
  BY <1>3, <1>8 DEF HostWork, CpuStepsBack, Boot, Tick, vars
<1> HIDE DEF Exact
<1>9. QED
  BY <1>3, <1>5, <1>6, <1>7, <1>8 DEF Next, Handle

\* What the invariant says of the properties.
LEMMA IInvImplies == IInv => TypeOK /\ AggregatesConsistent /\ ExclusiveRangeExact
<1> SUFFICES ASSUME IInv PROVE TypeOK /\ AggregatesConsistent /\ ExclusiveRangeExact
  OBVIOUS
<1>1. Control /\ Readable(st, kern) /\ Consistent(st) /\ span \in Spans /\ HostInv(kern)
  BY DEF IInv, Books
<1>2. kern \in Reading
  BY <1>1, HostFacts DEF HostInv
<1>3. \A c \in Clients : sent[c] \in 0..MaxBytes[c]
  BY <1>1, ConstantFacts DEF Control
<1>4. /\ st.in_range \in BOOLEAN
      /\ \A n \in Names : /\ st.now[n] \in I64 /\ st.min[n] \in I64 /\ st.max[n] \in I64
                          /\ st.sum[n] \in I64 /\ st.cnt[n] \in Nat
  BY <1>1 DEF Readable, Statistics
<1>5. span.owner \in Clients \cup {"nobody"} /\ span.lost \subseteq Names
  BY <1>1 DEF Spans
<1>6. TypeOK
  BY <1>1, <1>2, <1>3, <1>4, <1>5 DEF TypeOK, Control, I64
<1>7. QED
  BY <1>1, <1>6 DEF IInv, Consistent, AggregatesConsistent

\* The invariant holds in every reachable state.
LEMMA Invariance == Spec => []IInv
<1>1. Init => IInv
  BY InitIInv
<1>2. IInv /\ [Next]_vars => IInv'
  BY NextControl, NextBooks, NextExact DEF IInv
<1>3. QED
  BY <1>1, <1>2, PTL DEF Spec

\* Every statistic statmon publishes or keeps as a minimum, maximum or sum is an
\* i64, for any number of clients, disks and CPUs, as long as the host's counters
\* stay below 2^63: the differences of two u64 totals wrap around and back, and a
\* sum that leaves i64 comes back into it (stats.rs:71-77).
THEOREM TypeCorrect == Spec => []TypeOK
<1>1. IInv => TypeOK
  BY IInvImplies
<1>2. QED
  BY Invariance, <1>1, PTL

\* Minimum, maximum, sum and count of every statistic describe one set of samples
\* (Stat::update_aggregate, Stat::reset), whatever updates fail in between, for any
\* number of samples: the sum lies between the bounds that minimum, maximum and
\* count give it wherever these bounds are i64s; beyond them it may have wrapped.
THEOREM ConsistentAggregates == Spec => []AggregatesConsistent
<1>1. IInv => AggregatesConsistent
  BY IInvImplies
<1>2. QED
  BY Invariance, <1>1, PTL

\* A range that nobody else moves is measured exactly, for any number of clients,
\* samples, failed updates, CPUs and disks.
THEOREM RangeExact == Spec => []ExclusiveRangeExact
<1>1. IInv => ExclusiveRangeExact
  BY IInvImplies
<1>2. QED
  BY Invariance, <1>1, PTL

\* Between ']' and the next '[' no step touches the aggregates.
THEOREM FrozenRange == Spec => RangeFrozen
<1>1. ASSUME IInv, [Next]_vars, ~st.in_range, ~st'.in_range
      PROVE  Aggregates(st') = Aggregates(st)
  <2>1. Readable(st, kern)
    BY <1>1 DEF IInv, Books
  <2>2. CASE UNCHANGED st
    BY <2>2
  <2>3. ASSUME NEW fail \in FailSet
        PROVE  /\ Readable(Update(st, kern, fail), kern)
               /\ Aggregates(Update(st, kern, fail)) = Aggregates(st)
    <3>1. ~ (fail = "none" /\ st.in_range)
      BY <1>1
    <3>2. QED
      BY <2>1, <3>1, UpdateFacts
  <2>4. "none" \in FailSet /\ Failures \subseteq FailSet
    BY DEF FailSet
  <2>5. CASE Boot \/ Tick
    BY <2>2, <2>3, <2>4, <2>5 DEF Boot, Tick
  <2>6. ASSUME NEW c \in Clients, Begin(c)
        PROVE  FALSE
    <3>1. Readable(Update(st, kern, "none"), kern)
      BY <2>3, <2>4
    <3>2. BeginRange(Update(st, kern, "none"), kern).in_range
      BY <3>1, RangeFacts
    <3>3. QED
      BY <1>1, <2>6, <3>2 DEF Begin
  <2>7. ASSUME NEW c \in Clients, End(c)
        PROVE  Aggregates(st') = Aggregates(st)
    <3> DEFINE u == Update(st, kern, "none")
    <3>1. Readable(u, kern) /\ Aggregates(u) = Aggregates(st)
      BY <2>3, <2>4
    <3>2. st' = EndRange(u, kern)
      BY <2>7 DEF End
    <3> HIDE DEF u
    <3>3. QED
      BY <3>1, <3>2, RangeFacts DEF Aggregates
  <2>8. ASSUME NEW c \in Clients, CommandFails(c)
        PROVE  Aggregates(st') = Aggregates(st)
    BY <2>3, <2>4, <2>8 DEF CommandFails, UpdateFails
  <2>9. ASSUME NEW c \in Clients,
               \/ Connect(c) \/ ClientSend(c) \/ ClientGone(c) \/ Query(c) \/ Quit(c)
               \/ OtherByte(c) \/ CommandPanics(c) \/ EndOfStream(c)
        PROVE  UNCHANGED st
    BY <2>9 DEF Connect, ClientSend, ClientGone, Query, Quit, OtherByte, CommandPanics, EndOfStream
  <2>10. CASE HostWork \/ CpuStepsBack \/ UNCHANGED vars
    BY <2>2, <2>10 DEF HostWork, CpuStepsBack, vars
  <2>11. QED
    BY <1>1, <2>2, <2>5, <2>6, <2>7, <2>8, <2>9, <2>10 DEF Next, Handle
<1>2. IInv /\ [Next]_vars => [~st.in_range /\ ~st'.in_range => Aggregates(st') = Aggregates(st)]_vars
  BY <1>1
<1>3. QED
  BY Invariance, <1>2, PTL DEF Spec, RangeFrozen
==============================================================================
