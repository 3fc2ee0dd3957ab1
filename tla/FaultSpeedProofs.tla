-------------------------- MODULE FaultSpeedProofs --------------------------
(***************************************************************************)
(* FaultSpeed proved for any sizes, suites, threads and workers.           *)
(*                                                                         *)
(* IInv says where everything is between two steps.  Control: the threads  *)
(* of a run are all before the first barrier, between the two, or after    *)
(* the second.  Registration: the handler knows exactly the memories       *)
(* between add and remove, and is then the handler of the benchmark that   *)
(* runs.  Hands: each fault is in one hand, the kernel's queue or one      *)
(* execution of handleOne, and its thread is stopped at a missing page     *)
(* within bounds.  Counting: the faults taken are those counted and those  *)
(* in a hand that has not counted yet.  Memories: what the operations of   *)
(* an invocation, up to the one at hand, have made of its memory.  Signal: *)
(* the signal handler is there once BM_UFFD_SIGBUS_Eager has been added.   *)
(***************************************************************************)
EXTENDS FaultSpeed, FiniteSetTheorems, WellFoundedInduction, TLAPS

Benchmarks == {Registered[k] : k \in DOMAIN Registered}
Half == WMEM_SIZE \div 2
Handlers == Workers \cup Thread
Stages == {"find", "check", "fill"}
Entering == {"setup", "configured", "ready"}
Running == {"loop", "stopped", "finished"}
Leaving == {"report", "done"}

Contents == {"missing", "zero", "snap", "work"} \X Nat
Memory == [size : Nat, page : [Pages -> Contents], rw : SUBSET Pages]
FaultEvent == [owner : Thread, page : Pages]
Handled == [stage : Stages, owner : Thread, page : Pages]

\* The threads of a run are all before, between or after the barriers.
Together(P) == \A t \in Thread : pc[t] \in P

Control ==
    /\ suite \in Suites /\ at \in 1 .. Len(suite)
    /\ pc \in [Thread -> Entering \cup Running \cup Leaving]
    /\ iter \in [Thread -> Nat] /\ \A t \in Thread : iter[t] \in 1 .. Iterations + 1
    /\ \A t \in Thread : pc[t] \in Entering \cup {"loop", "stopped"} => iter[t] =< Iterations
    /\ step \in [Thread -> Nat] /\ \A t \in Thread : step[t] \in 1 .. Len(Body(bench))
    /\ cursor \in [Thread -> 0 .. WORK_SIZE]
    /\ Together(Entering) \/ Together(Running) \/ Together(Leaving)
    /\ crashed \in BOOLEAN /\ sigbus \in BOOLEAN
    /\ \A t \in Thread : /\ pc[t] = "configured" => t = 0 /\ bench \in Uffd
                         /\ pc[t] = "stopped" => bench \in Uffd

\* Who is registered with the handler: the threads between add and remove, and
\* then it is the handler of their benchmark.
Joined == {t \in Thread : bench \in Uffd /\ pc[t] \notin {"setup", "configured", "done"}}

Registration ==
    /\ hps \in [kind : {NONE, "workers", "sigbus"}, mappings : SUBSET Thread,
                snapshot : {NONE, SNAP_SIZE}, faults : Nat, events : SUBSET FaultEvent]
    /\ hps.mappings = Joined
    /\ (Joined # {} \/ (bench \in Uffd /\ pc[0] # "setup")) => hps.kind = Kind(bench)

\* Page p of thread t is missing and within its bounds, and the thread waits.
Awaited(t, p) == pc[t] = "stopped" /\ p < mem[t].size /\ mem[t].page[p] = Missing

Busy(h) == handling[h] \in Handled

\* Each fault is in one hand.
Hands ==
    /\ handling \in [Handlers -> NotHandling \cup Handled]
    /\ \A e \in hps.events : Awaited(e.owner, e.page)
    /\ \A h \in Handlers : Busy(h) => /\ Awaited(handling[h].owner, handling[h].page)
                                      /\ h \in Thread => handling[h].owner = h
    /\ \A e, d \in hps.events : e.owner = d.owner => e = d
    /\ \A e \in hps.events, h \in Handlers : Busy(h) => handling[h].owner # e.owner
    /\ \A g, h \in Handlers : Busy(g) /\ Busy(h) /\ handling[g].owner = handling[h].owner => g = h

\* The threads whose fault was not counted yet.
Uncounted == {t \in Thread : \/ \E e \in hps.events : e.owner = t
                             \/ \E h \in Handlers : /\ Busy(h) /\ handling[h].owner = t
                                                    /\ handling[h].stage # "fill"}

Counting ==
    /\ taken \in Nat
    /\ pc[0] = "setup" => taken = 0
    /\ (bench \in Uffd /\ ~crashed /\ pc[0] # "setup")
          => taken = hps.faults + Cardinality(Uncounted)
    /\ reported # NONE => Together(Leaving) /\ (bench \in Uffd => reported = taken)

\* What an invocation has made of the memory m when it is at step s of its body,
\* at page c, in iteration k.
SizeAt(b, s) ==
    IF s =< Len(Restore(b)) THEN (IF b \in Lazy THEN 0 ELSE SNAP_SIZE)
    ELSE IF s =< Len(Restore(b)) + 4 THEN SNAP_SIZE ELSE WORK_SIZE

Sound(b, s, m) ==
    /\ m \in Memory
    /\ m.size \in {0, SNAP_SIZE, WORK_SIZE, Half} /\ m.rw \subseteq 0 .. Half - 1
    /\ s > 1 => m.size = SizeAt(b, s)
    /\ b \notin Uffd => 0 .. m.size - 1 \subseteq m.rw
    /\ b = "NoProtection" => 0 .. Half - 1 \subseteq m.rw

Own(b, s, k, c, m) ==
    b # "NoProtection" =>
       \A p \in Pages : m.page[p][1] = "work" =>
          /\ p < m.size
          /\ (s > 2 \/ (s = 2 /\ (b \in Lazy \/ p < c))) => m.page[p][2] = k

Kept(b, s, c, m) ==
    b \notin Lazy =>
       \A p \in 0 .. SNAP_SIZE - 1 :
          ((s = 2 /\ p < c) \/ s = 3 \/ (s >= 4 /\ p < WORK_FILL_START))
             => m.page[p] = Snap(p)

Tidy(b, s, k, c, m) == Sound(b, s, m) /\ Own(b, s, k, c, m) /\ Kept(b, s, c, m)

Memories ==
    /\ mem = [t \in Thread |-> mem[t]]
    /\ \A t \in Thread :
         /\ Tidy(bench, step[t], iter[t], cursor[t], mem[t])
         /\ (bench \in Uffd /\ pc[t] \notin {"setup", "configured"})
               => 0 .. Half - 1 \subseteq mem[t].rw

\* The signal handler is there once a thread of BM_UFFD_SIGBUS_Eager was added.
Signal ==
    /\ \A i \in 1 .. at - 1 : suite[i] = "UFFD_SIGBUS_Eager" => sigbus
    /\ \A t \in Thread : (bench = "UFFD_SIGBUS_Eager" /\ pc[t] \notin {"setup", "configured"})
                            => sigbus

IInv == /\ Control /\ Registration /\ Hands /\ Counting /\ Memories /\ Signal
        /\ CrashOnlyUnregistered

------------------------------------------------------------------------------
(* Constants and bodies *)

\* The sizes, in order.
LEMMA SizeFacts ==
  /\ WMEM_SIZE \in Nat /\ SNAP_SIZE \in Nat /\ WORK_SIZE \in Nat /\ WORK_FILL_START \in Nat
  /\ Half \in Nat /\ Half = WMEM_SIZE \div 2 /\ Half < WMEM_SIZE
  /\ 0 < WORK_FILL_START /\ WORK_FILL_START < SNAP_SIZE
  /\ SNAP_SIZE < WORK_SIZE /\ WORK_SIZE =< Half
<1>1. /\ WMEM_SIZE \in Nat /\ SNAP_SIZE \in Nat /\ WORK_SIZE \in Nat /\ WORK_FILL_START \in Nat
      /\ 0 < WORK_FILL_START /\ WORK_FILL_START < SNAP_SIZE
      /\ SNAP_SIZE < WORK_SIZE /\ WORK_SIZE =< WMEM_SIZE \div 2
  BY SizeAssumption
<1>2. Half = WMEM_SIZE \div 2 /\ Half \in Nat
  BY <1>1 DEF Half
<1>3. Half < WMEM_SIZE
  <2>1. WMEM_SIZE # 0
    BY <1>1
  <2>2. QED
    BY <1>1, <2>1 DEF Half
<1>4. QED
  BY <1>1, <1>2, <1>3

\* The threads are numbered from 0, and the workers are other ones.
LEMMA ThreadFacts ==
  /\ Threads \in Nat /\ Iterations \in Nat /\ Iterations >= 1
  /\ 0 \in Thread /\ Thread \subseteq Nat /\ IsFiniteSet(Thread)
  /\ Workers \cap Thread = {}
<1>1. Threads \in Nat \ {0} /\ Iterations \in Nat \ {0}
  BY FaultSpeedAssumption
<1>2. Workers \cap Thread = {}
  BY FaultSpeedAssumption DEF Thread
<1>3. 0 \in Thread /\ Thread \subseteq Nat
  BY <1>1 DEF Thread
<1>4. IsFiniteSet(Thread)
  BY <1>1, FS_Interval DEF Thread
<1>5. QED
  BY <1>1, <1>2, <1>3, <1>4

\* The benchmark that runs is one of the registered.
LEMMA BenchFacts ==
  ASSUME suite \in Suites, at \in 1 .. Len(suite)
  PROVE  /\ bench \in Benchmarks /\ Len(suite) \in Nat /\ at \in Nat
         /\ \A i \in 1 .. Len(suite) : suite[i] \in Benchmarks
<1>1. suite \in Seq(Benchmarks)
  BY FaultSpeedAssumption DEF Benchmarks
<1>2. QED
  BY <1>1 DEF bench

\* The nine benchmarks by name.
LEMMA BenchNames ==
  Benchmarks = {"NoProtection", "FullNewMapping", "ReuseMapping",
                "ReuseAndDontneed_0", "ReuseAndDontneed_1", "UFFD_Eager",
                "UFFD_Lazy", "UFFD_SIGBUS_Eager", "UFFD_SIGBUS_Lazy"}
<1>1. Registered[1] = "NoProtection" /\ Registered[2] = "FullNewMapping"
      /\ Registered[3] = "ReuseMapping" /\ Registered[4] = "ReuseAndDontneed_0"
      /\ Registered[5] = "ReuseAndDontneed_1" /\ Registered[6] = "UFFD_Eager"
      /\ Registered[7] = "UFFD_Lazy" /\ Registered[8] = "UFFD_SIGBUS_Eager"
      /\ Registered[9] = "UFFD_SIGBUS_Lazy"
  BY DEF Registered
<1>2. DOMAIN Registered = 1 .. 9
  BY DEF Registered
<1>3. 1 .. 9 = {1, 2, 3, 4, 5, 6, 7, 8, 9}
  OBVIOUS
<1>4. QED
  BY <1>1, <1>2, <1>3 DEF Benchmarks

\* The bodies, step by step.
LEMMA BodyCopying ==
  ASSUME NEW b, b \notin Lazy
  PROVE  /\ Len(Restore(b)) = 2 /\ Len(Body(b)) = 9
         /\ Body(b)[1] = Resize(SNAP_SIZE) /\ Body(b)[2] = Copy
         /\ Body(b)[3] = SideEffect /\ Body(b)[4] = FillWork /\ Body(b)[5] = SideEffect
         /\ Body(b)[6] = Resize(WORK_SIZE)
         /\ Body(b)[7] = SideEffect /\ Body(b)[8] = FillWork /\ Body(b)[9] = SideEffect
<1>1. Restore(b) = <<Resize(SNAP_SIZE), Copy>>
  BY DEF Restore
<1>2. QED
  BY <1>1 DEF Body

\* The same of the two that fill their pages on demand.
LEMMA BodyLazy ==
  ASSUME NEW b, b \in Lazy
  PROVE  /\ Len(Restore(b)) = 3 /\ Len(Body(b)) = 10
         /\ Body(b)[1] = Resize(0) /\ Body(b)[2] = SideEffect /\ Body(b)[3] = Resize(SNAP_SIZE)
         /\ Body(b)[4] = SideEffect /\ Body(b)[5] = FillWork /\ Body(b)[6] = SideEffect
         /\ Body(b)[7] = Resize(WORK_SIZE)
         /\ Body(b)[8] = SideEffect /\ Body(b)[9] = FillWork /\ Body(b)[10] = SideEffect
<1>1. Restore(b) = <<Resize(0), SideEffect, Resize(SNAP_SIZE)>>
  BY DEF Restore
<1>2. QED
  BY <1>1 DEF Body

------------------------------------------------------------------------------
(* Operations on a WMemory *)

\* A page is a pair of a word and a number.
LEMMA PageFacts ==
  /\ Missing \in Contents /\ Zero \in Contents
  /\ \A p \in Nat : Snap(p) \in Contents /\ Work(p) \in Contents /\ Snap(p) # Missing
                    /\ Snap(p)[1] = "snap" /\ Work(p)[1] = "work" /\ Work(p)[2] = p
                    /\ Work(p) # Missing
  /\ Missing[1] = "missing" /\ Zero[1] = "zero"
  BY DEF Missing, Zero, Snap, Work, Contents

\* Dropping changes the pages from .. to - 1, and nothing else.
LEMMA DropFacts ==
  ASSUME NEW m \in Memory, NEW from \in Nat, NEW to \in Nat
  PROVE  /\ Drop(m, from, to) \in Memory
         /\ Drop(m, from, to).size = m.size /\ Drop(m, from, to).rw = m.rw
         /\ \A p \in Pages : Drop(m, from, to).page[p] =
                               IF from =< p /\ p < to THEN Missing ELSE m.page[p]
<1> DEFINE pg == [p \in Pages |-> IF from =< p /\ p < to THEN Missing ELSE m.page[p]]
<1>1. m.size \in Nat /\ m.page \in [Pages -> Contents] /\ m.rw \in SUBSET Pages
  BY DEF Memory
<1>2. Drop(m, from, to) = [m EXCEPT !.page = pg]
  BY DEF Drop
<1>3. pg \in [Pages -> Contents]
  BY <1>1, PageFacts
<1>4. \A p \in Pages : pg[p] = IF from =< p /\ p < to THEN Missing ELSE m.page[p]
  OBVIOUS
<1> HIDE DEF pg
<1>5. /\ [m EXCEPT !.page = pg] \in Memory /\ [m EXCEPT !.page = pg].page = pg
      /\ [m EXCEPT !.page = pg].size = m.size /\ [m EXCEPT !.page = pg].rw = m.rw
  BY <1>1, <1>3 DEF Memory
<1>6. Drop(m, from, to).page = pg
  BY <1>2, <1>5
<1>7. QED
  BY <1>2, <1>4, <1>5, <1>6

\* Protecting changes which pages are accessible, and nothing else.
LEMMA ProtectFacts ==
  ASSUME NEW m \in Memory, NEW from \in Nat, NEW to \in Nat, from .. to - 1 \subseteq Pages
  PROVE  /\ Unprotect(m, from, to) \in Memory /\ Protect(m, from, to) \in Memory
         /\ Unprotect(m, from, to).size = m.size /\ Unprotect(m, from, to).page = m.page
         /\ Unprotect(m, from, to).rw = m.rw \cup (from .. to - 1)
         /\ Protect(m, from, to).size = m.size /\ Protect(m, from, to).page = m.page
         /\ Protect(m, from, to).rw = m.rw \ (from .. to - 1)
<1> DEFINE up == m.rw \cup (from .. to - 1)
           pr == m.rw \ (from .. to - 1)
<1>1. m.size \in Nat /\ m.page \in [Pages -> Contents] /\ m.rw \in SUBSET Pages
  BY DEF Memory
<1>3. up \in SUBSET Pages /\ pr \in SUBSET Pages
  BY <1>1
<1>4. Unprotect(m, from, to) = [m EXCEPT !.rw = up] /\ Protect(m, from, to) = [m EXCEPT !.rw = pr]
  BY DEF Unprotect, Protect
<1> HIDE DEF up, pr
<1>5. /\ [m EXCEPT !.rw = up] \in Memory /\ [m EXCEPT !.rw = up].page = m.page
      /\ [m EXCEPT !.rw = up].size = m.size /\ [m EXCEPT !.rw = up].rw = up
  BY <1>1, <1>3 DEF Memory
<1>6. /\ [m EXCEPT !.rw = pr] \in Memory /\ [m EXCEPT !.rw = pr].page = m.page
      /\ [m EXCEPT !.rw = pr].size = m.size /\ [m EXCEPT !.rw = pr].rw = pr
  BY <1>1, <1>3 DEF Memory
<1>7. QED
  BY <1>4, <1>5, <1>6 DEF up, pr

\* A new size, of a memory m that was dropped and protected to become d.
LEMMA NewSize ==
  ASSUME NEW d \in Memory, NEW n \in Nat
  PROVE  /\ [d EXCEPT !.size = n] \in Memory /\ [d EXCEPT !.size = n].size = n
         /\ [d EXCEPT !.size = n].page = d.page /\ [d EXCEPT !.size = n].rw = d.rw
  BY DEF Memory

\* What every strategy of resizing does: pages that stay keep their contents, the
\* pages beyond a smaller size are dropped (BM_NoProtection keeps them), and the
\* pages below the new size are accessible if those below the old one were.
Resized(b, m, n, r) ==
    /\ r \in Memory /\ r.size = n
    /\ \A p \in Pages : r.page[p] = IF b # "NoProtection" /\ n =< p /\ p < m.size
                                    THEN Missing ELSE m.page[p]
    /\ b \in Uffd => r.rw = m.rw
    /\ m.rw \subseteq 0 .. Half - 1 => r.rw \subseteq 0 .. Half - 1
    /\ (b \notin Uffd /\ b # "NoProtection" /\ 0 .. m.size - 1 \subseteq m.rw)
          => 0 .. n - 1 \subseteq r.rw
    /\ b = "NoProtection" => r.rw = m.rw

\* Each of the five strategies resizes so.
LEMMA ResizeFacts ==
  ASSUME NEW b \in Benchmarks, NEW m \in Memory, NEW n \in Nat, n =< Half, m.size =< Half
  PROVE  Resized(b, m, n, resize(b, m, n))
<1>1. m.size \in Nat /\ m.rw \subseteq Pages /\ m.page \in [Pages -> Contents]
  BY DEF Memory
<1>2. n =< WMEM_SIZE /\ m.size =< WMEM_SIZE /\ Half \in Nat
  BY <1>1, SizeFacts
<1> DEFINE dr == Drop(m, n, m.size)
           up == Unprotect(m, m.size, n)
<1>3. /\ dr \in Memory /\ dr.size = m.size /\ dr.rw = m.rw
      /\ \A p \in Pages : dr.page[p] = IF n =< p /\ p < m.size THEN Missing ELSE m.page[p]
  BY <1>1, DropFacts
<1>4. /\ up \in Memory /\ up.page = m.page /\ up.rw = m.rw \cup (m.size .. n - 1)
  <2>1. PICK z \in Nat : z = m.size
    BY <1>1
  <2>2. /\ Unprotect(m, z, n) \in Memory /\ Unprotect(m, z, n).page = m.page
        /\ Unprotect(m, z, n).rw = m.rw \cup (z .. n - 1)
    <3>1. z .. n - 1 \subseteq Pages
      BY <1>2, SizeFacts DEF Pages
    <3>2. QED
      BY <3>1, ProtectFacts
  <2>3. QED
    BY <2>1, <2>2
<1> DEFINE pr == Protect(dr, n, m.size)
<1>5. /\ pr \in Memory /\ pr.page = dr.page /\ pr.rw = m.rw \ (n .. m.size - 1)
  <2>1. PICK z \in Nat : z = m.size
    BY <1>1
  <2> HIDE DEF dr
  <2>2. /\ Protect(dr, n, z) \in Memory /\ Protect(dr, n, z).page = dr.page
        /\ Protect(dr, n, z).rw = dr.rw \ (n .. z - 1)
    <3>1. n .. z - 1 \subseteq Pages
      BY <1>2, <2>1, SizeFacts DEF Pages
    <3>2. dr \in Memory
      BY <1>3
    <3>3. QED
      BY <3>1, <3>2, ProtectFacts
  <2>3. QED
    BY <1>3, <2>1, <2>2
<1> HIDE DEF dr, up, pr
<1>6. Pages \subseteq Nat
  BY SizeFacts DEF Pages
\* How the memory d looks before the size is set.
<1>7. ASSUME NEW d \in Memory,
             \A p \in Pages : d.page[p] = IF b # "NoProtection" /\ n =< p /\ p < m.size
                                          THEN Missing ELSE m.page[p],
             b \in Uffd \/ b = "NoProtection" => d.rw = m.rw,
             \/ n < m.size /\ d.rw = m.rw
             \/ n < m.size /\ d.rw = m.rw \ (n .. m.size - 1)
             \/ n >= m.size /\ d.rw = m.rw \cup (m.size .. n - 1)
             \/ (b \in Uffd \/ b = "NoProtection") /\ d.rw = m.rw,
             resize(b, m, n) = [d EXCEPT !.size = n]
      PROVE  Resized(b, m, n, resize(b, m, n))
  <2> DEFINE r == resize(b, m, n)
  <2>1. r \in Memory /\ r.size = n /\ r.page = d.page /\ r.rw = d.rw
    BY <1>7, NewSize
  <2>2. m.rw \subseteq 0 .. Half - 1 => d.rw \subseteq 0 .. Half - 1
    BY <1>1, <1>2, <1>7
  <2>3. ASSUME b \notin Uffd, b # "NoProtection", 0 .. m.size - 1 \subseteq m.rw,
               NEW p \in 0 .. n - 1
        PROVE  p \in d.rw
    <3>1. p \in Nat /\ p < n
      OBVIOUS
    <3>2. p < m.size => p \in m.rw
      BY <1>1, <2>3, <3>1
    <3>3. n >= m.size => p \in m.rw \/ p \in m.size .. n - 1
      BY <1>1, <3>1, <3>2
    <3>4. QED
      BY <1>1, <1>7, <2>3, <3>1, <3>2, <3>3
  <2> HIDE DEF r
  <2>4. Resized(b, m, n, r)
    BY <1>7, <2>1, <2>2, <2>3 DEF Resized
  <2>5. QED
    BY <2>4 DEF r
<1>8. CASE b = "NoProtection"
  <2>1. resize(b, m, n) = [m EXCEPT !.size = n] /\ b \notin Uffd
    BY <1>8 DEF resize, resizeNoProtect, Uffd, Lazy, Sigbus
  <2>2. QED
    BY <1>7, <1>8, <2>1
<1>9. CASE b \in {"FullNewMapping", "ReuseMapping"}
  <2>0. b # "NoProtection" /\ b \notin Uffd
    BY <1>9 DEF Uffd, Lazy, Sigbus
  <2>1. resize(b, m, n) = [(IF n < m.size THEN pr ELSE up) EXCEPT !.size = n]
    BY <1>9, <2>0 DEF resize, resizeWavm, pr, up, dr
  <2>2. CASE n < m.size
    BY <1>3, <1>5, <1>7, <2>0, <2>1, <2>2
  <2>3. CASE ~ (n < m.size)
    BY <1>1, <1>4, <1>6, <1>7, <2>0, <2>1, <2>3
  <2>4. QED
    BY <2>2, <2>3
<1>10. CASE b \in {"ReuseAndDontneed_0", "ReuseAndDontneed_1"}
  <2>0. b # "NoProtection" /\ b \notin Uffd /\ b \notin {"FullNewMapping", "ReuseMapping"}
    BY <1>10 DEF Uffd, Lazy, Sigbus
  <2>1. resize(b, m, n) = [(IF n < m.size
                            THEN IF b = "ReuseAndDontneed_1" THEN pr ELSE dr
                            ELSE up) EXCEPT !.size = n]
    BY <1>10, <2>0 DEF resize, resizeWavmDontneed, pr, up, dr
  <2>2. CASE n < m.size /\ b = "ReuseAndDontneed_1"
    BY <1>3, <1>5, <1>7, <2>0, <2>1, <2>2
  <2>3. CASE n < m.size /\ b # "ReuseAndDontneed_1"
    BY <1>3, <1>7, <2>0, <2>1, <2>3
  <2>4. CASE ~ (n < m.size)
    BY <1>1, <1>4, <1>6, <1>7, <2>0, <2>1, <2>4
  <2>5. QED
    BY <2>2, <2>3, <2>4
<1>11. CASE b \in Uffd
  <2>0. /\ b # "NoProtection" /\ b \notin {"FullNewMapping", "ReuseMapping"}
        /\ b # "ReuseAndDontneed_0" /\ b # "ReuseAndDontneed_1"
    BY <1>11 DEF Uffd, Lazy, Sigbus
  <2>1. resize(b, m, n) = [(IF n < m.size THEN dr ELSE m) EXCEPT !.size = n]
    BY <2>0 DEF resize, resizeWavmUffd, dr
  <2>2. CASE n < m.size
    BY <1>3, <1>7, <1>11, <2>0, <2>1, <2>2
  <2>3. CASE ~ (n < m.size)
    BY <1>1, <1>6, <1>7, <1>11, <2>0, <2>1, <2>3
  <2>4. QED
    BY <2>2, <2>3
<1>12. QED
  BY <1>8, <1>9, <1>10, <1>11, BenchNames DEF Uffd, Lazy, Sigbus

\* The pages an invocation writes.
LEMMA FillSpanFacts ==
  ASSUME NEW m \in Memory, WORK_FILL_START < m.size, m.size =< Half
  PROVE  fillSpan(m, WORK_FILL_START, WMEM_SIZE) = WORK_FILL_START .. m.size - 1
<1>1. m.size \in Nat
  BY DEF Memory
<1>2. ASSUME NEW x \in Nat, NEW y \in Nat, x =< y
      PROVE  Min({x, y}) = x /\ Min({y, x}) = x
  BY <1>2 DEF Min
<1>3. Min({WORK_FILL_START, m.size}) = WORK_FILL_START
  BY <1>1, <1>2, SizeFacts
<1>4. Min({WMEM_SIZE - WORK_FILL_START, m.size - WORK_FILL_START}) = m.size - WORK_FILL_START
  <2>1. /\ WMEM_SIZE - WORK_FILL_START \in Nat /\ m.size - WORK_FILL_START \in Nat
        /\ m.size - WORK_FILL_START =< WMEM_SIZE - WORK_FILL_START
    BY <1>1, SizeFacts
  <2>2. QED
    BY <1>2, <2>1
<1>5. WORK_FILL_START + (m.size - WORK_FILL_START) - 1 = m.size - 1
  BY <1>1, SizeFacts
<1>6. QED
  BY <1>3, <1>4, <1>5 DEF fillSpan

------------------------------------------------------------------------------
(* What each operation makes of a memory *)

\* The sizes, by number.
LEMMA SizeSteps ==
  ASSUME NEW b, NEW s \in Nat
  PROVE  /\ b \notin Lazy => SizeAt(b, s) = IF s =< 6 THEN SNAP_SIZE ELSE WORK_SIZE
         /\ b \in Lazy => SizeAt(b, s) = IF s =< 3 THEN 0
                                         ELSE IF s =< 7 THEN SNAP_SIZE ELSE WORK_SIZE
<1>1. CASE b \notin Lazy
  <2>1. Len(Restore(b)) = 2
    BY <1>1, BodyCopying
  <2>2. QED
    BY <1>1, <2>1 DEF SizeAt
<1>2. CASE b \in Lazy
  <2>1. Len(Restore(b)) = 3
    BY <1>2, BodyLazy
  <2>2. QED
    BY <1>2, <2>1 DEF SizeAt
<1>3. QED
  BY <1>1, <1>2

\* Which steps are resizes, to which size, and which sizes they find.
LEMMA ResizeSteps ==
  ASSUME NEW b, NEW s \in 1 .. Len(Body(b)), Body(b)[s].op = "resize"
  PROVE  /\ s + 1 \in 1 .. Len(Body(b)) /\ s # Len(Body(b)) /\ s \in Nat
         /\ Body(b)[s].size = SizeAt(b, s + 1)
         /\ b \notin Lazy => s = 1 \/ s = 6
         /\ b \in Lazy => s = 1 \/ s = 3 \/ s = 7
<1>1. CASE b \notin Lazy
  <2>1. s \in {1, 2, 3, 4, 5, 6, 7, 8, 9}
    BY <1>1, BodyCopying, SMTT(60)
  <2>2. s = 1 \/ s = 6
    BY <1>1, <2>1, BodyCopying, SMTT(60) DEF Copy, SideEffect, FillWork, Resize
  <2>3. Len(Body(b)) = 9 /\ s + 1 \in Nat /\ s \in Nat
    BY <1>1, <2>2, BodyCopying
  <2>4. /\ s = 1 => Body(b)[s].size = SNAP_SIZE
        /\ s = 6 => Body(b)[s].size = WORK_SIZE
    BY <1>1, BodyCopying, SMTT(60) DEF Resize
  <2>5. SizeAt(b, s + 1) = IF s + 1 =< 6 THEN SNAP_SIZE ELSE WORK_SIZE
    BY <1>1, <2>3, SizeSteps
  <2>6. QED
    BY <1>1, <2>2, <2>3, <2>4, <2>5
<1>2. CASE b \in Lazy
  <2>1. s \in {1, 2, 3, 4, 5, 6, 7, 8, 9, 10}
    BY <1>2, BodyLazy, SMTT(60)
  <2>2. s = 1 \/ s = 3 \/ s = 7
    BY <1>2, <2>1, BodyLazy, SMTT(60) DEF Copy, SideEffect, FillWork, Resize
  <2>3. Len(Body(b)) = 10 /\ s + 1 \in Nat /\ s \in Nat
    BY <1>2, <2>2, BodyLazy
  <2>4. /\ s = 1 => Body(b)[s].size = 0
        /\ s = 3 => Body(b)[s].size = SNAP_SIZE
        /\ s = 7 => Body(b)[s].size = WORK_SIZE
    BY <1>2, BodyLazy, SMTT(60) DEF Resize
  <2>5. SizeAt(b, s + 1) = IF s + 1 =< 3 THEN 0
                           ELSE IF s + 1 =< 7 THEN SNAP_SIZE ELSE WORK_SIZE
    BY <1>2, <2>3, SizeSteps
  <2>6. QED
    BY <1>2, <2>2, <2>3, <2>4, <2>5
<1>3. QED
  BY <1>1, <1>2

\* The other steps: copying is the second one, and reading and writing are not;
\* none of them changes the size the next one finds.
LEMMA AccessSteps ==
  ASSUME NEW b, NEW s \in 1 .. Len(Body(b)), Body(b)[s].op # "resize"
  PROVE  /\ s \in Nat /\ s > 1 /\ Len(Body(b)) \in Nat
         /\ Body(b)[s].op \in {"copy", "read", "fill"}
         /\ s < Len(Body(b)) => SizeAt(b, s + 1) = SizeAt(b, s)
         /\ Body(b)[s].op = "copy" <=> (s = 2 /\ b \notin Lazy)
         /\ Body(b)[s].op = "fill" => s >= 4 /\ SizeAt(b, s) \in {SNAP_SIZE, WORK_SIZE}
         /\ SizeAt(b, s) \in {0, SNAP_SIZE, WORK_SIZE}
<1>1. CASE b \notin Lazy
  <2>1. s \in {1, 2, 3, 4, 5, 6, 7, 8, 9}
    BY <1>1, BodyCopying, SMTT(60)
  <2>2. s \in {2, 3, 4, 5, 7, 8, 9}
    BY <1>1, <2>1, BodyCopying, SMTT(60) DEF Resize
  <2>3. /\ s = 2 => Body(b)[s].op = "copy"
        /\ s \in {3, 5, 7, 9} => Body(b)[s].op = "read"
        /\ s \in {4, 8} => Body(b)[s].op = "fill"
    BY <1>1, BodyCopying, SMTT(60) DEF Copy, SideEffect, FillWork
  <2>4. Len(Body(b)) = 9 /\ s + 1 \in Nat /\ s \in Nat
    BY <1>1, <2>2, BodyCopying
  <2>5. /\ SizeAt(b, s + 1) = IF s + 1 =< 6 THEN SNAP_SIZE ELSE WORK_SIZE
        /\ SizeAt(b, s) = IF s =< 6 THEN SNAP_SIZE ELSE WORK_SIZE
    BY <1>1, <2>4, SizeSteps
  <2>6. QED
    BY <1>1, <2>2, <2>3, <2>4, <2>5
<1>2. CASE b \in Lazy
  <2>1. s \in {1, 2, 3, 4, 5, 6, 7, 8, 9, 10}
    BY <1>2, BodyLazy, SMTT(60)
  <2>2. s \in {2, 4, 5, 6, 8, 9, 10}
    BY <1>2, <2>1, BodyLazy, SMTT(60) DEF Resize
  <2>3. /\ s \in {2, 4, 6, 8, 10} => Body(b)[s].op = "read"
        /\ s \in {5, 9} => Body(b)[s].op = "fill"
    BY <1>2, BodyLazy, SMTT(60) DEF SideEffect, FillWork
  <2>4. Len(Body(b)) = 10 /\ s + 1 \in Nat /\ s \in Nat
    BY <1>2, <2>2, BodyLazy
  <2>5. /\ SizeAt(b, s + 1) = IF s + 1 =< 3 THEN 0
                              ELSE IF s + 1 =< 7 THEN SNAP_SIZE ELSE WORK_SIZE
        /\ SizeAt(b, s) = IF s =< 3 THEN 0 ELSE IF s =< 7 THEN SNAP_SIZE ELSE WORK_SIZE
    BY <1>2, <2>4, SizeSteps
  <2>6. QED
    BY <1>2, <2>2, <2>3, <2>4, <2>5
<1>3. QED
  BY <1>1, <1>2

\* A resize leaves the memory as the next step expects it.
LEMMA TidyResize ==
  ASSUME NEW b \in Benchmarks, NEW s \in 1 .. Len(Body(b)), NEW k \in Nat, NEW c \in Nat,
         NEW m, Tidy(b, s, k, c, m), Body(b)[s].op = "resize"
  PROVE  LET r == resize(b, m, Body(b)[s].size)
         IN  /\ Tidy(b, s + 1, k, 0, r)
             /\ b \in Uffd => r.rw = m.rw
<1> DEFINE n == Body(b)[s].size
           r == resize(b, m, n)
<1>1. /\ s \in Nat /\ n = SizeAt(b, s + 1) /\ (b \notin Lazy => s = 1 \/ s = 6)
      /\ (b \in Lazy => s = 1 \/ s = 3 \/ s = 7)
  BY ResizeSteps
<1>2. m \in Memory /\ m.size \in {0, SNAP_SIZE, WORK_SIZE, Half} /\ m.rw \subseteq 0 .. Half - 1
  BY DEF Tidy, Sound
<1>3. n \in {0, SNAP_SIZE, WORK_SIZE}
  BY <1>1 DEF SizeAt
<1>4. n \in Nat /\ n =< Half /\ m.size \in Nat /\ m.size =< Half
  BY <1>2, <1>3, SizeFacts, SMTT(60)
<1>5. Resized(b, m, n, r)
  BY <1>2, <1>4, ResizeFacts
<1> HIDE DEF r, n
<1>6. \A p \in Pages : p \in Nat
  BY SizeFacts DEF Pages
<1>7. Sound(b, s + 1, r)
  <2>1. b = "NoProtection" => 0 .. n - 1 \subseteq 0 .. Half - 1 /\ b \notin Uffd
    BY <1>4, SizeFacts DEF Uffd, Lazy, Sigbus
  <2>2. b \notin Uffd => 0 .. n - 1 \subseteq r.rw
    BY <1>5, <2>1 DEF Tidy, Sound, Resized
  <2>3. QED
    BY <1>1, <1>2, <1>3, <1>5, <2>2 DEF Tidy, Sound, Resized
<1>8. Own(b, s + 1, k, 0, r)
  <2> SUFFICES ASSUME b # "NoProtection", NEW p \in Pages, r.page[p][1] = "work"
               PROVE  /\ p < r.size
                      /\ (s + 1 > 2 \/ (s + 1 = 2 /\ (b \in Lazy \/ p < 0))) => r.page[p][2] = k
    BY DEF Own
  <2>1. r.page[p] = m.page[p] /\ ~ (n =< p /\ p < m.size) /\ r.size = n
    BY <1>5, PageFacts DEF Resized
  <2>2. p < m.size /\ (s > 2 => m.page[p][2] = k)
    BY <2>1, <1>1 DEF Tidy, Own
  <2>3. p < n
    BY <1>4, <1>6, <2>1, <2>2
  <2>4. CASE s > 2
    BY <2>1, <2>2, <2>3, <2>4
  <2>5. CASE s = 1 /\ b \in Lazy
    <3>1. n = 0
      BY <1>1, <2>5, SizeSteps
    <3>2. QED
      BY <1>6, <2>3, <3>1
  <2>6. CASE s = 1 /\ b \notin Lazy
    BY <1>6, <2>1, <2>3, <2>6
  <2>7. QED
    BY <1>1, <2>4, <2>5, <2>6
<1>9. Kept(b, s + 1, 0, r)
  <2> SUFFICES ASSUME b \notin Lazy, NEW p \in 0 .. SNAP_SIZE - 1,
                      (s + 1 = 2 /\ p < 0) \/ s + 1 = 3 \/ (s + 1 >= 4 /\ p < WORK_FILL_START)
               PROVE  r.page[p] = Snap(p)
    BY DEF Kept
  <2>1. s = 6 /\ p < WORK_FILL_START /\ p \in Nat
    BY <1>1, SizeFacts
  <2>2. m.page[p] = Snap(p)
    BY <2>1 DEF Tidy, Kept
  <2>3. p \in Pages /\ p < n
    <3>1. n = WORK_SIZE
      BY <1>1, <2>1, SizeSteps
    <3>2. QED
      BY <2>1, <3>1, SizeFacts DEF Pages
  <2>4. r.page[p] = m.page[p]
    BY <1>4, <2>1, <2>3, <1>5 DEF Resized
  <2>5. QED
    BY <2>2, <2>4
<1>10. b \in Uffd => r.rw = m.rw
  BY <1>5 DEF Resized
<1>11. QED
  BY <1>7, <1>8, <1>9, <1>10 DEF Tidy, r, n

\* The pages operation op touches in the memory m, and what it makes of page p.
SpanOf(op, m) ==
    CASE op = "copy" -> 0 .. SNAP_SIZE - 1
      [] op = "read" -> 0 .. m.size - 1
      [] op = "fill" -> fillSpan(m, WORK_FILL_START, WMEM_SIZE)
      [] OTHER -> {}

WrittenBy(op, k, m, p) ==
    CASE op = "copy" -> Snap(p)
      [] op = "fill" -> Work(k)
      [] OTHER -> IF m.page[p] = Missing THEN Zero ELSE m.page[p]

\* An access stays within the bounds of the memory, and below WORK_SIZE.
LEMMA SpanBounds ==
  ASSUME NEW b \in Benchmarks, NEW s \in 1 .. Len(Body(b)), NEW m, Sound(b, s, m),
         Body(b)[s].op # "resize"
  PROVE  /\ m.size \in Nat /\ m.size =< WORK_SIZE /\ m.size =< Half
         /\ SpanOf(Body(b)[s].op, m) \subseteq 0 .. m.size - 1
         /\ 0 .. m.size - 1 \subseteq Pages
         /\ Body(b)[s].op = "copy" => SpanOf(Body(b)[s].op, m) = 0 .. SNAP_SIZE - 1
         /\ Body(b)[s].op = "fill" => \A p \in SpanOf(Body(b)[s].op, m) : p >= WORK_FILL_START
<1>1. /\ s \in Nat /\ s > 1 /\ Body(b)[s].op \in {"copy", "read", "fill"}
      /\ Body(b)[s].op = "copy" => s = 2 /\ b \notin Lazy
      /\ Body(b)[s].op = "fill" => SizeAt(b, s) \in {SNAP_SIZE, WORK_SIZE}
      /\ SizeAt(b, s) \in {0, SNAP_SIZE, WORK_SIZE}
  BY AccessSteps
<1>2. m \in Memory /\ m.size = SizeAt(b, s)
  BY <1>1 DEF Sound
<1>3. m.size \in Nat /\ m.size =< WORK_SIZE /\ m.size =< Half /\ 0 .. m.size - 1 \subseteq Pages
  BY <1>1, <1>2, SizeFacts DEF Pages
<1> DEFINE op == Body(b)[s].op
<1> HIDE DEF op
<1>4. CASE op = "copy"
  <2>1. m.size = SNAP_SIZE
    BY <1>1, <1>2, <1>4, SizeSteps DEF op
  <2>2. SpanOf(op, m) = 0 .. SNAP_SIZE - 1
    BY <1>4 DEF SpanOf
  <2>3. QED
    BY <1>3, <1>4, <2>1, <2>2 DEF op
<1>5. CASE op = "read"
  <2>1. SpanOf(op, m) = 0 .. m.size - 1
    BY <1>5 DEF SpanOf
  <2>2. QED
    BY <1>3, <1>5, <2>1 DEF op
<1>6. CASE op = "fill"
  <2>1. WORK_FILL_START < m.size
    BY <1>1, <1>2, <1>6, SizeFacts DEF op
  <2>2. SpanOf(op, m) = WORK_FILL_START .. m.size - 1
    BY <1>2, <1>3, <1>6, <2>1, FillSpanFacts DEF SpanOf
  <2>3. SpanOf(op, m) \subseteq 0 .. m.size - 1 /\ \A p \in SpanOf(op, m) : p >= WORK_FILL_START
    BY <1>3, <2>1, <2>2, SizeFacts
  <2>4. QED
    BY <1>3, <1>6, <2>3 DEF op
<1>7. QED
  BY <1>1, <1>4, <1>5, <1>6 DEF op

\* One page of a memory changes.
LEMMA OnePage ==
  ASSUME NEW m \in Memory, NEW p \in Pages, NEW x \in Contents
  PROVE  LET r == [m EXCEPT !.page[p] = x]
         IN  /\ r \in Memory /\ r.size = m.size /\ r.rw = m.rw
             /\ \A q \in Pages : r.page[q] = IF q = p THEN x ELSE m.page[q]
<1>1. m.page \in [Pages -> Contents] /\ m.size \in Nat /\ m.rw \in SUBSET Pages
  BY DEF Memory
<1> DEFINE pg == [m.page EXCEPT ![p] = x]
<1>2. pg \in [Pages -> Contents] /\ \A q \in Pages : pg[q] = IF q = p THEN x ELSE m.page[q]
  BY <1>1
<1>3. [m EXCEPT !.page[p] = x] = [m EXCEPT !.page = pg]
  OBVIOUS
<1> HIDE DEF pg
<1>4. /\ [m EXCEPT !.page = pg] \in Memory /\ [m EXCEPT !.page = pg].page = pg
      /\ [m EXCEPT !.page = pg].size = m.size /\ [m EXCEPT !.page = pg].rw = m.rw
  BY <1>1, <1>2 DEF Memory
<1> DEFINE r == [m EXCEPT !.page[p] = x]
<1>5. r = [m EXCEPT !.page = pg]
  BY <1>3
<1> HIDE DEF r
<1>6. /\ r \in Memory /\ r.size = m.size /\ r.rw = m.rw /\ r.page = pg
  BY <1>4, <1>5
<1>7. \A q \in Pages : r.page[q] = IF q = p THEN x ELSE m.page[q]
  BY <1>2, <1>6
<1>8. QED
  BY <1>6, <1>7 DEF r

\* A touch of the first page ahead of the cursor.
LEMMA TidyTouch ==
  ASSUME NEW b \in Benchmarks, NEW s \in 1 .. Len(Body(b)), NEW k \in Nat, NEW c \in Nat,
         NEW m, Tidy(b, s, k, c, m), Body(b)[s].op # "resize",
         NEW p \in SpanOf(Body(b)[s].op, m), p >= c,
         \A q \in SpanOf(Body(b)[s].op, m) : q >= c => p =< q
  PROVE  LET r == [m EXCEPT !.page[p] = WrittenBy(Body(b)[s].op, k, m, p)]
         IN  Tidy(b, s, k, p + 1, r) /\ r.size = m.size /\ r.rw = m.rw /\ r \in Memory
<1> DEFINE op == Body(b)[s].op
           x == WrittenBy(op, k, m, p)
           r == [m EXCEPT !.page[p] = x]
<1>1. Sound(b, s, m) /\ Own(b, s, k, c, m) /\ Kept(b, s, c, m) /\ m \in Memory
  BY DEF Tidy, Sound
<1>2. /\ s \in Nat /\ s > 1 /\ op \in {"copy", "read", "fill"}
      /\ op = "copy" <=> (s = 2 /\ b \notin Lazy)
      /\ op = "fill" => s >= 4
  BY AccessSteps
<1>3. /\ m.size \in Nat /\ SpanOf(op, m) \subseteq 0 .. m.size - 1 /\ 0 .. m.size - 1 \subseteq Pages
      /\ op = "copy" => SpanOf(op, m) = 0 .. SNAP_SIZE - 1
      /\ op = "fill" => p >= WORK_FILL_START
  BY <1>1, SpanBounds
<1>4. p \in Pages /\ p \in Nat /\ p < m.size /\ Pages \subseteq Nat
  BY <1>3, SizeFacts, SMTT(60) DEF Pages
<1>5. m.page[p] \in Contents
  BY <1>1, <1>4 DEF Memory
<1>11. \A q \in SpanOf(op, m) : q >= c => p =< q
  OBVIOUS
<1> HIDE DEF op
<1>6. /\ op = "copy" => x = Snap(p)
      /\ op = "fill" => x = Work(k)
      /\ op = "read" => x = IF m.page[p] = Missing THEN Zero ELSE m.page[p]
  <2>1. op = "copy" => x = Snap(p)
    BY DEF WrittenBy
  <2>2. op = "fill" => x = Work(k)
    BY DEF WrittenBy
  <2>3. op = "read" => x = IF m.page[p] = Missing THEN Zero ELSE m.page[p]
    BY DEF WrittenBy
  <2>4. QED
    BY <2>1, <2>2, <2>3
<1> HIDE DEF x
<1>7. x \in Contents
  BY <1>2, <1>4, <1>5, <1>6, PageFacts
<1>8. /\ r \in Memory /\ r.size = m.size /\ r.rw = m.rw
      /\ \A q \in Pages : r.page[q] = IF q = p THEN x ELSE m.page[q]
  BY <1>1, <1>4, <1>7, OnePage
<1> HIDE DEF r
<1>9. Sound(b, s, r)
  BY <1>1, <1>8 DEF Sound
<1>10. Own(b, s, k, p + 1, r)
  <2> SUFFICES ASSUME b # "NoProtection", NEW q \in Pages, r.page[q][1] = "work"
               PROVE  /\ q < r.size
                      /\ (s > 2 \/ (s = 2 /\ (b \in Lazy \/ q < p + 1))) => r.page[q][2] = k
    BY DEF Own
  <2>1. q \in Nat
    BY <1>4
  <2>2. CASE q # p
    <3>1. r.page[q] = m.page[q]
      BY <1>8, <2>2
    <3>2. q < m.size /\ ((s > 2 \/ (s = 2 /\ (b \in Lazy \/ q < c))) => m.page[q][2] = k)
      BY <1>1, <3>1 DEF Own
    <3>3. s = 2 /\ b \notin Lazy /\ q < p + 1 => q < c
      <4> SUFFICES ASSUME s = 2, b \notin Lazy, q < p + 1, ~ (q < c) PROVE FALSE
        OBVIOUS
      <4>1. q < p
        BY <1>4, <2>1, <2>2
      <4>2. op = "copy" /\ SpanOf(op, m) = 0 .. SNAP_SIZE - 1
        BY <1>2, <1>3
      <4>3. p \in 0 .. SNAP_SIZE - 1
        BY <4>2 DEF op
      <4>4. q \in SpanOf(op, m)
        BY <1>4, <2>1, <4>1, <4>2, <4>3, SizeFacts
      <4>5. QED
        BY <1>4, <1>11, <2>1, <4>1, <4>4
    <3>4. QED
      BY <1>2, <1>8, <3>1, <3>2, <3>3
  <2>3. CASE q = p
    <3>1. r.page[q] = x
      BY <1>8, <2>3
    <3>2. CASE op = "copy"
      BY <1>4, <1>6, <3>1, <3>2, PageFacts
    <3>3. CASE op = "fill"
      BY <1>4, <1>6, <1>8, <2>3, <3>1, <3>3, PageFacts
    <3>4. CASE op = "read"
      <4>1. x = m.page[p] /\ ~ (s = 2 /\ b \notin Lazy)
        BY <1>2, <1>6, <3>1, <3>4, PageFacts
      <4>2. s > 2 \/ (s = 2 /\ b \in Lazy)
        BY <1>2, <4>1
      <4>3. m.page[p][2] = k
        BY <1>1, <1>4, <2>3, <3>1, <4>1, <4>2 DEF Own
      <4>4. QED
        BY <1>4, <1>8, <2>3, <3>1, <4>1, <4>3
    <3>5. QED
      BY <1>2, <3>2, <3>3, <3>4
  <2>4. QED
    BY <2>2, <2>3
<1>12. Kept(b, s, p + 1, r)
  <2> SUFFICES ASSUME b \notin Lazy, NEW q \in 0 .. SNAP_SIZE - 1,
                      (s = 2 /\ q < p + 1) \/ s = 3 \/ (s >= 4 /\ q < WORK_FILL_START)
               PROVE  r.page[q] = Snap(q)
    BY DEF Kept
  <2>1. q \in Nat /\ q \in Pages
    BY SizeFacts, SMTT(60) DEF Pages
  <2>2. CASE q # p
    <3>1. r.page[q] = m.page[q]
      BY <1>8, <2>1, <2>2
    <3>2. s = 2 => q < c
      <4> SUFFICES ASSUME s = 2, ~ (q < c) PROVE FALSE
        OBVIOUS
      <4>1. q < p + 1
        BY <1>2
      <4>2. q < p
        BY <1>4, <2>1, <2>2, <4>1
      <4>3. op = "copy" /\ SpanOf(op, m) = 0 .. SNAP_SIZE - 1
        BY <1>2, <1>3
      <4>4. q \in SpanOf(op, m)
        BY <4>3
      <4>5. QED
        BY <1>4, <1>11, <2>1, <4>2, <4>4
    <3>3. m.page[q] = Snap(q)
      BY <1>1, <1>2, <3>2 DEF Kept
    <3>4. QED
      BY <3>1, <3>3
  <2>3. CASE q = p
    <3>1. r.page[q] = x
      BY <1>8, <2>1, <2>3
    <3>2. CASE op = "copy"
      BY <1>6, <2>3, <3>1, <3>2
    <3>3. CASE op = "fill"
      BY <1>2, <1>3, <2>1, <2>3, <3>3, SizeFacts
    <3>4. CASE op = "read"
      <4>1. s # 2
        BY <1>2, <3>4
      <4>2. m.page[p] = Snap(p)
        BY <1>1, <1>2, <2>3, <4>1 DEF Kept
      <4>3. x = m.page[p]
        BY <1>4, <1>6, <3>4, <4>2, PageFacts
      <4>4. QED
        BY <2>3, <3>1, <4>2, <4>3
    <3>5. QED
      BY <1>2, <3>2, <3>3, <3>4
  <2>4. QED
    BY <2>2, <2>3
<1>13. QED
  BY <1>8, <1>9, <1>10, <1>12 DEF Tidy, r, x, op

\* An access that has touched all its pages hands the memory to the next step.
LEMMA TidyDone ==
  ASSUME NEW b \in Benchmarks, NEW s \in 1 .. Len(Body(b)), NEW k \in Nat, NEW c \in Nat,
         NEW m, Tidy(b, s, k, c, m), Body(b)[s].op # "resize", s # Len(Body(b)),
         \A q \in SpanOf(Body(b)[s].op, m) : ~ (q >= c)
  PROVE  Tidy(b, s + 1, k, 0, m)
<1>1. Sound(b, s, m) /\ Own(b, s, k, c, m) /\ Kept(b, s, c, m) /\ m \in Memory
  BY DEF Tidy, Sound
<1> DEFINE op == Body(b)[s].op
<1>2. /\ s \in Nat /\ s > 1 /\ op \in {"copy", "read", "fill"} /\ Len(Body(b)) \in Nat
      /\ op = "copy" <=> (s = 2 /\ b \notin Lazy)
      /\ op = "fill" => s >= 4
      /\ s < Len(Body(b)) => SizeAt(b, s + 1) = SizeAt(b, s)
  BY AccessSteps
<1>3. /\ m.size \in Nat
      /\ op = "copy" => SpanOf(op, m) = 0 .. SNAP_SIZE - 1
  BY <1>1, SpanBounds
<1>4. \A q \in SpanOf(op, m) : ~ (q >= c)
  OBVIOUS
<1>5. s < Len(Body(b))
  BY <1>2
<1> HIDE DEF op
<1>6. Sound(b, s + 1, m)
  BY <1>1, <1>2, <1>5 DEF Sound
<1>7. s = 2 /\ b \notin Lazy => m.size = SNAP_SIZE
  BY <1>1, <1>2, SizeSteps DEF Sound
<1>8. Own(b, s + 1, k, 0, m)
  <2> SUFFICES ASSUME b # "NoProtection", NEW q \in Pages, m.page[q][1] = "work"
               PROVE  q < m.size /\ m.page[q][2] = k
    BY DEF Own
  <2>1. q < m.size /\ ((s > 2 \/ (s = 2 /\ (b \in Lazy \/ q < c))) => m.page[q][2] = k)
    BY <1>1 DEF Own
  <2>2. q \in Nat
    BY SizeFacts DEF Pages
  <2>3. s = 2 /\ b \notin Lazy => q < c
    <3> SUFFICES ASSUME s = 2, b \notin Lazy PROVE q < c
      OBVIOUS
    <3>1. q \in SpanOf(op, m)
      BY <1>2, <1>3, <1>7, <2>1, <2>2, SizeFacts
    <3>2. QED
      BY <1>4, <2>2, <3>1
  <2>4. QED
    BY <1>2, <2>1, <2>3
<1>9. Kept(b, s + 1, 0, m)
  <2> SUFFICES ASSUME b \notin Lazy, NEW q \in 0 .. SNAP_SIZE - 1,
                      s + 1 = 3 \/ (s + 1 >= 4 /\ q < WORK_FILL_START)
               PROVE  m.page[q] = Snap(q)
    BY <1>2 DEF Kept
  <2>1. q \in Nat
    OBVIOUS
  <2>2. s = 2 => q < c
    <3> SUFFICES ASSUME s = 2 PROVE q < c
      OBVIOUS
    <3>1. q \in SpanOf(op, m)
      BY <1>2, <1>3
    <3>2. QED
      BY <1>4, <2>1, <3>1
  <2>3. (s = 2 /\ q < c) \/ s = 3 \/ (s >= 4 /\ q < WORK_FILL_START)
    BY <1>2, <2>2
  <2>4. QED
    BY <1>1, <2>3 DEF Kept
<1>10. QED
  BY <1>6, <1>8, <1>9 DEF Tidy

\* The next iteration begins with what the last one left, or with a new mapping.
LEMMA TidyLast ==
  ASSUME NEW b \in Benchmarks, NEW s \in Nat, s >= 1, NEW k \in Nat, NEW c \in Nat,
         NEW m, Tidy(b, s, k, c, m), NEW j \in Nat
  PROVE  Tidy(b, 1, j, 0, m)
<1>1. Sound(b, s, m) /\ Own(b, s, k, c, m)
  BY DEF Tidy
<1>2. Sound(b, 1, m)
  BY <1>1 DEF Sound
<1>3. Own(b, 1, j, 0, m)
  BY <1>1 DEF Own
<1>4. Kept(b, 1, 0, m)
  BY DEF Kept
<1>5. QED
  BY <1>2, <1>3, <1>4 DEF Tidy

\* A new mapping is ready for the first step, and so is the one that BM_NoProtection
\* has made accessible and filled.
LEMMA TidyNew ==
  ASSUME NEW b \in Benchmarks, NEW j \in Nat
  PROVE  /\ b # "NoProtection" => Tidy(b, 1, j, 0, NewWMemory)
         /\ Tidy(b, 1, j, 0, FreshMemory(b))
<1>1. /\ NewWMemory \in Memory /\ NewWMemory.size = 0 /\ NewWMemory.rw = {}
      /\ \A p \in Pages : NewWMemory.page[p] = Missing
  BY PageFacts DEF NewWMemory, Memory
<1>2. b # "NoProtection" => Tidy(b, 1, j, 0, NewWMemory)
  BY <1>1, PageFacts DEF Tidy, Sound, Own, Kept
<1>3. CASE b # "NoProtection"
  BY <1>2, <1>3 DEF FreshMemory
<1>4. CASE b = "NoProtection"
  <2> DEFINE m == resizeWavm(NewWMemory, Half)
             span == fillSpan(m, 0, WORK_SIZE)
             pg == [p \in Pages |-> IF p \in span THEN Work(0) ELSE m.page[p]]
             r == [m EXCEPT !.page = pg]
  <2>1. Resized("ReuseMapping", NewWMemory, Half, m)
    <3>1. resize("ReuseMapping", NewWMemory, Half) = m
      BY DEF resize
    <3>2. "ReuseMapping" \in Benchmarks /\ 0 =< Half
      BY BenchNames, SizeFacts
    <3>3. QED
      BY <1>1, <3>1, <3>2, SizeFacts, ResizeFacts
  <2>2. m \in Memory /\ m.size = Half
    BY <2>1 DEF Resized
  <2>3. 0 .. Half - 1 \subseteq m.rw /\ m.rw \subseteq 0 .. Half - 1
    <3>1. 0 .. NewWMemory.size - 1 \subseteq NewWMemory.rw /\ NewWMemory.rw \subseteq 0 .. Half - 1
      BY <1>1
    <3>2. "ReuseMapping" \notin Uffd
      BY DEF Uffd, Lazy, Sigbus
    <3>3. QED
      BY <2>1, <3>1, <3>2 DEF Resized
  <2>4. FreshMemory(b) = r
    BY <1>4 DEF FreshMemory, setupNoProtect, Fill, Half
  <2> HIDE DEF m, span
  <2>5. pg \in [Pages -> Contents]
    BY <2>2, PageFacts DEF Memory
  <2> HIDE DEF pg
  <2>6. r \in Memory /\ r.size = Half /\ r.rw = m.rw
    BY <2>2, <2>5 DEF Memory
  <2> HIDE DEF r
  <2>7. b \notin Uffd
    BY <1>4 DEF Uffd, Lazy, Sigbus
  <2>8. Sound(b, 1, r)
    BY <2>3, <2>6 DEF Sound
  <2>9. Own(b, 1, j, 0, r) /\ Kept(b, 1, 0, r)
    BY <1>4 DEF Own, Kept
  <2>10. QED
    BY <1>4, <2>4, <2>8, <2>9 DEF Tidy
<1>5. QED
  BY <1>2, <1>3, <1>4

\* The handler fills a missing page.
LEMMA TidyFilled ==
  ASSUME NEW b \in Benchmarks, NEW s \in Nat, NEW k \in Nat, NEW c \in Nat,
         NEW m, Tidy(b, s, k, c, m), NEW p \in Pages, m.page[p] = Missing,
         NEW x \in Contents, x[1] # "work", NEW r, r = [m EXCEPT !.page[p] = x]
  PROVE  Tidy(b, s, k, c, r) /\ r.rw = m.rw
<1>1. Sound(b, s, m) /\ Own(b, s, k, c, m) /\ Kept(b, s, c, m) /\ m \in Memory
  BY DEF Tidy, Sound
<1>2. x \in Contents /\ x[1] # "work"
  OBVIOUS
<1>3. /\ r \in Memory /\ r.size = m.size /\ r.rw = m.rw
      /\ \A q \in Pages : r.page[q] = IF q = p THEN x ELSE m.page[q]
  BY <1>1, <1>2, OnePage
<1>4. Sound(b, s, r)
  BY <1>1, <1>3 DEF Sound
<1>5. Own(b, s, k, c, r)
  <2>1. \A q \in Pages : r.page[q][1] = "work" => r.page[q] = m.page[q]
    BY <1>2, <1>3
  <2>2. QED
    BY <1>1, <1>3, <2>1 DEF Own
<1>6. Kept(b, s, c, r)
  <2>1. \A q \in 0 .. SNAP_SIZE - 1 : m.page[q] = Snap(q) => r.page[q] = Snap(q)
    <3> TAKE q \in 0 .. SNAP_SIZE - 1
    <3>1. q \in Pages /\ q \in Nat
      BY SizeFacts DEF Pages
    <3>2. QED
      BY <1>3, <3>1, PageFacts
  <2>2. QED
    BY <1>1, <2>1 DEF Kept
<1>7. QED
  BY <1>3, <1>4, <1>5, <1>6 DEF Tidy

------------------------------------------------------------------------------
(* Steps *)

\* What the invariant says of thread t in its loop.
LEMMA LoopFacts ==
  ASSUME IInv, NEW t \in Thread
  PROVE  /\ bench \in Benchmarks /\ suite \in Suites /\ at \in Nat
         /\ step[t] \in 1 .. Len(Body(bench)) /\ step[t] \in Nat
         /\ iter[t] \in Nat /\ cursor[t] \in Nat
         /\ Tidy(bench, step[t], iter[t], cursor[t], mem[t]) /\ mem[t] \in Memory
         /\ pc[t] = "loop" => iter[t] =< Iterations
<1>1. Control /\ Memories
  BY DEF IInv
<1>2. bench \in Benchmarks /\ suite \in Suites /\ at \in Nat
  BY <1>1, BenchFacts DEF Control
<1>3. cursor[t] \in Nat
  <2>1. cursor[t] \in 0 .. WORK_SIZE
    BY <1>1 DEF Control
  <2>2. QED
    BY <2>1, SizeFacts
<1>4. Tidy(bench, step[t], iter[t], cursor[t], mem[t])
  BY <1>1 DEF Memories
<1>5. mem[t] \in Memory
  BY <1>4 DEF Tidy, Sound
<1>6. QED
  BY <1>1, <1>2, <1>3, <1>4, <1>5 DEF Control

\* A thread in its loop moves on with its own memory, and with nothing else.
LEMMA LocalStep ==
  ASSUME IInv, NEW t \in Thread, pc[t] = "loop",
         NEW l \in {"loop", "finished"}, pc' = [pc EXCEPT ![t] = l],
         NEW k \in 1 .. Iterations + 1, l = "loop" => k =< Iterations,
         iter' = [iter EXCEPT ![t] = k],
         NEW s \in 1 .. Len(Body(bench)), step' = [step EXCEPT ![t] = s],
         NEW c \in 0 .. WORK_SIZE, cursor' = [cursor EXCEPT ![t] = c],
         NEW r, mem' = [mem EXCEPT ![t] = r], Tidy(bench, s, k, c, r),
         bench \in Uffd => r.rw = mem[t].rw,
         UNCHANGED <<run, handler, reported, taken, crashed>>
  PROVE  IInv'
<1>1. Control /\ Registration /\ Hands /\ Counting /\ Memories /\ Signal /\ CrashOnlyUnregistered
  BY DEF IInv
<1>2. suite' = suite /\ at' = at /\ bench' = bench
  BY DEF run, bench
<1>3. /\ hps' = hps /\ handling' = handling /\ sigbus' = sigbus /\ reported' = reported
      /\ taken' = taken /\ crashed' = crashed
  BY DEF handler
<1>4. /\ pc \in [Thread -> Entering \cup Running \cup Leaving] /\ pc'[t] = l
      /\ \A i \in Thread : i # t => pc'[i] = pc[i]
  BY <1>1 DEF Control
<1>5. pc' \in [Thread -> Entering \cup Running \cup Leaving]
  BY <1>4 DEF Running
<1>6. Together(Running) /\ Together(Running)'
  <2>1. Together(Running)
    BY <1>1 DEF Control, Together, Entering, Running, Leaving
  <2>2. QED
    BY <1>4, <2>1 DEF Together, Running
<1>7. /\ mem = [i \in Thread |-> mem[i]] /\ mem'[t] = r
      /\ \A i \in Thread : i # t => mem'[i] = mem[i]
  BY <1>1 DEF Memories
<1>8. /\ iter'[t] = k /\ step'[t] = s /\ cursor'[t] = c
      /\ \A i \in Thread : i # t => iter'[i] = iter[i] /\ step'[i] = step[i] /\ cursor'[i] = cursor[i]
      /\ iter' \in [Thread -> Nat] /\ step' \in [Thread -> Nat] /\ cursor' \in [Thread -> 0 .. WORK_SIZE]
  <2>1. iter \in [Thread -> Nat] /\ step \in [Thread -> Nat] /\ cursor \in [Thread -> 0 .. WORK_SIZE]
    BY <1>1 DEF Control
  <2>2. k \in Nat /\ s \in Nat
    OBVIOUS
  <2>3. QED
    BY <2>1, <2>2
<1>9. Control'
  <2>1. \A i \in Thread : /\ iter'[i] \in 1 .. Iterations + 1
                          /\ step'[i] \in 1 .. Len(Body(bench))
                          /\ pc'[i] \in Entering \cup {"loop", "stopped"} => iter'[i] =< Iterations
    BY <1>1, <1>4, <1>8 DEF Control, Entering
  <2>2. \A i \in Thread : /\ pc'[i] = "configured" => i = 0 /\ bench \in Uffd
                          /\ pc'[i] = "stopped" => bench \in Uffd
    BY <1>1, <1>4 DEF Control
  <2>3. QED
    BY <1>1, <1>2, <1>3, <1>5, <1>6, <1>8, <2>1, <2>2 DEF Control
<1>10. Joined' = Joined
  BY <1>2, <1>4 DEF Joined
<1>11. Registration'
  <2>1. pc'[0] = "setup" <=> pc[0] = "setup"
    BY <1>4, ThreadFacts
  <2>2. QED
    BY <1>1, <1>2, <1>3, <1>10, <2>1 DEF Registration
<1>12. \A o \in Thread : \A p : Awaited(o, p) => Awaited(o, p)'
  BY <1>4, <1>7 DEF Awaited
<1>13. \A h : Busy(h)' <=> Busy(h)
  BY <1>3 DEF Busy
<1>14. Hands'
  <2>1. \A e \in hps.events : Awaited(e.owner, e.page)'
    <3>1. \A e \in hps.events : e.owner \in Thread
      BY <1>1 DEF Registration, FaultEvent
    <3>2. QED
      BY <1>1, <1>12, <3>1 DEF Hands
  <2>2. \A h \in Handlers : Busy(h) => /\ Awaited(handling[h].owner, handling[h].page)'
                                       /\ h \in Thread => handling[h].owner = h
    <3>1. \A h \in Handlers : Busy(h) => handling[h].owner \in Thread
      BY DEF Busy, Handled
    <3>2. ASSUME NEW h \in Handlers, Busy(h)
          PROVE  /\ Awaited(handling[h].owner, handling[h].page)'
                 /\ h \in Thread => handling[h].owner = h
      <4>1. Awaited(handling[h].owner, handling[h].page) /\ handling[h].owner \in Thread
        BY <1>1, <3>1, <3>2 DEF Hands
      <4>2. QED
        BY <1>1, <1>3, <1>4, <1>7, <3>2, <4>1 DEF Hands, Awaited
    <3>3. QED
      BY <3>2
  <2>3. QED
    BY <1>1, <1>3, <1>13, <2>1, <2>2 DEF Hands
<1>15. Counting'
  <2>1. Uncounted' = Uncounted
    BY <1>3, <1>13 DEF Uncounted
  <2>2. (pc'[0] = "setup" <=> pc[0] = "setup") /\ 0 \in Thread
    BY <1>4, ThreadFacts
  <2>3. ~Together(Leaving)
    BY <1>4 DEF Together, Leaving
  <2>4. QED
    BY <1>1, <1>2, <1>3, <2>1, <2>2, <2>3 DEF Counting
<1>16. Memories'
  <2>1. ASSUME NEW i \in Thread
        PROVE  /\ Tidy(bench, step'[i], iter'[i], cursor'[i], mem'[i])
               /\ (bench \in Uffd /\ pc'[i] \notin {"setup", "configured"})
                     => 0 .. Half - 1 \subseteq mem'[i].rw
    BY <1>1, <1>4, <1>7, <1>8 DEF Memories
  <2>2. mem' = [i \in Thread |-> mem'[i]]
    BY <1>7
  <2>3. QED
    BY <1>2, <2>1, <2>2 DEF Memories
<1>17. Signal' /\ CrashOnlyUnregistered'
  <2>1. Signal'
    BY <1>1, <1>2, <1>3, <1>4 DEF Signal
  <2>2. CrashOnlyUnregistered'
    BY <1>1, <1>2, <1>3 DEF CrashOnlyUnregistered
  <2>3. QED
    BY <2>1, <2>2
<1>18. QED
  BY <1>9, <1>11, <1>14, <1>15, <1>16, <1>17 DEF IInv

\* A thread goes on to its next operation, or to its next iteration.
LEMMA AdvanceStep ==
  ASSUME IInv, NEW t \in Thread, pc[t] = "loop", NEW m, Advance(t, m),
         step[t] # Len(Body(bench)) => Tidy(bench, step[t] + 1, iter[t], 0, m),
         step[t] = Len(Body(bench)) => Tidy(bench, 1, iter[t] + 1, 0, m),
         bench \in Uffd => m.rw = mem[t].rw,
         UNCHANGED <<run, handler, reported, taken, crashed>>
  PROVE  IInv'
<1>1. /\ bench \in Benchmarks /\ step[t] \in 1 .. Len(Body(bench)) /\ step[t] \in Nat
      /\ iter[t] \in Nat /\ iter[t] =< Iterations /\ iter[t] >= 1
  BY LoopFacts DEF IInv, Control
<1>2. Len(Body(bench)) \in Nat
  BY BodyCopying, BodyLazy
<1>3. 0 \in 0 .. WORK_SIZE /\ Iterations \in Nat
  BY SizeFacts, ThreadFacts
<1>4. CASE step[t] # Len(Body(bench))
  <2>1. /\ cursor' = [cursor EXCEPT ![t] = 0] /\ step' = [step EXCEPT ![t] = step[t] + 1]
        /\ iter' = [iter EXCEPT ![t] = iter[t]] /\ mem' = [mem EXCEPT ![t] = m]
        /\ pc' = [pc EXCEPT ![t] = "loop"]
    BY <1>4 DEF Advance, Goto
  <2>2. step[t] + 1 \in 1 .. Len(Body(bench)) /\ iter[t] \in 1 .. Iterations + 1
    BY <1>1, <1>2, <1>3, <1>4
  <2>3. QED
    BY <1>1, <1>3, <1>4, <2>1, <2>2, LocalStep
<1>5. CASE step[t] = Len(Body(bench))
  <2> DEFINE l == IF iter[t] = Iterations THEN "finished" ELSE "loop"
             r == IF bench = "FullNewMapping" THEN NewWMemory ELSE m
  <2>1. /\ cursor' = [cursor EXCEPT ![t] = 0] /\ step' = [step EXCEPT ![t] = 1]
        /\ iter' = [iter EXCEPT ![t] = iter[t] + 1] /\ mem' = [mem EXCEPT ![t] = r]
        /\ pc' = [pc EXCEPT ![t] = l]
    BY <1>5 DEF Advance, Goto
  <2>2. /\ 1 \in 1 .. Len(Body(bench)) /\ iter[t] + 1 \in 1 .. Iterations + 1
        /\ l \in {"loop", "finished"} /\ (l = "loop" => iter[t] + 1 =< Iterations)
        /\ iter[t] + 1 \in Nat
    BY <1>1, <1>2, <1>3
  <2>3. Tidy(bench, 1, iter[t] + 1, 0, r)
    BY <1>1, <1>5, <2>2, TidyNew
  <2>4. bench \in Uffd => r.rw = mem[t].rw
    BY DEF Uffd, Lazy, Sigbus
  <2> HIDE DEF l, r
  <2>5. QED
    BY <1>3, <2>1, <2>2, <2>3, <2>4, LocalStep
<1>6. QED
  BY <1>4, <1>5

\* Resizing.
LEMMA ResizeInv ==
  ASSUME IInv, NEW t \in Thread, ResizeMemory(t) PROVE IInv'
<1>1. pc[t] = "loop" /\ Op(t).op = "resize" /\ Advance(t, resize(bench, mem[t], Op(t).size))
  BY DEF ResizeMemory, Operating
<1>2. UNCHANGED <<run, handler, reported, taken, crashed>>
  BY DEF ResizeMemory
<1>3. /\ bench \in Benchmarks /\ step[t] \in 1 .. Len(Body(bench)) /\ iter[t] \in Nat
      /\ cursor[t] \in Nat /\ Tidy(bench, step[t], iter[t], cursor[t], mem[t])
  BY LoopFacts
<1>4. Body(bench)[step[t]].op = "resize" /\ Op(t).size = Body(bench)[step[t]].size
  BY <1>1 DEF Op
<1> DEFINE r == resize(bench, mem[t], Op(t).size)
<1>5. Tidy(bench, step[t] + 1, iter[t], 0, r) /\ (bench \in Uffd => r.rw = mem[t].rw)
  BY <1>3, <1>4, TidyResize
<1>6. step[t] # Len(Body(bench))
  BY <1>3, <1>4, ResizeSteps
<1> HIDE DEF r
<1>7. Advance(t, r)
  BY <1>1 DEF r
<1>8. QED
  BY <1>1, <1>2, <1>5, <1>6, <1>7, AdvanceStep

\* A set of numbers has a least one.
LEMMA LeastNumber ==
  ASSUME NEW S, S \subseteq Nat, S # {}
  PROVE  \E x \in S : \A y \in S : x =< y
<1> DEFINE R == OpToRel(<, Nat)
<1>1. \A x, y \in Nat : <<y, x>> \notin R => x =< y
  BY DEF OpToRel
<1>2. IsWellFoundedOn(R, Nat)
  BY NatLessThanWellFounded
<1> HIDE DEF R
<1>3. \E x \in S : \A y \in S : ~ (<<y, x>> \in R)
  BY <1>2, WFMin
<1>4. QED
  BY <1>1, <1>3

\* The pages ahead of the cursor are those of the operation.
LEMMA AccessFacts ==
  ASSUME IInv, NEW t \in Thread, Operating(t, {"copy", "read", "fill"})
  PROVE  /\ pc[t] = "loop" /\ Body(bench)[step[t]].op # "resize"
         /\ Span(t) = SpanOf(Body(bench)[step[t]].op, mem[t])
         /\ \A p : Written(t, p) = WrittenBy(Body(bench)[step[t]].op, iter[t], mem[t], p)
         /\ Span(t) \subseteq 0 .. mem[t].size - 1 /\ 0 .. mem[t].size - 1 \subseteq Pages
         /\ mem[t].size \in Nat /\ mem[t].size =< WORK_SIZE /\ mem[t].size =< Half
         /\ cursor[t] \in Nat
         /\ Ahead(t) # {} => /\ Here(t) \in Span(t) /\ Here(t) >= cursor[t]
                             /\ Here(t) \in Nat /\ Here(t) < mem[t].size /\ Here(t) \in Pages
                             /\ \A q \in Span(t) : q >= cursor[t] => Here(t) =< q
<1>1. pc[t] = "loop" /\ Op(t).op \in {"copy", "read", "fill"} /\ Op(t).op = Body(bench)[step[t]].op
  BY DEF Operating, Op
<1>2. /\ bench \in Benchmarks /\ step[t] \in 1 .. Len(Body(bench)) /\ cursor[t] \in Nat
      /\ Sound(bench, step[t], mem[t])
  BY LoopFacts DEF Tidy
<1> DEFINE op == Body(bench)[step[t]].op
<1>3. op # "resize" /\ op \in {"copy", "read", "fill"} /\ Op(t).op = op
  BY <1>1
<1>4. /\ mem[t].size \in Nat /\ mem[t].size =< WORK_SIZE /\ mem[t].size =< Half
      /\ SpanOf(op, mem[t]) \subseteq 0 .. mem[t].size - 1 /\ 0 .. mem[t].size - 1 \subseteq Pages
  BY <1>2, <1>3, SpanBounds
<1> HIDE DEF op
<1>5. Span(t) = SpanOf(op, mem[t])
  BY <1>3 DEF Span, SpanOf
<1>6. \A p : Written(t, p) = WrittenBy(op, iter[t], mem[t], p)
  BY <1>3 DEF Written, WrittenBy
<1>7. ASSUME Ahead(t) # {}
      PROVE  /\ Here(t) \in Span(t) /\ Here(t) >= cursor[t]
             /\ \A q \in Span(t) : q >= cursor[t] => Here(t) =< q
  <2>1. Ahead(t) \subseteq Nat
    BY <1>4, <1>5 DEF Ahead
  <2>2. PICK x \in Ahead(t) : \A y \in Ahead(t) : x =< y
    BY <1>7, <2>1, LeastNumber
  <2>3. Here(t) \in Ahead(t) /\ \A y \in Ahead(t) : Here(t) =< y
    BY <2>2 DEF Here, Min
  <2>4. QED
    BY <2>3 DEF Ahead
<1>8. ASSUME Ahead(t) # {}
      PROVE  Here(t) \in Nat /\ Here(t) < mem[t].size /\ Here(t) \in Pages
  BY <1>4, <1>5, <1>7, <1>8
<1>9. QED
  BY <1>1, <1>2, <1>3, <1>4, <1>5, <1>6, <1>7, <1>8 DEF op

\* The pages of an operation are accessible.
LEMMA Accessible ==
  ASSUME IInv, NEW t \in Thread, Operating(t, {"copy", "read", "fill"}), Ahead(t) # {}
  PROVE  Here(t) \in mem[t].rw
<1>1. /\ pc[t] = "loop" /\ mem[t].size \in Nat /\ mem[t].size =< Half
      /\ Here(t) \in Nat /\ Here(t) < mem[t].size
  BY AccessFacts
<1>2. Here(t) \in 0 .. mem[t].size - 1 /\ Here(t) \in 0 .. Half - 1
  BY <1>1, SizeFacts
<1>3. CASE bench \in Uffd
  BY <1>1, <1>2, <1>3 DEF IInv, Memories
<1>4. CASE bench \notin Uffd
  <2>1. 0 .. mem[t].size - 1 \subseteq mem[t].rw
    BY <1>4, LoopFacts DEF Tidy, Sound
  <2>2. QED
    BY <1>2, <2>1
<1>5. QED
  BY <1>3, <1>4

\* Touching a page that is there.
LEMMA TouchInv ==
  ASSUME IInv, ~crashed, NEW t \in Thread, Touch(t) PROVE IInv'
<1>1. Operating(t, {"copy", "read", "fill"}) /\ Ahead(t) # {}
  BY DEF Touch
<1> DEFINE p == Here(t)
           op == Body(bench)[step[t]].op
           r == [mem[t] EXCEPT !.page[p] = Written(t, p)]
<1>2. /\ pc[t] = "loop" /\ op # "resize" /\ Span(t) = SpanOf(op, mem[t])
      /\ Written(t, p) = WrittenBy(op, iter[t], mem[t], p)
      /\ mem[t].size \in Nat /\ mem[t].size =< WORK_SIZE
      /\ p \in Span(t) /\ p >= cursor[t] /\ p \in Nat /\ p < mem[t].size
      /\ \A q \in Span(t) : q >= cursor[t] => p =< q
  BY <1>1, AccessFacts
<1>3. crashed' = crashed
  <2>1. p \in mem[t].rw
    BY <1>1, Accessible
  <2>2. crashed \in BOOLEAN
    BY DEF IInv, Control
  <2>3. QED
    BY <2>1, <2>2 DEF Touch
<1>4. UNCHANGED <<run, handler, reported, taken, crashed>>
  BY <1>3 DEF Touch
<1>5. /\ bench \in Benchmarks /\ step[t] \in 1 .. Len(Body(bench)) /\ iter[t] \in Nat
      /\ cursor[t] \in Nat /\ Tidy(bench, step[t], iter[t], cursor[t], mem[t])
      /\ iter[t] =< Iterations
  BY <1>2, LoopFacts
<1>6. Tidy(bench, step[t], iter[t], p + 1, r) /\ r.rw = mem[t].rw
  <2>1. p \in SpanOf(op, mem[t]) /\ \A q \in SpanOf(op, mem[t]) : q >= cursor[t] => p =< q
    BY <1>2
  <2>2. r = [mem[t] EXCEPT !.page[p] = WrittenBy(op, iter[t], mem[t], p)]
    BY <1>2
  <2> HIDE DEF p, r
  <2>3. QED
    BY <1>2, <1>5, <2>1, <2>2, TidyTouch, SMTT(60)
<1>7. mem' = [mem EXCEPT ![t] = r] /\ cursor' = [cursor EXCEPT ![t] = p + 1]
  BY DEF Touch
<1>8. /\ pc' = [pc EXCEPT ![t] = "loop"] /\ iter' = [iter EXCEPT ![t] = iter[t]]
      /\ step' = [step EXCEPT ![t] = step[t]]
  <2>1. /\ pc \in [Thread -> Entering \cup Running \cup Leaving] /\ iter \in [Thread -> Nat]
        /\ step \in [Thread -> Nat]
    BY DEF IInv, Control
  <2>2. pc' = pc /\ iter' = iter /\ step' = step
    BY DEF Touch
  <2>3. QED
    BY <1>2, <2>1, <2>2
<1>9. p + 1 \in 0 .. WORK_SIZE
  BY <1>2, SizeFacts
<1>10. iter[t] \in 1 .. Iterations + 1
  BY DEF IInv, Control
<1> HIDE DEF p, r, op
<1>11. QED
  BY <1>2, <1>4, <1>5, <1>6, <1>7, <1>8, <1>9, <1>10, LocalStep

\* The operation has touched all its pages.
LEMMA OpDoneInv ==
  ASSUME IInv, NEW t \in Thread, OpDone(t) PROVE IInv'
<1>1. Operating(t, {"copy", "read", "fill"}) /\ Ahead(t) = {} /\ Advance(t, mem[t])
  BY DEF OpDone
<1> DEFINE op == Body(bench)[step[t]].op
<1>2. pc[t] = "loop" /\ op # "resize" /\ Span(t) = SpanOf(op, mem[t])
  BY <1>1, AccessFacts
<1>3. UNCHANGED <<run, handler, reported, taken, crashed>>
  BY DEF OpDone
<1>4. /\ bench \in Benchmarks /\ step[t] \in 1 .. Len(Body(bench)) /\ iter[t] \in Nat
      /\ cursor[t] \in Nat /\ Tidy(bench, step[t], iter[t], cursor[t], mem[t]) /\ step[t] \in Nat
  BY LoopFacts
<1>5. \A q \in SpanOf(op, mem[t]) : ~ (q >= cursor[t])
  BY <1>1, <1>2 DEF Ahead
<1>6. step[t] # Len(Body(bench)) => Tidy(bench, step[t] + 1, iter[t], 0, mem[t])
  BY <1>2, <1>4, <1>5, TidyDone
<1>7. Tidy(bench, 1, iter[t] + 1, 0, mem[t])
  <2>1. step[t] >= 1 /\ iter[t] + 1 \in Nat
    BY <1>4
  <2>2. QED
    BY <1>4, <2>1, TidyLast
<1>8. QED
  BY <1>1, <1>2, <1>3, <1>6, <1>7, AdvanceStep

------------------------------------------------------------------------------
(* Steps in which no thread waits for the handler *)

\* Whoever is not in handleOne handles no fault.
LEMMA NotBusy ==
  /\ \A x \in NotHandling : x \notin Handled
  /\ Idle \in NotHandling /\ Again \in NotHandling /\ Gone \in NotHandling
<1>1. ASSUME NEW x \in Handled PROVE x.stage \in Stages
  BY DEF Handled
<1>2. \A x \in NotHandling : x.stage \notin Stages
  BY DEF NotHandling, Idle, Again, Gone, At, Stages
<1>3. Idle \in NotHandling /\ Again \in NotHandling /\ Gone \in NotHandling
  BY DEF NotHandling
<1>4. QED
  BY <1>1, <1>2, <1>3

\* While no thread is stopped there is no fault anywhere.
LEMMA QuietFacts ==
  ASSUME IInv, \A t \in Thread : pc[t] # "stopped"
  PROVE  /\ hps.events = {} /\ handling \in [Handlers -> NotHandling]
         /\ Uncounted = {} /\ Cardinality(Uncounted) = 0
<1>1. Hands /\ Registration
  BY DEF IInv
<1>2. hps.events = {}
  <2>1. \A e \in hps.events : e.owner \in Thread /\ pc[e.owner] = "stopped"
    BY <1>1 DEF Hands, Awaited, Registration, FaultEvent
  <2>2. QED
    BY <2>1
<1>3. \A h \in Handlers : ~Busy(h)
  <2>1. \A h \in Handlers : Busy(h) => handling[h].owner \in Thread
    BY DEF Busy, Handled
  <2>2. \A h \in Handlers : Busy(h) => pc[handling[h].owner] = "stopped"
    BY <1>1 DEF Hands, Awaited
  <2>3. QED
    BY <2>1, <2>2
<1>4. handling \in [Handlers -> NotHandling]
  BY <1>1, <1>3 DEF Hands, Busy
<1>5. Uncounted = {}
  BY <1>2, <1>3 DEF Uncounted
<1>6. QED
  BY <1>2, <1>4, <1>5, FS_EmptySet

\* And the other way round, for the state a step leads to.
LEMMA QuietHands ==
  ASSUME handling' \in [Handlers -> NotHandling], hps'.events = {}
  PROVE  Hands' /\ Uncounted' = {} /\ Cardinality(Uncounted') = 0
<1>1. \A h \in Handlers : ~Busy(h)'
  BY NotBusy DEF Busy
<1>2. Uncounted' = {}
  BY <1>1 DEF Uncounted
<1>3. Hands'
  BY <1>1 DEF Hands
<1>4. QED
  BY <1>2, <1>3, FS_EmptySet

\* Threads move on at a barrier, or to it, and change nothing else.
LEMMA Moved ==
  ASSUME IInv, \A t \in Thread : pc[t] # "stopped",
         pc' \in [Thread -> Entering \cup Running \cup Leaving],
         \A t \in Thread : pc'[t] # "stopped",
         Together(Entering)' \/ Together(Running)' \/ Together(Leaving)',
         Together(Leaving) => Together(Leaving)',
         \A t \in Thread : pc'[t] \in Entering \cup {"loop"} => iter[t] =< Iterations,
         \A t \in Thread : pc'[t] = "configured" => pc[t] = "configured",
         pc'[0] = "setup" => pc[0] = "setup",
         bench \in Uffd => \A t \in Thread :
            /\ pc[t] \in {"setup", "configured"} <=> pc'[t] \in {"setup", "configured"}
            /\ pc[t] = "setup" <=> pc'[t] = "setup"
            /\ pc[t] = "done" <=> pc'[t] = "done",
         UNCHANGED <<run, iter, step, cursor, mem, handler, reported, crashed, taken>>
  PROVE  IInv'
<1>1. Control /\ Registration /\ Hands /\ Counting /\ Memories /\ Signal /\ CrashOnlyUnregistered
  BY DEF IInv
<1>2. suite' = suite /\ at' = at /\ bench' = bench
  BY DEF run, bench
<1>3. /\ hps' = hps /\ handling' = handling /\ sigbus' = sigbus /\ reported' = reported
      /\ taken' = taken /\ crashed' = crashed /\ iter' = iter /\ step' = step
      /\ cursor' = cursor /\ mem' = mem
  BY DEF handler
<1>4. 0 \in Thread
  BY ThreadFacts
<1>5. Control'
  BY <1>1, <1>2, <1>3 DEF Control
<1>6. Joined' = Joined
  BY <1>2 DEF Joined
<1>7. Registration'
  BY <1>1, <1>2, <1>3, <1>4, <1>6 DEF Registration
<1>8. /\ hps.events = {} /\ handling \in [Handlers -> NotHandling] /\ Cardinality(Uncounted) = 0
  BY QuietFacts
<1>9. Hands' /\ Cardinality(Uncounted') = 0
  BY <1>3, <1>8, QuietHands
<1>10. Counting'
  <2>1. Cardinality(Uncounted)' = 0
    BY <1>9
  <2>2. QED
    BY <1>1, <1>2, <1>3, <1>4, <1>8, <2>1 DEF Counting
<1>11. Memories'
  BY <1>1, <1>2, <1>3 DEF Memories
<1>12. Signal'
  <2>1. bench = "UFFD_SIGBUS_Eager" => bench \in Uffd
    BY DEF Uffd, Sigbus
  <2>2. QED
    BY <1>1, <1>2, <1>3, <2>1 DEF Signal
<1>13. CrashOnlyUnregistered'
  BY <1>1, <1>2, <1>3 DEF CrashOnlyUnregistered
<1>14. QED
  BY <1>5, <1>7, <1>9, <1>10, <1>11, <1>12, <1>13 DEF IInv

\* A thread that sets nothing up is ready.
LEMMA PrepareInv ==
  ASSUME IInv, NEW t \in Thread, Prepare(t) PROVE IInv'
<1>1. /\ bench \notin Uffd /\ pc[t] = "setup" /\ pc' = [pc EXCEPT ![t] = "ready"]
      /\ UNCHANGED <<run, iter, step, cursor, mem, handler, reported, crashed, taken>>
  BY DEF Prepare, Goto
<1>2. Control /\ pc \in [Thread -> Entering \cup Running \cup Leaving]
  BY DEF IInv, Control
<1>3. pc'[t] = "ready" /\ \A i \in Thread : i # t => pc'[i] = pc[i]
  BY <1>1, <1>2
<1>4. Together(Entering) /\ ~Together(Leaving)
  BY <1>1, <1>2 DEF Control, Together, Entering, Running, Leaving
<1>5. Together(Entering)'
  BY <1>3, <1>4 DEF Together, Entering
<1>6. pc' \in [Thread -> Entering \cup Running \cup Leaving]
  BY <1>1, <1>2 DEF Entering
<1>7. \A i \in Thread : /\ pc[i] # "stopped" /\ pc'[i] # "stopped"
                        /\ pc'[i] \in Entering \cup {"loop"} => iter[i] =< Iterations
                        /\ pc'[i] = "configured" => pc[i] = "configured"
  BY <1>1, <1>2, <1>3, <1>4 DEF Control, Together, Entering
<1>8. pc'[0] = "setup" => pc[0] = "setup"
  BY <1>3, ThreadFacts
<1>9. QED
  BY <1>1, <1>4, <1>5, <1>6, <1>7, <1>8, Moved

\* The barrier before the first iteration.
LEMMA StartInv ==
  ASSUME IInv, StartKeepRunning PROVE IInv'
<1>1. /\ \A i \in Thread : pc[i] = "ready" /\ pc'[i] = "loop"
      /\ pc' = [i \in Thread |-> "loop"]
      /\ UNCHANGED <<run, iter, step, cursor, mem, handler, reported, crashed, taken>>
  BY DEF StartKeepRunning
<1>2. Control /\ 0 \in Thread
  BY ThreadFacts DEF IInv
<1>3. Together(Running)' /\ ~Together(Leaving)
  BY <1>1, <1>2 DEF Together, Running, Leaving
<1>4. pc' \in [Thread -> Entering \cup Running \cup Leaving]
  BY <1>1 DEF Running
<1>5. \A i \in Thread : iter[i] =< Iterations
  BY <1>1, <1>2 DEF Control, Entering
<1>6. pc'[0] = "loop"
  BY <1>1, <1>2
<1>7. QED
  BY <1>1, <1>3, <1>4, <1>5, <1>6, Moved

\* The barrier after the last iteration.
LEMMA FinishInv ==
  ASSUME IInv, FinishKeepRunning PROVE IInv'
<1>1. /\ \A i \in Thread : pc[i] = "finished" /\ pc'[i] = "report"
      /\ pc' = [i \in Thread |-> "report"]
      /\ UNCHANGED <<run, iter, step, cursor, mem, handler, reported, crashed, taken>>
  BY DEF FinishKeepRunning
<1>2. Control /\ 0 \in Thread
  BY ThreadFacts DEF IInv
<1>3. Together(Leaving)'
  BY <1>1, <1>2 DEF Together, Leaving
<1>4. pc' \in [Thread -> Entering \cup Running \cup Leaving]
  BY <1>1 DEF Leaving
<1>5. \A i \in Thread : pc'[i] \notin Entering \cup {"loop"}
  BY <1>1 DEF Entering
<1>6. pc'[0] = "report"
  BY <1>1, <1>2
<1>7. QED
  BY <1>1, <1>3, <1>4, <1>5, <1>6, Moved

\* Thread 0 reports.
LEMMA ReportInv ==
  ASSUME IInv, ~crashed, NEW t \in Thread, Report(t) PROVE IInv'
<1>1. Control /\ Registration /\ Hands /\ Counting /\ Memories /\ Signal /\ CrashOnlyUnregistered
  BY DEF IInv
<1>2. /\ pc[0] = "report" /\ reported' = IF bench \in Uffd THEN hps.faults ELSE 0
      /\ suite' = suite /\ at' = at /\ bench' = bench
      /\ hps' = hps /\ handling' = handling /\ sigbus' = sigbus /\ pc' = pc
      /\ taken' = taken /\ crashed' = crashed /\ iter' = iter /\ step' = step
      /\ cursor' = cursor /\ mem' = mem
  BY DEF Report, run, thread, handler, bench
<1>3. Together(Leaving)
  BY <1>1, <1>2, ThreadFacts DEF Control, Together, Entering, Running, Leaving
<1>4. \A i \in Thread : pc[i] # "stopped"
  BY <1>3 DEF Together, Leaving
<1>5. Cardinality(Uncounted) = 0
  BY <1>4, QuietFacts
<1>6. Together(Leaving)' /\ Together(Entering)' = Together(Entering) /\ Together(Running)' = Together(Running)
  BY <1>2, <1>3 DEF Together
<1>7. Counting'
  <2>1. Uncounted' = Uncounted
    BY <1>2 DEF Uncounted, Busy
  <2>2. bench \in Uffd => reported' = taken
    <3>1. bench \in Uffd => taken = hps.faults + 0 /\ hps.faults \in Nat
      BY <1>1, <1>2, <1>5 DEF Counting, Registration
    <3>2. QED
      BY <1>2, <3>1
  <2>3. QED
    BY <1>1, <1>2, <1>6, <2>1, <2>2 DEF Counting
<1>8. Control' /\ Registration' /\ Signal' /\ CrashOnlyUnregistered'
  <2>1. Control'
    BY <1>1, <1>2, <1>3, <1>6 DEF Control
  <2>2. Registration'
    BY <1>1, <1>2 DEF Registration, Joined
  <2>3. Signal' /\ CrashOnlyUnregistered'
    BY <1>1, <1>2 DEF Signal, CrashOnlyUnregistered
  <2>4. QED
    BY <2>1, <2>2, <2>3
<1>9. Hands' /\ Memories'
  <2>1. Hands'
    BY <1>1, <1>2 DEF Hands, Busy, Awaited
  <2>2. Memories'
    BY <1>1, <1>2 DEF Memories
  <2>3. QED
    BY <2>1, <2>2
<1>10. QED
  BY <1>7, <1>8, <1>9 DEF IInv

\* A thread takes its memory from the handler.
LEMMA RemoveInv ==
  ASSUME IInv, ~crashed, NEW t \in Thread, Remove(t) PROVE IInv'
<1>1. Control /\ Registration /\ Hands /\ Counting /\ Memories /\ Signal /\ CrashOnlyUnregistered
  BY DEF IInv
<1>2. /\ pc[t] = "report" /\ pc' = [pc EXCEPT ![t] = "done"]
      /\ suite' = suite /\ at' = at /\ bench' = bench
      /\ handling' = handling /\ sigbus' = sigbus /\ reported' = reported
      /\ taken' = taken /\ crashed' = crashed /\ iter' = iter /\ step' = step
      /\ cursor' = cursor /\ mem' = mem
      /\ hps' = [hps EXCEPT !.mappings = hps.mappings \ {t}]
  BY DEF Remove, Goto, run, bench
<1>3. /\ pc \in [Thread -> Entering \cup Running \cup Leaving] /\ pc'[t] = "done"
      /\ \A i \in Thread : i # t => pc'[i] = pc[i]
  BY <1>1, <1>2 DEF Control
<1>4. Together(Leaving)
  BY <1>1, <1>2, <1>3 DEF Control, Together, Entering, Running, Leaving
<1>5. Together(Leaving)'
  BY <1>3, <1>4 DEF Together, Leaving
<1>6. \A i \in Thread : pc[i] \in {"report", "done"} /\ pc'[i] \in {"report", "done"}
  BY <1>4, <1>5 DEF Together, Leaving
<1>7. \A i \in Thread : pc[i] # "stopped"
  BY <1>6
<1>8. hps.events = {} /\ handling \in [Handlers -> NotHandling] /\ Cardinality(Uncounted) = 0
  BY <1>7, QuietFacts
<1>9. /\ hps'.events = {} /\ hps'.kind = hps.kind /\ hps'.faults = hps.faults
      /\ hps'.mappings = hps.mappings \ {t}
      /\ hps' \in [kind : {NONE, "workers", "sigbus"}, mappings : SUBSET Thread,
                   snapshot : {NONE, SNAP_SIZE}, faults : Nat, events : SUBSET FaultEvent]
  BY <1>1, <1>2, <1>8 DEF Registration
<1>10. Hands' /\ Cardinality(Uncounted') = 0
  BY <1>2, <1>8, <1>9, QuietHands
<1>11. Control'
  <2>1. pc' \in [Thread -> Entering \cup Running \cup Leaving]
    BY <1>2, <1>3 DEF Leaving
  <2>2. \A i \in Thread : pc'[i] \notin Entering \cup {"loop", "stopped"}
    BY <1>6 DEF Entering
  <2>3. QED
    BY <1>1, <1>2, <1>5, <1>6, <2>1, <2>2 DEF Control
<1>12. Registration'
  <2>1. Joined' = Joined \ {t}
    BY <1>2, <1>3, <1>6 DEF Joined
  <2>2. pc[0] # "setup" /\ pc'[0] # "setup"
    BY <1>6, ThreadFacts
  <2>3. QED
    BY <1>1, <1>2, <1>9, <2>1, <2>2 DEF Registration
<1>13. Counting'
  <2>1. Cardinality(Uncounted)' = 0
    BY <1>10
  <2>2. pc[0] # "setup" /\ pc'[0] # "setup"
    BY <1>6, ThreadFacts
  <2>3. QED
    BY <1>1, <1>2, <1>5, <1>8, <1>9, <2>1, <2>2 DEF Counting
<1>14. Memories'
  <2>1. \A i \in Thread : bench \in Uffd => 0 .. Half - 1 \subseteq mem[i].rw
    BY <1>1, <1>6 DEF Memories
  <2>2. QED
    BY <1>1, <1>2, <2>1 DEF Memories
<1>15. Signal'
  <2>1. \A i \in Thread : bench = "UFFD_SIGBUS_Eager" => sigbus
    BY <1>1, <1>6 DEF Signal
  <2>2. QED
    BY <1>1, <1>2, <2>1 DEF Signal
<1>16. CrashOnlyUnregistered'
  BY <1>1, <1>2 DEF CrashOnlyUnregistered
<1>17. QED
  BY <1>10, <1>11, <1>12, <1>13, <1>14, <1>15, <1>16 DEF IInv

\* The next run starts with everything of its own.
LEMMA NextBenchmarkInv ==
  ASSUME IInv, ~crashed, NextBenchmark PROVE IInv'
<1>1. Control /\ Registration /\ Hands /\ Counting /\ Memories /\ Signal /\ CrashOnlyUnregistered
  BY DEF IInv
<1>2. /\ \A i \in Thread : pc[i] = "done"
      /\ at < Len(suite) /\ at' = at + 1 /\ suite' = suite
      /\ pc' = [i \in Thread |-> "setup"] /\ iter' = [i \in Thread |-> 1]
      /\ step' = [i \in Thread |-> 1] /\ cursor' = [i \in Thread |-> 0]
      /\ mem' = [i \in Thread |-> FreshMemory(suite[at + 1])]
      /\ reported' = NONE /\ taken' = 0 /\ crashed' = crashed
      /\ hps' = hps /\ handling' = handling /\ sigbus' = sigbus
  BY DEF NextBenchmark, handler
<1>3. /\ at \in Nat /\ Len(suite) \in Nat /\ suite \in Suites /\ bench \in Benchmarks
      /\ \A i \in 1 .. Len(suite) : suite[i] \in Benchmarks
  BY <1>1, BenchFacts DEF Control
<1>4. at + 1 \in 1 .. Len(suite) /\ bench' = suite[at + 1] /\ bench' \in Benchmarks
  BY <1>2, <1>3 DEF bench
<1>5. /\ hps.events = {} /\ handling \in [Handlers -> NotHandling] /\ Cardinality(Uncounted) = 0
  BY <1>2, QuietFacts
<1>6. Hands'
  BY <1>2, <1>5, QuietHands
<1>7. 0 \in Thread /\ Iterations \in Nat /\ Iterations >= 1
  BY ThreadFacts
<1>8. Control'
  <2>1. 1 \in 1 .. Len(Body(bench'))
    BY BodyCopying, BodyLazy
  <2>2. 0 \in 0 .. WORK_SIZE
    BY SizeFacts
  <2>3. pc' \in [Thread -> Entering \cup Running \cup Leaving] /\ Together(Entering)'
    BY <1>2 DEF Entering, Together
  <2>4. Body(bench)' = Body(bench')
    BY DEF Body, Restore
  <2>5. iter' \in [Thread -> Nat] /\ step' \in [Thread -> Nat] /\ cursor' \in [Thread -> 0 .. WORK_SIZE]
    BY <1>2, <2>2
  <2>6. \A i \in Thread : iter'[i] \in 1 .. Iterations + 1 /\ iter'[i] =< Iterations
                          /\ step'[i] \in 1 .. Len(Body(bench'))
                          /\ pc'[i] = "setup"
    BY <1>2, <1>7, <2>1
  <2>7. at' \in 1 .. Len(suite)
    BY <1>2, <1>4
  <2>8. QED
    BY <1>1, <1>2, <2>3, <2>4, <2>5, <2>6, <2>7 DEF Control
<1>9. Registration'
  <2>1. Joined = {} /\ Joined' = {} /\ pc'[0] = "setup"
    BY <1>2, <1>7 DEF Joined
  <2>2. QED
    BY <1>1, <1>2, <2>1 DEF Registration
<1>10. Counting'
  BY <1>2, <1>7 DEF Counting
<1>11. Memories'
  <2>1. \A i \in Thread : Tidy(bench', step'[i], iter'[i], cursor'[i], mem'[i]) /\ pc'[i] = "setup"
    BY <1>2, <1>4, TidyNew
  <2>2. QED
    BY <1>2, <2>1 DEF Memories
<1>12. Signal'
  <2>1. bench = "UFFD_SIGBUS_Eager" => sigbus
    BY <1>1, <1>2, <1>7 DEF Signal
  <2>2. ASSUME NEW i \in 1 .. (at + 1) - 1, suite[i] = "UFFD_SIGBUS_Eager" PROVE sigbus
    <3>1. i = at \/ i \in 1 .. at - 1
      BY <1>3
    <3>2. QED
      BY <1>1, <2>1, <2>2, <3>1 DEF Signal, bench
  <2>3. QED
    BY <1>2, <2>2 DEF Signal
<1>13. CrashOnlyUnregistered'
  BY <1>2 DEF CrashOnlyUnregistered
<1>14. QED
  BY <1>6, <1>8, <1>9, <1>10, <1>11, <1>12, <1>13 DEF IInv

HandlerType == [kind : {NONE, "workers", "sigbus"}, mappings : SUBSET Thread,
                snapshot : {NONE, SNAP_SIZE}, faults : Nat, events : SUBSET FaultEvent]

\* The handler a benchmark finds or makes has the memories that joined it, and no
\* fault; nobody is in handleOne.
LEMMA HandlerFound ==
  ASSUME IInv, Together(Entering), bench \in Uffd
  PROVE  /\ uffdHandler(bench) \in HandlerType /\ uffdHandler(bench).kind = Kind(bench)
         /\ uffdHandler(bench).mappings = Joined /\ uffdHandler(bench).events = {}
         /\ hps.kind = Kind(bench) => uffdHandler(bench) = hps
         /\ Staff(bench) \in [Handlers -> NotHandling]
         /\ hps.kind # Kind(bench) => Joined = {}
<1>1. Registration
  BY DEF IInv
<1>2. \A i \in Thread : pc[i] # "stopped"
  BY DEF Together, Entering
<1>3. hps.events = {} /\ handling \in [Handlers -> NotHandling]
  BY <1>2, QuietFacts
<1>4. hps \in HandlerType /\ hps.mappings = Joined /\ (hps.kind # Kind(bench) => Joined = {})
  BY <1>1 DEF Registration, HandlerType
<1>5. /\ NewHandler(Kind(bench)) \in HandlerType /\ NewHandler(Kind(bench)).mappings = {}
      /\ NewHandler(Kind(bench)).events = {} /\ NewHandler(Kind(bench)).kind = Kind(bench)
  BY DEF NewHandler, HandlerType, Kind
<1>6. Staff(bench) \in [Handlers -> NotHandling]
  <2>1. \A h \in Handlers : handling[h] \in NotHandling
    BY <1>3
  <2>2. QED
    BY <2>1, NotBusy DEF Staff, Handlers
<1>7. QED
  BY <1>3, <1>4, <1>5, <1>6 DEF uffdHandler

\* Thread 0 sets the handler up.
LEMMA ConfigureInv ==
  ASSUME IInv, ~crashed, NEW t \in Thread, Configure(t) PROVE IInv'
<1>1. Control /\ Registration /\ Hands /\ Counting /\ Memories /\ Signal /\ CrashOnlyUnregistered
  BY DEF IInv
<1> DEFINE u == uffdHandler(bench)
           n == IF bench \in Lazy THEN SNAP_SIZE ELSE NONE
<1>2. /\ t = 0 /\ pc[0] = "setup" /\ bench \in Uffd /\ pc' = [pc EXCEPT ![0] = "configured"]
      /\ suite' = suite /\ at' = at /\ bench' = bench
      /\ handling' = Staff(bench) /\ sigbus' = sigbus /\ reported' = reported
      /\ taken' = taken /\ crashed' = crashed /\ iter' = iter /\ step' = step
      /\ cursor' = cursor /\ mem' = mem
      /\ hps' = [u EXCEPT !.snapshot = n, !.faults = 0]
  BY DEF Configure, Goto, run, bench
<1>3. /\ pc \in [Thread -> Entering \cup Running \cup Leaving] /\ pc'[0] = "configured"
      /\ \A i \in Thread : i # 0 => pc'[i] = pc[i]
  BY <1>1, <1>2 DEF Control
<1>4. Together(Entering) /\ ~Together(Leaving)
  BY <1>1, <1>2, <1>3 DEF Control, Together, Entering, Running, Leaving
<1>5. Together(Entering)'
  BY <1>3, <1>4 DEF Together, Entering
<1>6. /\ u \in HandlerType /\ u.kind = Kind(bench) /\ u.mappings = Joined /\ u.events = {}
      /\ Staff(bench) \in [Handlers -> NotHandling]
  BY <1>2, <1>4, HandlerFound
<1> HIDE DEF u
<1>7. /\ hps'.events = {} /\ hps'.kind = Kind(bench) /\ hps'.faults = 0 /\ hps'.mappings = Joined
      /\ hps' \in HandlerType
  <2>1. n \in {NONE, SNAP_SIZE}
    OBVIOUS
  <2> HIDE DEF n
  <2>2. QED
    BY <1>2, <1>6, <2>1 DEF HandlerType
<1>8. Hands' /\ Cardinality(Uncounted)' = 0
  BY <1>2, <1>6, <1>7, QuietHands
<1>9. Control'
  <2>1. pc' \in [Thread -> Entering \cup Running \cup Leaving]
    BY <1>2, <1>3 DEF Entering
  <2>2. \A i \in Thread : iter[i] =< Iterations
    BY <1>1, <1>4 DEF Control, Together
  <2>3. \A i \in Thread : /\ pc'[i] = "configured" => i = 0
                          /\ pc'[i] # "stopped"
    BY <1>1, <1>3, <1>5 DEF Control, Together, Entering
  <2>4. QED
    BY <1>1, <1>2, <1>5, <2>1, <2>2, <2>3 DEF Control
<1>10. Registration'
  <2>1. Joined' = Joined
    BY <1>2, <1>3 DEF Joined
  <2>2. Kind(bench)' = Kind(bench)
    BY <1>2 DEF Kind, Sigbus
  <2>3. QED
    BY <1>7, <2>1, <2>2 DEF Registration, HandlerType
<1>11. Counting'
  <2>1. taken = 0 /\ reported = NONE
    BY <1>1, <1>2, <1>4 DEF Counting
  <2>2. QED
    BY <1>2, <1>7, <1>8, <2>1 DEF Counting
<1>12. Memories'
  BY <1>1, <1>2, <1>3 DEF Memories
<1>13. Signal' /\ CrashOnlyUnregistered'
  <2>1. Signal'
    BY <1>1, <1>2, <1>3 DEF Signal
  <2>2. QED
    BY <1>2, <2>1 DEF CrashOnlyUnregistered
<1>14. QED
  BY <1>8, <1>9, <1>10, <1>11, <1>12, <1>13 DEF IInv

\* add makes the memory accessible and leaves its pages alone.
LEMMA TidyAdded ==
  ASSUME NEW b \in Uffd, NEW s, NEW k, NEW c, NEW m, Tidy(b, s, k, c, m)
  PROVE  /\ Tidy(b, s, k, c, Unprotect(m, 0, WMEM_SIZE \div 2))
         /\ 0 .. Half - 1 \subseteq Unprotect(m, 0, WMEM_SIZE \div 2).rw
<1>1. Sound(b, s, m) /\ Own(b, s, k, c, m) /\ Kept(b, s, c, m) /\ m \in Memory
  BY DEF Tidy, Sound
<1> DEFINE r == Unprotect(m, 0, Half)
<1>2. r \in Memory /\ r.size = m.size /\ r.page = m.page /\ r.rw = m.rw \cup (0 .. Half - 1)
  <2>1. 0 .. Half - 1 \subseteq Pages /\ 0 \in Nat /\ Half \in Nat
    BY SizeFacts DEF Pages
  <2>2. QED
    BY <1>1, <2>1, ProtectFacts
<1> HIDE DEF r
<1>3. b # "NoProtection"
  BY DEF Uffd, Lazy, Sigbus
<1>4. Sound(b, s, r) /\ Own(b, s, k, c, r) /\ Kept(b, s, c, r)
  BY <1>1, <1>2, <1>3 DEF Sound, Own, Kept
<1>5. QED
  BY <1>2, <1>4 DEF Tidy, r, Half

\* A thread gives its memory to the handler.
LEMMA AddInv ==
  ASSUME IInv, ~crashed, NEW t \in Thread, Add(t) PROVE IInv'
<1>1. Control /\ Registration /\ Hands /\ Counting /\ Memories /\ Signal /\ CrashOnlyUnregistered
  BY DEF IInv
<1> DEFINE u == uffdHandler(bench)
           r == Unprotect(mem[t], 0, WMEM_SIZE \div 2)
<1>2. /\ bench \in Uffd /\ pc[t] = (IF t = 0 THEN "configured" ELSE "setup")
      /\ pc' = [pc EXCEPT ![t] = "ready"]
      /\ suite' = suite /\ at' = at /\ bench' = bench
      /\ handling' = Staff(bench) /\ reported' = reported
      /\ sigbus' = (sigbus \/ bench = "UFFD_SIGBUS_Eager")
      /\ taken' = taken /\ crashed' = crashed /\ iter' = iter /\ step' = step
      /\ cursor' = cursor /\ mem' = [mem EXCEPT ![t] = r]
      /\ hps' = [u EXCEPT !.mappings = u.mappings \cup {t}]
  BY DEF Add, Goto, run, bench
<1>3. /\ pc \in [Thread -> Entering \cup Running \cup Leaving] /\ pc'[t] = "ready"
      /\ \A i \in Thread : i # t => pc'[i] = pc[i]
  BY <1>1, <1>2 DEF Control
<1>4. Together(Entering) /\ ~Together(Leaving)
  BY <1>1, <1>2, <1>3 DEF Control, Together, Entering, Running, Leaving
<1>5. Together(Entering)'
  BY <1>3, <1>4 DEF Together, Entering
<1>6. /\ u \in HandlerType /\ u.kind = Kind(bench) /\ u.mappings = Joined /\ u.events = {}
      /\ Staff(bench) \in [Handlers -> NotHandling] /\ (hps.kind = Kind(bench) => u = hps)
  BY <1>2, <1>4, HandlerFound
<1> HIDE DEF u
<1>7. /\ hps'.events = {} /\ hps'.kind = Kind(bench) /\ hps'.faults = u.faults
      /\ hps'.mappings = Joined \cup {t} /\ hps' \in HandlerType
  BY <1>2, <1>6 DEF HandlerType
<1>8. Hands' /\ Cardinality(Uncounted)' = 0
  BY <1>2, <1>6, <1>7, QuietHands
<1>9. Control'
  <2>1. pc' \in [Thread -> Entering \cup Running \cup Leaving]
    BY <1>2, <1>3 DEF Entering
  <2>2. \A i \in Thread : iter[i] =< Iterations
    BY <1>1, <1>4 DEF Control, Together
  <2>3. \A i \in Thread : /\ pc'[i] = "configured" => i = 0
                          /\ pc'[i] # "stopped"
    BY <1>1, <1>3, <1>5 DEF Control, Together, Entering
  <2>4. sigbus' \in BOOLEAN
    BY <1>1, <1>2 DEF Control
  <2>5. QED
    BY <1>1, <1>2, <1>5, <2>1, <2>2, <2>3, <2>4 DEF Control
<1>10. Registration'
  <2>1. Joined' = Joined \cup {t}
    BY <1>2, <1>3 DEF Joined
  <2>2. Kind(bench)' = Kind(bench)
    BY <1>2 DEF Kind, Sigbus
  <2>3. QED
    BY <1>7, <2>1, <2>2 DEF Registration, HandlerType
<1>11. Counting'
  <2>1. reported = NONE /\ taken \in Nat
    BY <1>1, <1>2, <1>4 DEF Counting
  <2>2. pc'[0] = "setup" <=> pc[0] = "setup"
    BY <1>2, <1>3, ThreadFacts
  <2>3. ASSUME pc[0] # "setup" PROVE taken = u.faults + 0
    <3>1. u = hps
      BY <1>1, <1>2, <1>6, <2>3 DEF Registration
    <3>2. Cardinality(Uncounted) = 0
      <4>1. \A i \in Thread : pc[i] # "stopped"
        BY <1>4 DEF Together, Entering
      <4>2. QED
        BY <4>1, QuietFacts
    <3>3. QED
      BY <1>1, <1>2, <2>3, <3>1, <3>2 DEF Counting
  <2>4. pc[0] = "setup" => taken = 0
    BY <1>1 DEF Counting
  <2>5. QED
    BY <1>2, <1>7, <1>8, <2>1, <2>2, <2>3, <2>4 DEF Counting
<1>12. Memories'
  <2>1. Tidy(bench, step[t], iter[t], cursor[t], r) /\ 0 .. Half - 1 \subseteq r.rw
    BY <1>1, <1>2, TidyAdded DEF Memories
  <2> HIDE DEF r
  <2>2. mem'[t] = r /\ \A i \in Thread : i # t => mem'[i] = mem[i]
    BY <1>1, <1>2 DEF Memories
  <2>3. mem' = [i \in Thread |-> mem'[i]]
    BY <1>1, <1>2 DEF Memories
  <2>4. \A i \in Thread :
          /\ Tidy(bench, step[i], iter[i], cursor[i], mem'[i])
          /\ pc'[i] \notin {"setup", "configured"} => 0 .. Half - 1 \subseteq mem'[i].rw
    BY <1>1, <1>2, <1>3, <2>1, <2>2 DEF Memories
  <2>5. QED
    BY <1>2, <2>3, <2>4 DEF Memories
<1>13. Signal'
  BY <1>1, <1>2, <1>3 DEF Signal
<1>14. CrashOnlyUnregistered'
  BY <1>2 DEF CrashOnlyUnregistered
<1>15. QED
  BY <1>8, <1>9, <1>10, <1>11, <1>12, <1>13, <1>14 DEF IInv

------------------------------------------------------------------------------
(* Faults and the handler *)

\* A step of the handler that leaves threads and registrations alone, keeps each
\* fault in one hand and counts right.
LEMMA HandlerOnly ==
  ASSUME IInv, crashed' = crashed,
         UNCHANGED <<run, thread, sigbus, reported, taken>>,
         hps' \in HandlerType, hps'.kind = hps.kind, hps'.mappings = hps.mappings,
         Hands', hps'.faults + Cardinality(Uncounted)' = hps.faults + Cardinality(Uncounted)
  PROVE  IInv'
<1>1. Control /\ Registration /\ Hands /\ Counting /\ Memories /\ Signal /\ CrashOnlyUnregistered
  BY DEF IInv
<1>2. /\ suite' = suite /\ at' = at /\ bench' = bench
      /\ sigbus' = sigbus /\ reported' = reported /\ pc' = pc
      /\ taken' = taken /\ crashed' = crashed /\ iter' = iter /\ step' = step
      /\ cursor' = cursor /\ mem' = mem
  BY DEF run, thread, bench
<1>3. Control'
  <2>1. /\ Together(Entering)' = Together(Entering) /\ Together(Running)' = Together(Running)
        /\ Together(Leaving)' = Together(Leaving)
    BY <1>2 DEF Together, Entering, Running, Leaving
  <2>2. QED
    BY <1>1, <1>2, <2>1 DEF Control
<1>4. Registration'
  BY <1>1, <1>2 DEF Registration, Joined, HandlerType
<1>5. Counting'
  <2>1. Together(Leaving)' = Together(Leaving)
    BY <1>2 DEF Together
  <2>2. QED
    BY <1>1, <1>2, <2>1 DEF Counting
<1>6. Memories'
  BY <1>1, <1>2 DEF Memories
<1>7. Signal' /\ CrashOnlyUnregistered'
  BY <1>1, <1>2 DEF Signal, CrashOnlyUnregistered
<1>8. QED
  BY <1>3, <1>4, <1>5, <1>6, <1>7 DEF IInv

\* A worker comes to readEvent.
LEMMA EnterReadInv ==
  ASSUME IInv, ~crashed, NEW w \in Workers, EnterRead(w) PROVE IInv'
<1>1. Hands /\ Registration
  BY DEF IInv
<1>2. PICK x \in {Idle, Gone} : handling' = [handling EXCEPT ![w] = x]
  BY DEF EnterRead
<1>3. /\ UNCHANGED <<run, thread, sigbus, reported, taken>> /\ crashed' = crashed
      /\ hps' = hps /\ handling[w] = Again
      /\ pc' = pc /\ mem' = mem
  BY DEF EnterRead, thread
<1>4. handling \in [Handlers -> NotHandling \cup Handled] /\ w \in Handlers
  BY <1>1 DEF Hands, Handlers
<1>5. /\ handling' \in [Handlers -> NotHandling \cup Handled] /\ handling'[w] \in NotHandling
      /\ \A h \in Handlers : h # w => handling'[h] = handling[h]
  BY <1>2, <1>4, NotBusy
<1>6. ~Busy(w) /\ ~Busy(w)' /\ \A h \in Handlers : h # w => Busy(h)' = Busy(h)
  BY <1>3, <1>5, NotBusy DEF Busy
<1>7. Hands'
  <2>1. \A h \in Handlers : Busy(h)' => Busy(h) /\ handling'[h] = handling[h]
    BY <1>5, <1>6
  <2>3. \A e \in hps.events : Awaited(e.owner, e.page)'
    BY <1>1, <1>3 DEF Hands, Awaited
  <2>4. ASSUME NEW h \in Handlers, Busy(h)'
        PROVE  /\ Awaited(handling[h].owner, handling[h].page)'
               /\ h \in Thread => handling'[h].owner = h
    <3>1. Busy(h) /\ handling'[h] = handling[h]
      BY <2>1, <2>4
    <3>2. QED
      BY <1>1, <1>3, <3>1 DEF Hands, Awaited
  <2>5. QED
    BY <1>1, <1>3, <1>5, <2>1, <2>3, <2>4 DEF Hands
<1>8. Uncounted' = Uncounted
  BY <1>3, <1>5, <1>6 DEF Uncounted
<1>9. hps \in HandlerType
  BY <1>1 DEF Registration, HandlerType
<1>10. QED
  BY <1>3, <1>7, <1>8, <1>9, HandlerOnly

\* Whoever is at a stage of handleOne handles a fault.
LEMMA StageBusy ==
  ASSUME IInv, NEW h \in Handlers, handling[h].stage \in Stages
  PROVE  /\ Busy(h) /\ handling[h].owner \in Thread /\ handling[h].page \in Pages
         /\ Awaited(handling[h].owner, handling[h].page)
<1>1. Hands
  BY DEF IInv
<1>2. handling[h] \in NotHandling \cup Handled
  BY <1>1 DEF Hands
<1>3. handling[h] \notin NotHandling
  BY DEF NotHandling, Idle, Again, Gone, At, Stages
<1>4. Busy(h)
  BY <1>2, <1>3 DEF Busy
<1>5. QED
  BY <1>1, <1>4 DEF Hands, Busy, Handled

\* The next stage of a fault is in the same hand.
LEMMA Restaged ==
  ASSUME IInv, NEW h \in Handlers, handling[h].stage \in Stages, NEW g \in Stages,
         handling' = [handling EXCEPT ![h].stage = g], pc' = pc, mem' = mem,
         hps'.events = hps.events
  PROVE  /\ Hands'
         /\ \A i \in Handlers : /\ Busy(i)' <=> Busy(i)
                                /\ i # h => handling'[i] = handling[i]
         /\ handling'[h].owner = handling[h].owner /\ handling'[h].stage = g
<1>1. Hands
  BY DEF IInv
<1>2. Busy(h)
  BY StageBusy
<1>3. handling \in [Handlers -> NotHandling \cup Handled]
  BY <1>1 DEF Hands
<1> DEFINE x == [handling[h] EXCEPT !.stage = g]
<1>4. /\ x \in Handled /\ x.owner = handling[h].owner /\ x.page = handling[h].page
      /\ x.stage = g
  BY <1>2 DEF Busy, Handled
<1>5. handling' = [handling EXCEPT ![h] = x]
  OBVIOUS
<1> HIDE DEF x
<1>6. /\ handling' \in [Handlers -> NotHandling \cup Handled] /\ handling'[h] = x
      /\ \A i \in Handlers : i # h => handling'[i] = handling[i]
  BY <1>3, <1>4, <1>5
<1>7. \A i \in Handlers : /\ Busy(i)' <=> Busy(i)
                          /\ Busy(i) => /\ handling'[i].owner = handling[i].owner
                                        /\ handling'[i].page = handling[i].page
  BY <1>2, <1>4, <1>6 DEF Busy
<1>8. Hands'
  <2>1. \A e \in hps.events : Awaited(e.owner, e.page)'
    BY <1>1 DEF Hands, Awaited
  <2>2. ASSUME NEW i \in Handlers, Busy(i)'
        PROVE  /\ Awaited(handling[i].owner, handling[i].page)'
               /\ i \in Thread => handling'[i].owner = i
    <3>1. Busy(i) /\ handling'[i].owner = handling[i].owner /\ handling'[i].page = handling[i].page
      BY <1>7, <2>2
    <3>2. Awaited(handling[i].owner, handling[i].page) /\ (i \in Thread => handling[i].owner = i)
      BY <1>1, <3>1 DEF Hands
    <3>3. QED
      BY <3>1, <3>2 DEF Awaited
  <2>3. QED
    BY <1>1, <1>6, <1>7, <2>1, <2>2 DEF Hands
<1>9. QED
  BY <1>4, <1>6, <1>7, <1>8

\* The mapping of a fault is known: the process does not terminate.
LEMMA FindMappingInv ==
  ASSUME IInv, ~crashed, NEW h \in Handlers, FindMapping(h) PROVE IInv'
<1>1. Control /\ Hands /\ Registration
  BY DEF IInv
<1>2. /\ handling[h].stage = "find" /\ handling' = [handling EXCEPT ![h].stage = "check"]
      /\ UNCHANGED <<run, thread, sigbus, reported, taken>>
      /\ hps' = hps /\ pc' = pc /\ mem' = mem
      /\ crashed' = (Found(Address(h)) = {})
  BY DEF FindMapping, thread
<1>3. "find" \in Stages /\ "check" \in Stages
  BY DEF Stages
<1>4. /\ Busy(h) /\ handling[h].owner \in Thread /\ handling[h].page \in Pages
      /\ pc[handling[h].owner] = "stopped"
  BY <1>2, <1>3, StageBusy DEF Awaited
<1>5. Found(Address(h)) # {}
  <2>1. handling[h].owner \in hps.mappings
    BY <1>1, <1>4 DEF Control, Registration, Joined
  <2>2. /\ Base(handling[h].owner) + handling[h].page >= Base(handling[h].owner)
        /\ Base(handling[h].owner) + handling[h].page < Base(handling[h].owner) + WMEM_SIZE
    <3>1. PICK n \in Nat : n = Base(handling[h].owner)
      <4>1. handling[h].owner \in Nat
        BY <1>4, ThreadFacts
      <4>2. QED
        BY <4>1, SizeFacts DEF Base
    <3>2. handling[h].page \in Nat /\ handling[h].page < WMEM_SIZE
      BY <1>4, SizeFacts DEF Pages
    <3>3. QED
      BY <3>1, <3>2, SizeFacts
  <2>3. QED
    BY <2>1, <2>2 DEF Found, Address
<1>6. crashed' = crashed
  BY <1>1, <1>2, <1>5 DEF Control
<1>7. /\ Hands' /\ \A i \in Handlers : (Busy(i)' <=> Busy(i)) /\ (i # h => handling'[i] = handling[i])
      /\ handling'[h].owner = handling[h].owner /\ handling'[h].stage = "check"
  BY <1>2, <1>3, Restaged
<1>8. Uncounted' = Uncounted
  BY <1>2, <1>7 DEF Uncounted
<1>9. hps \in HandlerType
  BY <1>1 DEF Registration, HandlerType
<1>10. QED
  BY <1>2, <1>6, <1>7, <1>8, <1>9, HandlerOnly

\* The fault is within bounds, and is counted once.
LEMMA CheckBoundsInv ==
  ASSUME IInv, ~crashed, NEW h \in Handlers, CheckBounds(h) PROVE IInv'
<1>1. Control /\ Hands /\ Registration
  BY DEF IInv
<1>2. /\ handling[h].stage = "check" /\ handling' = [handling EXCEPT ![h].stage = "fill"]
      /\ UNCHANGED <<run, thread, sigbus, reported, taken>>
      /\ pc' = pc /\ mem' = mem
  BY DEF CheckBounds, thread
<1>3. "check" \in Stages /\ "fill" \in Stages
  BY DEF Stages
<1>4. /\ Busy(h) /\ handling[h].owner \in Thread
      /\ handling[h].page < mem[handling[h].owner].size
  BY <1>2, <1>3, StageBusy DEF Awaited
<1>5. crashed' = FALSE /\ hps' = [hps EXCEPT !.faults = hps.faults + 1]
  BY <1>4 DEF CheckBounds
<1>6. crashed' = crashed
  BY <1>1, <1>5 DEF Control
<1>7. /\ hps \in HandlerType /\ hps' \in HandlerType /\ hps'.kind = hps.kind
      /\ hps'.mappings = hps.mappings /\ hps'.events = hps.events
      /\ hps'.faults = hps.faults + 1 /\ hps.faults \in Nat
  BY <1>1, <1>5 DEF Registration, HandlerType
<1>8. /\ Hands' /\ \A i \in Handlers : (Busy(i)' <=> Busy(i)) /\ (i # h => handling'[i] = handling[i])
      /\ handling'[h].owner = handling[h].owner /\ handling'[h].stage = "fill"
  BY <1>2, <1>3, <1>7, Restaged
<1> DEFINE o == handling[h].owner
<1>9. o \in Uncounted
  BY <1>2, <1>4 DEF Uncounted
<1>10. o \notin Uncounted'
  <2>1. ~ \E e \in hps.events : e.owner = o
    BY <1>1, <1>4 DEF Hands
  <2>2. ASSUME NEW i \in Handlers, Busy(i), handling'[i].owner = o, handling'[i].stage # "fill"
        PROVE  FALSE
    <3>1. i # h
      BY <1>8, <2>2
    <3>2. handling[i].owner = o
      BY <1>8, <2>2, <3>1
    <3>3. QED
      BY <1>1, <1>4, <2>2, <3>1, <3>2 DEF Hands
  <2>3. QED
    BY <1>7, <1>8, <2>1, <2>2 DEF Uncounted
<1>11. Uncounted' = Uncounted \ {o}
  <2>1. ASSUME NEW i \in Thread, i # o PROVE i \in Uncounted' <=> i \in Uncounted
    BY <1>7, <1>8, <2>1 DEF Uncounted
  <2>2. Uncounted \subseteq Thread /\ Uncounted' \subseteq Thread
    BY DEF Uncounted
  <2>3. QED
    BY <1>9, <1>10, <2>1, <2>2
<1> HIDE DEF o
<1>12. IsFiniteSet(Uncounted) /\ Cardinality(Uncounted) \in Nat
  <2>1. Uncounted \subseteq Thread
    BY DEF Uncounted
  <2>2. QED
    BY <2>1, ThreadFacts, FS_Subset, FS_CardinalityType
<1>13. Cardinality(Uncounted)' = Cardinality(Uncounted) - 1
  BY <1>9, <1>11, <1>12, FS_RemoveElement
<1>14. hps'.faults + Cardinality(Uncounted)' = hps.faults + Cardinality(Uncounted)
  BY <1>7, <1>12, <1>13
<1>15. QED
  BY <1>2, <1>6, <1>7, <1>8, <1>14, HandlerOnly

\* A worker takes a fault from the kernel's queue.
LEMMA ReadEventInv ==
  ASSUME IInv, ~crashed, NEW w \in Workers, ReadEvent(w) PROVE IInv'
<1>1. Hands /\ Registration
  BY DEF IInv
<1>2. PICK e \in hps.events :
        /\ hps' = [hps EXCEPT !.events = hps.events \ {e}]
        /\ handling' = [handling EXCEPT ![w] =
                          [stage |-> "find", owner |-> e.owner, page |-> e.page]]
  BY DEF ReadEvent
<1>3. /\ UNCHANGED <<run, thread, sigbus, reported, taken>> /\ crashed' = crashed
      /\ handling[w] = Idle /\ pc' = pc /\ mem' = mem
  BY DEF ReadEvent, thread
<1>4. handling \in [Handlers -> NotHandling \cup Handled] /\ w \in Handlers /\ w \notin Thread
  BY <1>1, ThreadFacts DEF Hands, Handlers
<1>5. /\ hps \in HandlerType /\ hps' \in HandlerType /\ hps'.kind = hps.kind
      /\ hps'.mappings = hps.mappings /\ hps'.events = hps.events \ {e}
      /\ hps'.faults = hps.faults
  BY <1>1, <1>2 DEF Registration, HandlerType
<1>6. e \in FaultEvent /\ e.owner \in Thread /\ e.page \in Pages
  BY <1>1 DEF Registration, FaultEvent
<1> DEFINE x == [stage |-> "find", owner |-> e.owner, page |-> e.page]
<1>7. /\ x \in Handled /\ x.owner = e.owner /\ x.page = e.page /\ x.stage = "find"
      /\ handling' = [handling EXCEPT ![w] = x]
  BY <1>2, <1>6 DEF Handled, Stages
<1> HIDE DEF x
<1>8. /\ handling' \in [Handlers -> NotHandling \cup Handled] /\ handling'[w] = x
      /\ \A h \in Handlers : h # w => handling'[h] = handling[h]
  BY <1>4, <1>7
<1>9. ~Busy(w) /\ Busy(w)' /\ \A h \in Handlers : h # w => (Busy(h)' <=> Busy(h))
  BY <1>3, <1>7, <1>8, NotBusy DEF Busy
<1>10. Awaited(e.owner, e.page)
  BY <1>1 DEF Hands
<1>11. Hands'
  <2>1. \A d \in hps'.events : Awaited(d.owner, d.page)'
    BY <1>1, <1>3, <1>5 DEF Hands, Awaited
  <2>2. ASSUME NEW h \in Handlers, Busy(h)'
        PROVE  /\ Awaited(handling[h].owner, handling[h].page)'
               /\ h \in Thread => handling'[h].owner = h
    <3>1. CASE h = w
      BY <1>3, <1>4, <1>7, <1>8, <1>10, <3>1 DEF Awaited
    <3>2. CASE h # w
      <4>1. Awaited(handling[h].owner, handling[h].page) /\ (h \in Thread => handling[h].owner = h)
            /\ handling'[h] = handling[h]
        BY <1>1, <1>8, <1>9, <2>2, <3>2 DEF Hands
      <4>2. QED
        BY <1>3, <4>1 DEF Awaited
    <3>3. QED
      BY <3>1, <3>2
  <2>3. \A d \in hps'.events : d \in hps.events /\ d.owner # e.owner
    BY <1>1, <1>5 DEF Hands
  <2>4. \A d \in hps'.events, h \in Handlers : Busy(h)' => handling'[h].owner # d.owner
    BY <1>1, <1>7, <1>8, <1>9, <2>3 DEF Hands
  <2>5. \A c, d \in hps'.events : c.owner = d.owner => c = d
    BY <1>1, <2>3 DEF Hands
  <2>6. ASSUME NEW g \in Handlers, NEW h \in Handlers, Busy(g)', Busy(h)',
               handling'[g].owner = handling'[h].owner
        PROVE  g = h
    <3>1. \A i \in Handlers : i # w /\ Busy(i)' =>
             Busy(i) /\ handling'[i] = handling[i] /\ handling'[i].owner # e.owner
      BY <1>1, <1>8, <1>9 DEF Hands
    <3>2. CASE g = w \/ h = w
      BY <1>7, <1>8, <2>6, <3>1, <3>2
    <3>3. CASE g # w /\ h # w
      BY <1>1, <2>6, <3>1, <3>3 DEF Hands
    <3>4. QED
      BY <3>2, <3>3
  <2>7. QED
    BY <1>8, <2>1, <2>2, <2>4, <2>5, <2>6 DEF Hands
<1>12. Uncounted' = Uncounted
  <2>1. ASSUME NEW i \in Thread PROVE i \in Uncounted' <=> i \in Uncounted
    <3>1. CASE i = e.owner
      BY <1>4, <1>7, <1>8, <1>9, <3>1 DEF Uncounted
    <3>2. CASE i # e.owner
      BY <1>5, <1>7, <1>8, <1>9, <3>2 DEF Uncounted
    <3>3. QED
      BY <3>1, <3>2
  <2>2. Uncounted \subseteq Thread /\ Uncounted' \subseteq Thread
    BY DEF Uncounted
  <2>3. QED
    BY <2>1, <2>2
<1>13. QED
  BY <1>3, <1>5, <1>11, <1>12, HandlerOnly

\* The page is filled, and its thread runs again; the other faults stay as they are.
LEMMA FillPageInv ==
  ASSUME IInv, ~crashed, NEW h \in Handlers, FillPage(h) PROVE IInv'
<1>1. Control /\ Registration /\ Hands /\ Counting /\ Memories /\ Signal /\ CrashOnlyUnregistered
  BY DEF IInv
<1> DEFINE o == handling[h].owner
           p == handling[h].page
           x == Filling(Address(h))
           r == [mem[o] EXCEPT !.page[p] = x]
           y == IF h \in Workers THEN Again ELSE Idle
<1>2. /\ handling[h].stage = "fill" /\ mem' = [mem EXCEPT ![o] = r]
      /\ pc' = [pc EXCEPT ![o] = "loop"] /\ handling' = [handling EXCEPT ![h] = y]
      /\ suite' = suite /\ at' = at /\ bench' = bench /\ hps' = hps
      /\ sigbus' = sigbus /\ reported' = reported /\ taken' = taken /\ crashed' = crashed
      /\ iter' = iter /\ step' = step /\ cursor' = cursor
  BY DEF FillPage, Goto, run, bench
<1>3. /\ Busy(h) /\ o \in Thread /\ p \in Pages /\ pc[o] = "stopped" /\ mem[o].page[p] = Missing
  BY <1>2, StageBusy DEF Awaited, Stages
<1>4. x \in {Zero, Snap(0)} /\ y \in NotHandling
  BY NotBusy DEF Filling
<1>5. /\ bench \in Benchmarks /\ step[o] \in Nat /\ iter[o] \in Nat /\ cursor[o] \in Nat
      /\ Tidy(bench, step[o], iter[o], cursor[o], mem[o])
  BY <1>3, LoopFacts
<1> HIDE DEF o, p, x, y
<1>6. Tidy(bench, step[o], iter[o], cursor[o], r) /\ r.rw = mem[o].rw
  <2>1. p \in Pages /\ mem[o].page[p] = Missing /\ x \in Contents /\ x[1] # "work"
    BY <1>3, <1>4, PageFacts
  <2>2. r = [mem[o] EXCEPT !.page[p] = x]
    OBVIOUS
  <2> HIDE DEF r
  <2>3. QED
    BY <1>5, <2>1, <2>2, TidyFilled
<1> HIDE DEF r
<1>7. /\ pc \in [Thread -> Entering \cup Running \cup Leaving] /\ pc'[o] = "loop"
      /\ \A i \in Thread : i # o => pc'[i] = pc[i]
      /\ pc' \in [Thread -> Entering \cup Running \cup Leaving]
  BY <1>1, <1>2, <1>3 DEF Control, Running
<1>8. Together(Running) /\ Together(Running)' /\ ~Together(Leaving)
  <2>1. Together(Running) /\ ~Together(Leaving)
    BY <1>1, <1>3 DEF Control, Together, Entering, Running, Leaving
  <2>2. QED
    BY <1>7, <2>1 DEF Together, Running
<1>9. /\ mem = [i \in Thread |-> mem[i]] /\ mem'[o] = r
      /\ \A i \in Thread : i # o => mem'[i] = mem[i]
  BY <1>1, <1>2, <1>3 DEF Memories
<1>10. /\ handling \in [Handlers -> NotHandling \cup Handled] /\ handling'[h] = y
       /\ \A i \in Handlers : i # h => handling'[i] = handling[i]
       /\ handling' \in [Handlers -> NotHandling \cup Handled]
  BY <1>1, <1>2, <1>4 DEF Hands
<1>11. ~Busy(h)' /\ \A i \in Handlers : i # h => (Busy(i)' <=> Busy(i))
  BY <1>4, <1>10, NotBusy DEF Busy
<1>12. Control'
  <2>1. \A i \in Thread : /\ pc'[i] \in Entering \cup {"loop", "stopped"} => iter[i] =< Iterations
                          /\ pc'[i] = "configured" => i = 0 /\ bench \in Uffd
                          /\ pc'[i] = "stopped" => bench \in Uffd
    BY <1>1, <1>3, <1>7 DEF Control, Entering
  <2>2. QED
    BY <1>1, <1>2, <1>7, <1>8, <2>1 DEF Control
<1>13. /\ Joined' = Joined
       /\ \A i \in Thread : /\ pc'[i] = "setup" <=> pc[i] = "setup"
                            /\ pc'[i] = "configured" <=> pc[i] = "configured"
  BY <1>2, <1>3, <1>7 DEF Joined
<1>14. Registration'
  BY <1>1, <1>2, <1>13, ThreadFacts DEF Registration
<1>15. \A e \in hps.events : e.owner # o /\ e.owner \in Thread
  BY <1>1, <1>3 DEF Hands, Registration, FaultEvent, o
<1>16. \A i \in Handlers : Busy(i) /\ i # h => handling[i].owner # o /\ handling[i].owner \in Thread
  <2>1. \A i \in Handlers : Busy(i) => handling[i].owner \in Thread
    BY DEF Busy, Handled
  <2>2. QED
    BY <1>1, <1>3, <2>1 DEF Hands, o
<1>17. Hands'
  <2>1. \A e \in hps.events : Awaited(e.owner, e.page)'
    BY <1>1, <1>7, <1>9, <1>15 DEF Hands, Awaited
  <2>2. ASSUME NEW i \in Handlers, Busy(i)'
        PROVE  /\ Awaited(handling[i].owner, handling[i].page)'
               /\ i \in Thread => handling'[i].owner = i
    <3>1. /\ i # h /\ Busy(i) /\ handling'[i] = handling[i]
          /\ handling[i].owner # o /\ handling[i].owner \in Thread
      BY <1>10, <1>11, <1>16, <2>2
    <3>2. Awaited(handling[i].owner, handling[i].page) /\ (i \in Thread => handling[i].owner = i)
      BY <1>1, <3>1 DEF Hands
    <3>3. QED
      BY <1>7, <1>9, <3>1, <3>2 DEF Awaited
  <2>3. \A i \in Handlers : Busy(i)' => Busy(i) /\ handling'[i] = handling[i]
    BY <1>10, <1>11
  <2>4. QED
    BY <1>1, <1>2, <1>10, <2>1, <2>2, <2>3 DEF Hands
<1>18. Uncounted' = Uncounted
  BY <1>2, <1>10, <1>11 DEF Uncounted
<1>19. Counting'
  BY <1>1, <1>2, <1>8, <1>13, <1>18, ThreadFacts DEF Counting
<1>20. Memories'
  <2>1. \A i \in Thread : /\ Tidy(bench, step[i], iter[i], cursor[i], mem'[i])
                          /\ (bench \in Uffd /\ pc'[i] \notin {"setup", "configured"})
                                => 0 .. Half - 1 \subseteq mem'[i].rw
    BY <1>1, <1>6, <1>9, <1>13 DEF Memories
  <2>2. mem' = [i \in Thread |-> mem'[i]]
    BY <1>2, <1>9
  <2>3. QED
    BY <1>2, <2>1, <2>2 DEF Memories
<1>21. Signal' /\ CrashOnlyUnregistered'
  <2>1. Signal'
    BY <1>1, <1>2, <1>13 DEF Signal
  <2>2. QED
    BY <1>1, <1>2, <2>1 DEF CrashOnlyUnregistered
<1>22. QED
  BY <1>12, <1>14, <1>17, <1>19, <1>20, <1>21 DEF IInv

\* A thread touches a missing page of a registered memory: one more fault, in one
\* hand and not counted; without a signal handler it is the end of the process, and
\* then nobody has run BM_UFFD_SIGBUS_Eager.
LEMMA FaultInv ==
  ASSUME IInv, ~crashed, NEW t \in Thread, Fault(t) PROVE IInv'
<1>1. Control /\ Registration /\ Hands /\ Counting /\ Memories /\ Signal /\ CrashOnlyUnregistered
  BY DEF IInv
<1>2. /\ Operating(t, {"copy", "read", "fill"}) /\ Ahead(t) # {} /\ Faults(t)
      /\ pc' = [pc EXCEPT ![t] = "stopped"] /\ taken' = taken + 1
      /\ suite' = suite /\ at' = at /\ bench' = bench
      /\ sigbus' = sigbus /\ reported' = reported
      /\ iter' = iter /\ step' = step /\ cursor' = cursor /\ mem' = mem
  BY DEF Fault, Goto, run, bench
<1>0. PICK a : a = Here(t)
  OBVIOUS
<1>3. pc[t] = "loop" /\ a \in Pages /\ a < mem[t].size
  BY <1>0, <1>2, AccessFacts
<1>4. bench \in Uffd /\ t \in hps.mappings /\ mem[t].page[a] = Missing
  BY <1>0, <1>2 DEF Faults
<1>5. /\ pc \in [Thread -> Entering \cup Running \cup Leaving] /\ pc'[t] = "stopped"
      /\ \A i \in Thread : i # t => pc'[i] = pc[i]
      /\ pc' \in [Thread -> Entering \cup Running \cup Leaving]
  BY <1>1, <1>2 DEF Control, Running
<1>6. Together(Running) /\ Together(Running)' /\ ~Together(Leaving)
  <2>1. Together(Running) /\ ~Together(Leaving)
    BY <1>1, <1>3 DEF Control, Together, Entering, Running, Leaving
  <2>2. QED
    BY <1>5, <2>1 DEF Together, Running
<1>7. /\ Joined' = Joined
      /\ \A i \in Thread : /\ pc'[i] = "setup" <=> pc[i] = "setup"
                           /\ pc'[i] = "configured" <=> pc[i] = "configured"
  BY <1>2, <1>3, <1>5 DEF Joined
<1>8. hps.kind = Kind(bench) /\ pc[0] # "setup" /\ pc'[0] # "setup" /\ 0 \in Thread
  <2>1. 0 \in Thread
    BY ThreadFacts
  <2>2. pc[0] # "setup" /\ pc'[0] # "setup"
    BY <1>6, <2>1 DEF Together, Running
  <2>3. QED
    BY <1>1, <1>4, <2>1, <2>2 DEF Registration
<1>9. hps \in HandlerType /\ taken \in Nat
  BY <1>1 DEF Registration, HandlerType, Counting
\* Nobody has a fault of thread t.
<1>10. \A e \in hps.events : e.owner # t /\ e.owner \in Thread
  BY <1>1, <1>3 DEF Hands, Registration, FaultEvent, Awaited
<1>11. \A i \in Handlers : Busy(i) => /\ handling[i].owner # t /\ handling[i].owner \in Thread
                                      /\ i \in Thread => handling[i].owner = i
  <2>1. \A i \in Handlers : Busy(i) => handling[i].owner \in Thread
    BY DEF Busy, Handled
  <2>2. QED
    BY <1>1, <1>3, <2>1 DEF Hands, Awaited
<1>12. t \notin Uncounted /\ IsFiniteSet(Uncounted) /\ Cardinality(Uncounted) \in Nat
  <2>1. t \notin Uncounted /\ Uncounted \subseteq Thread
    BY <1>10, <1>11 DEF Uncounted
  <2>2. QED
    BY <2>1, ThreadFacts, FS_Subset, FS_CardinalityType
\* The faults there were are still awaited, and so is this one.
<1>13. ASSUME NEW i \in Thread, NEW q, i # t, Awaited(i, q) PROVE Awaited(i, q)'
  BY <1>2, <1>5, <1>13 DEF Awaited
<1>14. Awaited(t, a)'
  BY <1>2, <1>3, <1>4, <1>5 DEF Awaited
<1>15. Control' /\ Memories' /\ Signal'
  <2>1. \A i \in Thread : /\ pc'[i] \in Entering \cup {"loop", "stopped"} => iter[i] =< Iterations
                          /\ pc'[i] = "configured" => i = 0 /\ bench \in Uffd
                          /\ pc'[i] = "stopped" => bench \in Uffd
    BY <1>1, <1>3, <1>4, <1>5 DEF Control, Entering
  <2>2. crashed' \in BOOLEAN
    BY <1>1 DEF Fault, Control
  <2>3. Control'
    BY <1>1, <1>2, <1>5, <1>6, <2>1, <2>2 DEF Control
  <2>4. Memories' /\ Signal'
    BY <1>1, <1>2, <1>7 DEF Memories, Signal
  <2>5. QED
    BY <2>3, <2>4
\* The rest, once the fault is in its hand.
<1>16. ASSUME hps' \in HandlerType, hps'.kind = hps.kind, hps'.mappings = hps.mappings,
              hps'.faults = hps.faults, Hands', Uncounted' = Uncounted \cup {t},
              CrashOnlyUnregistered'
       PROVE  IInv'
  <2>1. Registration'
    BY <1>1, <1>2, <1>7, <1>8, <1>16 DEF Registration, HandlerType
  <2>2. Cardinality(Uncounted)' = Cardinality(Uncounted) + 1
    BY <1>12, <1>16, FS_AddElement
  <2>3. Counting'
    <3>1. taken = hps.faults + Cardinality(Uncounted) /\ hps.faults \in Nat
      BY <1>1, <1>4, <1>8, <1>9 DEF Counting, HandlerType
    <3>2. taken + 1 = hps'.faults + Cardinality(Uncounted)' /\ taken + 1 \in Nat
      BY <1>9, <1>12, <1>16, <2>2, <3>1
    <3>3. reported = NONE
      BY <1>1, <1>6 DEF Counting
    <3>4. QED
      BY <1>2, <1>8, <3>2, <3>3 DEF Counting
  <2>4. QED
    BY <1>15, <1>16, <2>1, <2>3 DEF IInv
<1>17. CASE hps.kind = "sigbus"
  <2> DEFINE x == [stage |-> "find", owner |-> t, page |-> a]
  <2>1. handling' = [handling EXCEPT ![t] = x] /\ crashed' = ~sigbus /\ hps' = hps
    BY <1>0, <1>17 DEF Fault
  <2>2. x \in Handled /\ x.owner = t /\ x.page = a /\ x.stage = "find"
    BY <1>3 DEF Handled, Stages
  <2> HIDE DEF x
  <2>3. /\ handling \in [Handlers -> NotHandling \cup Handled] /\ t \in Handlers
        /\ handling' \in [Handlers -> NotHandling \cup Handled] /\ handling'[t] = x
        /\ \A i \in Handlers : i # t => handling'[i] = handling[i]
    BY <1>1, <2>1, <2>2 DEF Hands, Handlers
  <2>4. ~Busy(t) /\ Busy(t)' /\ \A i \in Handlers : i # t => (Busy(i)' <=> Busy(i))
    BY <1>11, <2>2, <2>3 DEF Busy
  <2>5. Hands'
    <3>1. \A e \in hps.events : Awaited(e.owner, e.page)'
      BY <1>1, <1>10, <1>13 DEF Hands
    <3>2. ASSUME NEW i \in Handlers, Busy(i)'
          PROVE  /\ Awaited(handling[i].owner, handling[i].page)'
                 /\ i \in Thread => handling'[i].owner = i
      <4>1. CASE i = t
        BY <1>2, <1>14, <2>2, <2>3, <4>1 DEF Awaited
      <4>2. CASE i # t
        <5>1. /\ Awaited(handling[i].owner, handling[i].page) /\ handling'[i] = handling[i]
              /\ handling[i].owner \in Thread /\ handling[i].owner # t
              /\ i \in Thread => handling[i].owner = i
          BY <1>1, <1>11, <2>3, <2>4, <3>2, <4>2 DEF Hands
        <5>2. QED
          BY <1>2, <1>5, <5>1 DEF Awaited
      <4>3. QED
        BY <4>1, <4>2
    <3>3. \A i \in Handlers : i # t /\ Busy(i)' =>
             Busy(i) /\ handling'[i] = handling[i] /\ handling'[i].owner # t
      BY <1>11, <2>3, <2>4
    <3>4. \A e \in hps.events, i \in Handlers : Busy(i)' => handling'[i].owner # e.owner
      BY <1>1, <1>10, <2>2, <2>3, <3>3 DEF Hands
    <3>5. ASSUME NEW g \in Handlers, NEW i \in Handlers, Busy(g)', Busy(i)',
                 handling'[g].owner = handling'[i].owner
          PROVE  g = i
      <4>1. CASE g = t \/ i = t
        BY <2>2, <2>3, <3>3, <3>5, <4>1
      <4>2. CASE g # t /\ i # t
        BY <1>1, <3>3, <3>5, <4>2 DEF Hands
      <4>3. QED
        BY <4>1, <4>2
    <3>6. QED
      BY <1>1, <2>1, <2>3, <3>1, <3>2, <3>4, <3>5 DEF Hands
  <2>6. Uncounted' = Uncounted \cup {t}
    <3>1. t \in Uncounted'
      BY <2>2, <2>3, <2>4 DEF Uncounted
    <3>2. ASSUME NEW i \in Thread, i # t PROVE i \in Uncounted' <=> i \in Uncounted
      BY <2>1, <2>2, <2>3, <2>4, <3>2 DEF Uncounted
    <3>3. Uncounted \subseteq Thread /\ Uncounted' \subseteq Thread
      BY DEF Uncounted
    <3>4. QED
      BY <3>1, <3>2, <3>3
  <2>7. CrashOnlyUnregistered'
    <3> SUFFICES ASSUME crashed'
                 PROVE  /\ bench = "UFFD_SIGBUS_Lazy"
                        /\ \A i \in 1 .. at : suite[i] # "UFFD_SIGBUS_Eager"
      BY <1>2 DEF CrashOnlyUnregistered
    <3>1. ~sigbus
      BY <2>1
    <3>2. bench \in Sigbus
      BY <1>8, <1>17 DEF Kind
    <3>3. bench # "UFFD_SIGBUS_Eager"
      BY <1>1, <1>3, <3>1 DEF Signal
    <3>4. \A i \in 1 .. at - 1 : suite[i] # "UFFD_SIGBUS_Eager"
      BY <1>1, <3>1 DEF Signal
    <3>5. \A i \in 1 .. at : i = at \/ i \in 1 .. at - 1
      BY <1>1, BenchFacts DEF Control
    <3>6. QED
      BY <3>2, <3>3, <3>4, <3>5 DEF Sigbus, bench
  <2>8. QED
    BY <1>9, <1>16, <2>1, <2>5, <2>6, <2>7
<1>18. CASE hps.kind # "sigbus"
  <2> DEFINE d == [owner |-> t, page |-> a]
  <2>1. hps' = [hps EXCEPT !.events = hps.events \cup {d}] /\ handling' = handling /\ crashed' = crashed
    BY <1>0, <1>18 DEF Fault
  <2>2. d \in FaultEvent /\ d.owner = t /\ d.page = a
    BY <1>3 DEF FaultEvent
  <2> HIDE DEF d
  <2>3. /\ hps' \in HandlerType /\ hps'.kind = hps.kind /\ hps'.mappings = hps.mappings
        /\ hps'.faults = hps.faults /\ hps'.events = hps.events \cup {d}
    BY <1>9, <2>1, <2>2 DEF HandlerType
  <2>4. \A i \in Handlers : Busy(i)' <=> Busy(i)
    BY <2>1 DEF Busy
  <2>5. Hands'
    <3>1. \A e \in hps'.events : Awaited(e.owner, e.page)'
      BY <1>1, <1>10, <1>13, <1>14, <2>2, <2>3 DEF Hands
    <3>2. ASSUME NEW i \in Handlers, Busy(i)'
          PROVE  /\ Awaited(handling[i].owner, handling[i].page)'
                 /\ i \in Thread => handling'[i].owner = i
      <4>1. /\ Awaited(handling[i].owner, handling[i].page) /\ handling'[i] = handling[i]
            /\ handling[i].owner \in Thread /\ handling[i].owner # t
            /\ i \in Thread => handling[i].owner = i
        BY <1>1, <1>11, <2>1, <2>4, <3>2 DEF Hands
      <4>2. QED
        BY <1>2, <1>5, <4>1 DEF Awaited
    <3>3. \A e, c \in hps'.events : e.owner = c.owner => e = c
      BY <1>1, <1>10, <2>2, <2>3 DEF Hands
    <3>4. \A e \in hps'.events, i \in Handlers : Busy(i)' => handling'[i].owner # e.owner
      BY <1>1, <1>11, <2>1, <2>2, <2>3, <2>4 DEF Hands
    <3>5. QED
      BY <1>1, <2>1, <2>4, <3>1, <3>2, <3>3, <3>4 DEF Hands
  <2>6. Uncounted' = Uncounted \cup {t}
    <3>1. t \in Uncounted'
      BY <2>2, <2>3 DEF Uncounted
    <3>2. ASSUME NEW i \in Thread, i # t PROVE i \in Uncounted' <=> i \in Uncounted
      BY <2>1, <2>2, <2>3, <2>4, <3>2 DEF Uncounted
    <3>3. Uncounted \subseteq Thread /\ Uncounted' \subseteq Thread
      BY DEF Uncounted
    <3>4. QED
      BY <3>1, <3>2, <3>3
  <2>7. CrashOnlyUnregistered'
    BY <1>1, <1>2, <2>1 DEF CrashOnlyUnregistered
  <2>8. QED
    BY <1>16, <2>3, <2>5, <2>6, <2>7
<1>19. QED
  BY <1>17, <1>18

------------------------------------------------------------------------------
(* The invariant *)

\* Nothing happens: the process was killed, or the suite is done.
LEMMA StutterInv ==
  ASSUME IInv, UNCHANGED vars PROVE IInv'
<1>1. Control /\ Registration /\ Hands /\ Counting /\ Memories /\ Signal /\ CrashOnlyUnregistered
  BY DEF IInv
<1>2. /\ suite' = suite /\ at' = at /\ bench' = bench /\ hps' = hps /\ handling' = handling
      /\ sigbus' = sigbus /\ reported' = reported /\ pc' = pc
      /\ taken' = taken /\ crashed' = crashed /\ iter' = iter /\ step' = step
      /\ cursor' = cursor /\ mem' = mem
  BY DEF vars, run, thread, handler, bench
<1>3. Uncounted' = Uncounted
  BY <1>2 DEF Uncounted, Busy
<1>4. Hands'
  BY <1>1, <1>2 DEF Hands, Busy, Awaited
<1>5. hps \in HandlerType
  BY <1>1 DEF Registration, HandlerType
<1>6. UNCHANGED <<run, thread, sigbus, reported, taken>>
  BY DEF vars, handler
<1>7. QED
  BY <1>2, <1>3, <1>4, <1>5, <1>6, HandlerOnly

\* The process starts with its first benchmark and no handler.
LEMMA InitIInv == Init => IInv
<1> SUFFICES ASSUME Init PROVE IInv
  OBVIOUS
<1>1. /\ suite \in Suites /\ at = 1 /\ pc = [t \in Thread |-> "setup"]
      /\ iter = [t \in Thread |-> 1] /\ step = [t \in Thread |-> 1]
      /\ cursor = [t \in Thread |-> 0] /\ mem = [t \in Thread |-> FreshMemory(bench)]
      /\ hps = NewHandler(NONE) /\ handling = [h \in Handlers |-> Idle]
      /\ sigbus = FALSE /\ reported = NONE /\ crashed = FALSE /\ taken = 0
  BY DEF Init, Handlers
<1>2. at \in 1 .. Len(suite)
  <2>1. suite \in Seq(Benchmarks) /\ suite # <<>>
    BY <1>1, FaultSpeedAssumption DEF Benchmarks
  <2>2. QED
    BY <1>1, <2>1
<1>3. bench \in Benchmarks
  BY <1>1, <1>2, BenchFacts
<1>4. 0 \in Thread /\ Iterations \in Nat /\ Iterations >= 1
  BY ThreadFacts
<1>5. Control
  <2>1. 1 \in 1 .. Len(Body(bench)) /\ 0 \in 0 .. WORK_SIZE
    BY BodyCopying, BodyLazy, SizeFacts
  <2>2. pc \in [Thread -> Entering \cup Running \cup Leaving] /\ Together(Entering)
    BY <1>1 DEF Entering, Together
  <2>3. \A t \in Thread : /\ iter[t] \in 1 .. Iterations + 1 /\ iter[t] =< Iterations
                          /\ step[t] \in 1 .. Len(Body(bench)) /\ pc[t] = "setup"
    BY <1>1, <1>4, <2>1
  <2>4. iter \in [Thread -> Nat] /\ step \in [Thread -> Nat] /\ cursor \in [Thread -> 0 .. WORK_SIZE]
    BY <1>1, <2>1
  <2>5. QED
    BY <1>1, <1>2, <2>2, <2>3, <2>4 DEF Control
<1>6. Registration
  <2>1. Joined = {} /\ pc[0] = "setup"
    BY <1>1, <1>4 DEF Joined
  <2>2. NewHandler(NONE) \in HandlerType /\ NewHandler(NONE).mappings = {}
    BY DEF NewHandler, HandlerType
  <2>3. QED
    BY <1>1, <2>1, <2>2 DEF Registration, HandlerType
<1>7. Hands
  <2>1. handling \in [Handlers -> NotHandling] /\ \A h \in Handlers : ~Busy(h)
    BY <1>1, NotBusy DEF Busy
  <2>2. hps.events = {}
    BY <1>1 DEF NewHandler
  <2>3. QED
    BY <2>1, <2>2 DEF Hands
<1>8. Counting
  BY <1>1, <1>4 DEF Counting
<1>9. Memories
  <2>1. \A t \in Thread : Tidy(bench, step[t], iter[t], cursor[t], mem[t]) /\ pc[t] = "setup"
    BY <1>1, <1>3, TidyNew
  <2>2. QED
    BY <1>1, <2>1 DEF Memories
<1>10. Signal /\ CrashOnlyUnregistered
  BY <1>1 DEF Signal, CrashOnlyUnregistered
<1>11. QED
  BY <1>5, <1>6, <1>7, <1>8, <1>9, <1>10 DEF IInv

\* The invariant is inductive: one step per action.
LEMMA NextIInv ==
  ASSUME IInv, [Next]_vars PROVE IInv'
<1>1. ASSUME ~crashed, NEW t \in Thread, ThreadStep(t) PROVE IInv'
  <2>1. CASE Configure(t)
    BY <1>1, <2>1, ConfigureInv
  <2>2. CASE Add(t)
    BY <1>1, <2>2, AddInv
  <2>3. CASE Prepare(t)
    BY <1>1, <2>3, PrepareInv
  <2>4. CASE ResizeMemory(t)
    BY <1>1, <2>4, ResizeInv
  <2>5. CASE Touch(t)
    BY <1>1, <2>5, TouchInv
  <2>6. CASE Fault(t)
    BY <1>1, <2>6, FaultInv
  <2>7. CASE OpDone(t)
    BY <1>1, <2>7, OpDoneInv
  <2>8. CASE Report(t)
    BY <1>1, <2>8, ReportInv
  <2>9. CASE Remove(t)
    BY <1>1, <2>9, RemoveInv
  <2>10. QED
    BY <1>1, <2>1, <2>2, <2>3, <2>4, <2>5, <2>6, <2>7, <2>8, <2>9 DEF ThreadStep
<1>2. ASSUME StartKeepRunning PROVE IInv'
  BY <1>2, StartInv
<1>3. ASSUME FinishKeepRunning PROVE IInv'
  BY <1>3, FinishInv
<1>4. ASSUME ~crashed, NextBenchmark PROVE IInv'
  BY <1>4, NextBenchmarkInv
<1>5. ASSUME ~crashed, NEW w \in Workers, EnterRead(w) \/ ReadEvent(w) PROVE IInv'
  BY <1>5, EnterReadInv, ReadEventInv
<1>6. ASSUME ~crashed, NEW h \in Workers \cup Thread, HandleStep(h) PROVE IInv'
  <2>1. h \in Handlers
    BY DEF Handlers
  <2>2. QED
    BY <1>6, <2>1, FindMappingInv, CheckBoundsInv, FillPageInv DEF HandleStep
<1>7. ASSUME UNCHANGED vars PROVE IInv'
  BY <1>7, StutterInv
<1>8. QED
  BY <1>1, <1>2, <1>3, <1>4, <1>5, <1>6, <1>7 DEF Next, Finished

\* IInv holds in every state.
THEOREM Invariance == Spec => []IInv
<1>1. IInv /\ [Next]_vars => IInv'
  BY NextIInv
<1>2. QED
  BY InitIInv, <1>1, PTL DEF Spec

------------------------------------------------------------------------------
(* The properties *)

\* Threads, memories and handler stay in their types for any sizes, threads and
\* workers; in particular no operation goes past WORK_SIZE (faultspeed.cpp:348-421).
THEOREM TypeCorrect == Spec => []TypeOK
<1>1. IInv => TypeOK
  <2> SUFFICES ASSUME IInv PROVE TypeOK
    OBVIOUS
  <2>1. Control /\ Registration /\ Hands /\ Memories
    BY DEF IInv
  <2>2. suite \in Suites /\ at \in DOMAIN suite
    <3>1. suite \in Seq(Benchmarks)
      BY <2>1, FaultSpeedAssumption DEF Control, Benchmarks
    <3>2. QED
      BY <2>1, <3>1 DEF Control
  <2>3. /\ pc \in [Thread -> {"setup", "configured", "ready", "loop", "stopped",
                              "finished", "report", "done"}]
    BY <2>1 DEF Control, Entering, Running, Leaving
  <2>4. /\ iter \in [Thread -> 1 .. Iterations + 1] /\ step \in [Thread -> 1 .. Len(Body(bench))]
        /\ cursor \in [Thread -> 0 .. WORK_SIZE]
    BY <2>1 DEF Control
  <2>5. \A t \in Thread : /\ mem[t].size \in {0, SNAP_SIZE, WORK_SIZE, WMEM_SIZE \div 2}
                          /\ mem[t].rw \subseteq 0 .. (WMEM_SIZE \div 2) - 1
    BY <2>1 DEF Memories, Tidy, Sound, Half
  <2>6. /\ hps.kind \in {NONE, "workers", "sigbus"} /\ hps.mappings \subseteq Thread
        /\ \A e \in hps.events : e.owner \in Thread /\ e.page \in Pages
    BY <2>1 DEF Registration, FaultEvent
  <2>7. \A h \in Workers \cup Thread :
          handling[h] \in NotHandling \/ handling[h].stage \in {"find", "check", "fill"}
    BY <2>1 DEF Hands, Handlers, Handled, Stages
  <2>8. QED
    BY <2>2, <2>3, <2>4, <2>5, <2>6, <2>7 DEF TypeOK
<1>2. QED
  BY Invariance, <1>1, PTL

\* Whatever the suite and the interleaving, only the SIGBUS of BM_UFFD_SIGBUS_Lazy
\* without BM_UFFD_SIGBUS_Eager before it kills the process: no access is to protected
\* memory, and handleOne finds every mapping and every bound (faultspeed.cpp:499-523, 829).
THEOREM NoOtherCrash == Spec => []CrashOnlyUnregistered
<1>1. IInv => CrashOnlyUnregistered
  BY DEF IInv
<1>2. QED
  BY Invariance, <1>1, PTL

\* No invocation reads what an earlier one wrote, except under BM_NoProtection.
THEOREM InvocationsIsolated == Spec => []Isolated
<1>1. IInv => Isolated
  <2> SUFFICES ASSUME IInv, NEW t \in Thread, Op(t).op = "read", bench # "NoProtection",
                      NEW p \in 0 .. mem[t].size - 1, mem[t].page[p][1] = "work"
               PROVE  mem[t].page[p][2] = iter[t]
    BY DEF Isolated
  <2>1. /\ bench \in Benchmarks /\ step[t] \in 1 .. Len(Body(bench)) /\ step[t] \in Nat
        /\ Tidy(bench, step[t], iter[t], cursor[t], mem[t])
    BY LoopFacts
  <2>2. Body(bench)[step[t]].op = "read"
    BY DEF Op
  <2>3. step[t] > 1 /\ (step[t] = 2 => bench \in Lazy)
    BY <2>1, <2>2, AccessSteps
  <2>4. p \in Pages
    BY <2>1, <2>2, SpanBounds DEF Tidy
  <2>5. step[t] > 2 \/ (step[t] = 2 /\ bench \in Lazy)
    BY <2>1, <2>3
  <2>6. QED
    BY <2>1, <2>4, <2>5 DEF Tidy, Own
<1>2. QED
  BY Invariance, <1>1, PTL

\* The benchmarks that copy the snapshot read it, page for page, until they overwrite it.
THEOREM SnapshotCopied == Spec => []SnapshotRestored
<1>1. IInv => SnapshotRestored
  <2> SUFFICES ASSUME IInv, bench \notin Lazy, NEW t \in Thread, Op(t).op = "read",
                      step[t] > Len(Restore(bench)), NEW p \in 0 .. SNAP_SIZE - 1
               PROVE  mem[t].page[p] = Snap(p) \/ (p >= WORK_FILL_START /\ Fills(t) > 0)
    BY DEF SnapshotRestored, Restored
  <2>1. /\ bench \in Benchmarks /\ step[t] \in 1 .. Len(Body(bench)) /\ step[t] \in Nat
        /\ Kept(bench, step[t], cursor[t], mem[t])
    BY LoopFacts DEF Tidy
  <2>2. step[t] > 2 /\ step[t] # 4
    <3>1. Body(bench)[4].op = "fill" /\ Len(Restore(bench)) = 2
      BY BodyCopying DEF FillWork
    <3>2. Body(bench)[step[t]].op = "read"
      BY DEF Op
    <3>3. QED
      BY <3>1, <3>2
  <2>3. CASE step[t] = 3
    BY <2>1, <2>3 DEF Kept
  <2>4. CASE step[t] >= 5 /\ p < WORK_FILL_START
    BY <2>1, <2>4 DEF Kept
  <2>5. CASE step[t] >= 5 /\ ~ (p < WORK_FILL_START)
    <3> DEFINE S == {i \in 1 .. step[t] - 1 : Body(bench)[i] = FillWork}
    <3>1. 4 \in S
      <4>1. Body(bench)[4] = FillWork
        BY BodyCopying
      <4>2. QED
        BY <2>1, <2>5, <4>1
    <3>2. IsFiniteSet(S)
      <4>1. IsFiniteSet(1 .. step[t] - 1)
        BY <2>1, FS_Interval, SMTT(60)
      <4>2. S \subseteq 1 .. step[t] - 1
        OBVIOUS
      <4>3. QED
        BY <4>1, <4>2, FS_Subset
    <3>3. Fills(t) = Cardinality(S)
      BY DEF Fills
    <3> HIDE DEF S
    <3>4. Cardinality(S) \in Nat /\ Cardinality(S) # 0
      BY <3>1, <3>2, FS_EmptySet, FS_CardinalityType
    <3>5. p >= WORK_FILL_START
      BY <2>5, SizeFacts
    <3>6. QED
      BY <3>3, <3>4, <3>5
  <2>6. QED
    BY <2>1, <2>2, <2>3, <2>4, <2>5
<1>2. QED
  BY Invariance, <1>1, PTL

\* The reported counter is the number of faults the threads of the run took, for any
\* number of threads and workers (faultspeed.cpp:519, 756, 774).
THEOREM FaultsCounted == Spec => []FaultsReportedExact
<1>1. IInv => FaultsReportedExact
  BY DEF IInv, Counting, FaultsReportedExact
<1>2. QED
  BY Invariance, <1>1, PTL

\* The handler works without the lock on memory that stays registered and whose thread
\* is stopped (faultspeed.cpp:503-535).
THEOREM LiveMemory == Spec => []HandlerSeesLiveMemory
<1>1. IInv => HandlerSeesLiveMemory
  <2> SUFFICES ASSUME IInv, NEW h \in Workers \cup Thread, handling[h].stage \in {"check", "fill"}
               PROVE  handling[h].owner \in hps.mappings /\ pc[handling[h].owner] = "stopped"
    BY DEF HandlerSeesLiveMemory
  <2>1. handling[h].owner \in Thread /\ pc[handling[h].owner] = "stopped"
    BY StageBusy DEF Handlers, Stages, Awaited
  <2>2. QED
    BY <2>1 DEF IInv, Control, Registration, Joined
<1>2. QED
  BY Invariance, <1>1, PTL

\* The handler object is replaced only when nobody uses it (faultspeed.cpp:589-612).
THEOREM ReplacedIdle == Spec => HandlerReplacedIdle
<1> DEFINE Unused == /\ hps.mappings = {} /\ hps.events = {}
                     /\ \A h \in Workers \cup Thread : handling[h] \in NotHandling
<1>1. ASSUME IInv, [Next]_vars, hps'.kind # hps.kind PROVE Unused
  <2>1. hps \in HandlerType
    BY <1>1 DEF IInv, Registration, HandlerType
  <2>2. PICK t \in Thread : Configure(t) \/ Add(t)
    <3>1. ASSUME NEW t \in Thread, ThreadStep(t) PROVE Configure(t) \/ Add(t)
      <4>1. CASE Prepare(t) \/ ResizeMemory(t) \/ Touch(t) \/ OpDone(t) \/ Report(t)
        BY <1>1, <4>1 DEF Prepare, ResizeMemory, Touch, OpDone, Report, handler
      <4>2. CASE Fault(t)
        BY <1>1, <2>1, <4>2 DEF Fault, HandlerType
      <4>3. CASE Remove(t)
        BY <1>1, <2>1, <4>3 DEF Remove, HandlerType
      <4>4. QED
        BY <3>1, <4>1, <4>2, <4>3 DEF ThreadStep
    <3>2. ~StartKeepRunning /\ ~FinishKeepRunning /\ ~NextBenchmark
      BY <1>1 DEF StartKeepRunning, FinishKeepRunning, NextBenchmark, handler
    <3>3. \A w \in Workers : ~EnterRead(w) /\ ~ReadEvent(w)
      BY <1>1, <2>1 DEF EnterRead, ReadEvent, HandlerType
    <3>4. \A h \in Workers \cup Thread : ~HandleStep(h)
      BY <1>1, <2>1 DEF HandleStep, FindMapping, CheckBounds, FillPage, HandlerType
    <3>5. ~UNCHANGED vars
      BY <1>1 DEF vars, handler
    <3>6. QED
      BY <1>1, <3>1, <3>2, <3>3, <3>4, <3>5 DEF Next, Finished
  <2>3. bench \in Uffd /\ pc[t] \in {"setup", "configured"}
    BY <2>2 DEF Configure, Add
  <2>4. Together(Entering)
    BY <1>1, <2>3 DEF IInv, Control, Together, Entering, Running, Leaving
  <2>5. /\ uffdHandler(bench).kind = Kind(bench) /\ uffdHandler(bench) \in HandlerType
        /\ hps.kind # Kind(bench) => Joined = {}
    BY <1>1, <2>3, <2>4, HandlerFound
  <2>6. hps'.kind = Kind(bench)
    BY <2>2, <2>5 DEF Configure, Add, HandlerType
  <2>7. hps.mappings = {}
    BY <1>1, <2>5, <2>6 DEF IInv, Registration
  <2>8. \A i \in Thread : pc[i] # "stopped"
    BY <2>4 DEF Together, Entering
  <2>9. QED
    BY <1>1, <2>7, <2>8, QuietFacts DEF Handlers
<1>2. IInv /\ [Next]_vars => [hps'.kind # hps.kind => Unused]_vars
  BY <1>1
<1>3. QED
  BY Invariance, <1>2, PTL DEF Spec, HandlerReplacedIdle
=============================================================================
