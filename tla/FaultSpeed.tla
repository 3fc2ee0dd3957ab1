----------------------------- MODULE FaultSpeed -----------------------------
(***************************************************************************)
(* faultspeed.cpp: benchmarks of ways to give a function instance its      *)
(* memory again for each invocation.  Every benchmark runs its body in     *)
(* several threads; each thread owns one WMemory, and invocation after     *)
(* invocation restores it from the shared snapshot, reads it, writes it,   *)
(* grows it, reads and writes it again.  In the UFFD benchmarks the pages  *)
(* of all threads are filled on demand by one UffdHandler: a touch of a    *)
(* missing page stops the thread, and a worker thread of the handler reads *)
(* the event, looks the mapping up, and has the kernel fill the page and   *)
(* wake the thread.  In the SIGBUS variants the faulting thread does the   *)
(* handler's work itself, in a signal handler that BM_UFFD_SIGBUS_Eager    *)
(* registers for the whole process.                                        *)
(*                                                                         *)
(* One behaviour is one execution of the program: the benchmarks of a      *)
(* suite one after the other, in one process.  What they share, the        *)
(* handler object and the signal handler, is replaced or found as the      *)
(* earlier ones left it.  Threads of the benchmark library meet at a       *)
(* barrier before the first and after the last iteration of a benchmark.   *)
(***************************************************************************)
EXTENDS WMemory, Sequences, FiniteSets

CONSTANTS Suites,       \* the selections of benchmarks that are run
          Threads,      \* number of benchmark threads, 0 .. Threads - 1
          Workers,      \* worker threads of the UffdHandler
          Iterations,   \* iterations of each thread
          NONE          \* nullptr, and "nothing yet"

(* The order of the BENCHMARK registrations.  A run of the program executes *)
(* those a filter selects, each once for every number of threads.          *)
Registered == <<"NoProtection", "FullNewMapping", "ReuseMapping",
                "ReuseAndDontneed_0", "ReuseAndDontneed_1", "UFFD_Eager",
                "UFFD_Lazy", "UFFD_SIGBUS_Eager", "UFFD_SIGBUS_Lazy">>

ASSUME FaultSpeedAssumption ==
    /\ \A s \in Suites :
         /\ s # <<>> /\ s \in Seq({Registered[k] : k \in DOMAIN Registered})
         /\ \A i, j \in DOMAIN s, k, l \in DOMAIN Registered :
              (i < j /\ s[i] = Registered[k] /\ s[j] = Registered[l]) => k =< l
    /\ {Threads, Iterations} \subseteq Nat \ {0}
    /\ Workers # {} /\ Workers \cap (0 .. Threads - 1) = {}

VARIABLES suite,      \* the selected benchmarks
          at,         \* the one that runs
          pc,         \* where each thread is
          iter,       \* its iteration, from 1
          step,       \* the operation of the body it executes
          cursor,     \* the next page that operation touches
          mem,        \* func, the thread's WMemory
          hps,        \* handlerPtrStorage(): the UffdHandler
          handling,   \* what each execution of handleOne is doing
          sigbus,     \* the signal handler is registered
          reported,   \* counter "UFFD_Faults" of the run
          crashed,    \* killed by a signal, or std::terminate
          taken       \* history: page faults that threads took in the run

run == <<suite, at>>
thread == <<pc, iter, step, cursor, mem>>
handler == <<hps, handling, sigbus>>
vars == <<run, thread, handler, reported, crashed, taken>>

bench == suite[at]
Thread == 0 .. Threads - 1
Lazy == {"UFFD_Lazy", "UFFD_SIGBUS_Lazy"}
Sigbus == {"UFFD_SIGBUS_Eager", "UFFD_SIGBUS_Lazy"}
Uffd == Lazy \cup Sigbus \cup {"UFFD_Eager"}

(* handleOne is not executing: a thread of the benchmark runs its body, a   *)
(* worker sleeps in readEvent, is on the way to it, or reads no more.       *)
At(stage) == [stage |-> stage, owner |-> 0, page |-> 0]
Idle == At("idle")
Again == At("again")
Gone == At("gone")
NotHandling == {Idle, Again, Gone}

(* A new UffdHandler; its kind says who handles the faults, the workers it *)
(* starts or the faulting threads.                                         *)
NewHandler(kind) ==
    [kind |-> kind,
     mappings |-> {},     \* threads whose memory is registered
     snapshot |-> NONE,   \* the size of the snapshot, or nullptr
     faults |-> 0,
     events |-> {}]       \* faults the kernel has queued on its userfaultfd

(* Reservations do not overlap, and none begins below WMEM_SIZE: mmap      *)
(* places them far above the first megabytes of the address space.         *)
Base(t) == (t + 1) * WMEM_SIZE

----------------------------------------------------------------------------
(* The body of each benchmark: what one iteration does.                    *)

Resize(n) == [op |-> "resize", size |-> n]
Copy == [op |-> "copy", size |-> 0]
SideEffect == [op |-> "read", size |-> 0]
FillWork == [op |-> "fill", size |-> 0]

Restore(b) ==
    IF b \in Lazy THEN <<Resize(0), SideEffect, Resize(SNAP_SIZE)>>
    ELSE <<Resize(SNAP_SIZE), Copy>>

Body(b) ==
    Restore(b) \o <<SideEffect, FillWork, SideEffect, Resize(WORK_SIZE),
                    SideEffect, FillWork, SideEffect>>

Op(t) == Body(bench)[step[t]]

resize(b, m, n) ==
    CASE b = "NoProtection" -> resizeNoProtect(m, n)
      [] b \in {"FullNewMapping", "ReuseMapping"} -> resizeWavm(m, n)
      [] b = "ReuseAndDontneed_0" -> resizeWavmDontneed(m, n, FALSE)
      [] b = "ReuseAndDontneed_1" -> resizeWavmDontneed(m, n, TRUE)
      [] OTHER -> resizeWavmUffd(m, n)

(* The pages an operation touches, in order.                               *)
Span(t) ==
    CASE Op(t).op = "copy" -> 0 .. SNAP_SIZE - 1
      [] Op(t).op = "read" -> 0 .. mem[t].size - 1
      [] Op(t).op = "fill" -> fillSpan(mem[t], WORK_FILL_START, WMEM_SIZE)
      [] OTHER -> {}

Written_FromBase(t, p) ==
    CASE Op(t).op = "copy" -> Snap(0)
      [] Op(t).op = "fill" -> Work(iter[t])
      [] OTHER -> IF mem[t].page[p] = Missing THEN Zero ELSE mem[t].page[p]

Written(t, p) ==
    CASE Op(t).op = "copy" -> Snap(p)
      [] Op(t).op = "fill" -> Work(iter[t])
      [] OTHER -> IF mem[t].page[p] = Missing THEN Zero   \* first read of private memory
                  ELSE mem[t].page[p]

----------------------------------------------------------------------------
(* Local state of a benchmark's threads as a run begins.                   *)
FreshMemory(b) == IF b = "NoProtection" THEN setupNoProtect ELSE NewWMemory

Init ==
    /\ suite \in Suites
    /\ at = 1
    /\ pc = [t \in Thread |-> "setup"]
    /\ iter = [t \in Thread |-> 1]
    /\ step = [t \in Thread |-> 1]
    /\ cursor = [t \in Thread |-> 0]
    /\ mem = [t \in Thread |-> FreshMemory(bench)]
    /\ hps = NewHandler(NONE)
    /\ handling = [h \in Workers \cup Thread |-> Idle]
    /\ sigbus = FALSE
    /\ reported = NONE
    /\ crashed = FALSE
    /\ taken = 0

Goto(t, label) == pc' = [pc EXCEPT ![t] = label]

(* uffdHandler() and uffdSigbusHandler(): the object there is, or a new    *)
(* one in its place if there is none or one of the other kind.  On a host  *)
(* with one hardware thread the workers' kind has threadCount 0 and passes *)
(* for the other one; Workers # {} leaves that host out.                   *)
Kind(b) == IF b \in Sigbus THEN "sigbus" ELSE "workers"

uffdHandler(b) == IF hps.kind = Kind(b) THEN hps ELSE NewHandler(Kind(b))

(* Replacing the object closes its userfaultfd.  Workers asleep in read()  *)
(* are not woken by that and stay there; one on its way to read() finds    *)
(* another object or none where its own was (EnterRead).  A new object of  *)
(* the worker kind starts its workers.                                     *)
Staff(b) ==
    [h \in Workers \cup Thread |->
       IF h \in Thread \/ hps.kind = Kind(b) THEN handling[h]
       ELSE IF Kind(b) = "workers" THEN Again
       ELSE IF handling[h] = Idle THEN Gone
       ELSE handling[h]]

(* Thread 0 sets the snapshot and clears the counter of the handler.       *)
Configure_KeepFaults(t) ==
    /\ t = 0 /\ pc[t] = "setup" /\ bench \in Uffd
    /\ Goto(t, "configured")
    /\ hps' = [uffdHandler(bench) EXCEPT
                 !.snapshot = IF bench \in Lazy THEN SNAP_SIZE ELSE NONE]
    /\ handling' = Staff(bench)
    /\ UNCHANGED <<run, iter, step, cursor, mem, sigbus, reported, crashed, taken>>

Configure(t) ==
    /\ t = 0 /\ pc[t] = "setup" /\ bench \in Uffd
    /\ Goto(t, "configured")
    /\ hps' = [uffdHandler(bench) EXCEPT
                 !.snapshot = IF bench \in Lazy THEN SNAP_SIZE ELSE NONE,
                 !.faults = 0]
    /\ handling' = Staff(bench)
    /\ UNCHANGED <<run, iter, step, cursor, mem, sigbus, reported, crashed, taken>>

(* UffdHandler::add: the memory is known to the handler, accessible, and   *)
(* its missing pages fault.  BM_UFFD_SIGBUS_Eager alone goes on to         *)
(* registerSigbusHandler.                                                  *)
Add(t) ==
    /\ bench \in Uffd
    /\ pc[t] = IF t = 0 THEN "configured" ELSE "setup"
    /\ Goto(t, "ready")
    /\ hps' = [uffdHandler(bench) EXCEPT !.mappings = @ \cup {t}]
    /\ handling' = Staff(bench)
    /\ mem' = [mem EXCEPT ![t] = Unprotect(@, 0, WMEM_SIZE \div 2)]
    /\ sigbus' = (sigbus \/ bench = "UFFD_SIGBUS_Eager")
    /\ UNCHANGED <<run, iter, step, cursor, reported, crashed, taken>>

(* The other benchmarks set nothing up with the handler.                   *)
Prepare(t) ==
    /\ bench \notin Uffd
    /\ pc[t] = "setup"
    /\ Goto(t, "ready")
    /\ UNCHANGED <<run, iter, step, cursor, mem, handler, reported, crashed,
                   taken>>

(* The library's barrier before the first iteration and after the last.    *)
StartKeepRunning ==
    /\ \A t \in Thread : pc[t] = "ready"
    /\ pc' = [t \in Thread |-> "loop"]
    /\ UNCHANGED <<run, iter, step, cursor, mem, handler, reported, crashed,
                   taken>>

FinishKeepRunning ==
    /\ \A t \in Thread : pc[t] = "finished"
    /\ pc' = [t \in Thread |-> "report"]
    /\ UNCHANGED <<run, iter, step, cursor, mem, handler, reported, crashed,
                   taken>>

----------------------------------------------------------------------------
(* One iteration.                                                          *)

(* After its operation the thread takes the next one, or the next          *)
(* iteration, which BM_FullNewMapping starts with a new mapping.           *)
Advance(t, m) ==
    LET last == step[t] = Len(Body(bench))
    IN  /\ cursor' = [cursor EXCEPT ![t] = 0]
        /\ step' = [step EXCEPT ![t] = IF last THEN 1 ELSE @ + 1]
        /\ iter' = [iter EXCEPT ![t] = IF last THEN @ + 1 ELSE @]
        /\ mem' = [mem EXCEPT ![t] =
                     IF last /\ bench = "FullNewMapping" THEN NewWMemory ELSE m]
        /\ Goto(t, IF last /\ iter[t] = Iterations THEN "finished" ELSE "loop")

Operating(t, ops) == pc[t] = "loop" /\ Op(t).op \in ops

ResizeMemory(t) ==
    /\ Operating(t, {"resize"})
    /\ Advance(t, resize(bench, mem[t], Op(t).size))
    /\ UNCHANGED <<run, handler, reported, crashed, taken>>

(* The pages still to be touched, the first of them, and whether touching  *)
(* it stops the thread.                                                    *)
Ahead(t) == {p \in Span(t) : p >= cursor[t]}
Here(t) == Min(Ahead(t))
Faults(t) == /\ bench \in Uffd /\ t \in hps.mappings
             /\ mem[t].page[Here(t)] = Missing

(* The operation touches a page that is there, or that the kernel fills.   *)
Touch(t) ==
    /\ Operating(t, {"copy", "read", "fill"})
    /\ Ahead(t) # {}
    /\ Here(t) \in mem[t].rw => ~Faults(t)
    /\ crashed' = (Here(t) \notin mem[t].rw)
    /\ mem' = [mem EXCEPT ![t].page[Here(t)] = Written(t, Here(t))]
    /\ cursor' = [cursor EXCEPT ![t] = Here(t) + 1]
    /\ UNCHANGED <<run, pc, iter, step, handler, reported, taken>>

(* The operation touches a missing page of a registered mapping: the       *)
(* kernel queues an event, or raises SIGBUS in the thread, which kills the *)
(* process if nobody has registered a handler for it.                      *)
Fault(t) ==
    /\ Operating(t, {"copy", "read", "fill"})
    /\ Ahead(t) # {}
    /\ Here(t) \in mem[t].rw /\ Faults(t)
    /\ Goto(t, "stopped")
    /\ taken' = taken + 1
    /\ IF hps.kind = "sigbus"
       THEN /\ handling' = [handling EXCEPT ![t] =
                              [stage |-> "find", owner |-> t, page |-> Here(t)]]
            /\ crashed' = ~sigbus
            /\ UNCHANGED hps
       ELSE /\ hps' = [hps EXCEPT
                         !.events = @ \cup {[owner |-> t, page |-> Here(t)]}]
            /\ UNCHANGED <<handling, crashed>>
    /\ UNCHANGED <<run, iter, step, cursor, mem, sigbus, reported>>

(* Every page of the operation has been touched.                           *)
OpDone(t) ==
    /\ Operating(t, {"copy", "read", "fill"})
    /\ Ahead(t) = {}
    /\ Advance(t, mem[t])
    /\ UNCHANGED <<run, handler, reported, crashed, taken>>

----------------------------------------------------------------------------
(* UffdHandler::workerThread and handleOne.                                *)

(* The loop of workerThread comes to readEvent.  A worker whose handler    *)
(* has been destroyed meanwhile reads from what is at its place: the new   *)
(* handler's userfaultfd, or a closed one, which ends it.  (A use of freed *)
(* memory: these are the outcomes as long as nothing but a UffdHandler is  *)
(* allocated at its place.)                                                *)
EnterRead(w) ==
    /\ handling[w] = Again
    /\ \E outcome \in IF hps.kind = "workers" THEN {Idle} ELSE {Idle, Gone} :
         handling' = [handling EXCEPT ![w] = outcome]
    /\ UNCHANGED <<run, thread, hps, sigbus, reported, crashed, taken>>

ReadEvent(w) ==
    /\ handling[w] = Idle
    /\ \E e \in hps.events :
         /\ hps' = [hps EXCEPT !.events = @ \ {e}]
         /\ handling' = [handling EXCEPT ![w] =
                           [stage |-> "find", owner |-> e.owner, page |-> e.page]]
    /\ UNCHANGED <<run, thread, sigbus, reported, crashed, taken>>

Address(h) == Base(handling[h].owner) + handling[h].page

(* The mappings found for an address, under the shared lock.               *)
Found(address) ==
    {t \in hps.mappings : address >= Base(t) /\ address < Base(t) + WMEM_SIZE}

FindMapping(h) ==
    /\ handling[h].stage = "find"
    /\ crashed' = (Found(Address(h)) = {})           \* std::terminate
    /\ handling' = [handling EXCEPT ![h].stage = "check"]
    /\ UNCHANGED <<run, thread, hps, sigbus, reported, taken>>

(* With the lock released: the bounds are read from the WMemory, and the   *)
(* fault is counted.  Out of bounds the thread is killed.                  *)
CheckBounds(h) ==
    LET inBounds == handling[h].page < mem[handling[h].owner].size
    IN  /\ handling[h].stage = "check"
        /\ crashed' = ~inBounds
        /\ hps' = IF inBounds THEN [hps EXCEPT !.faults = @ + 1] ELSE hps
        /\ handling' = [handling EXCEPT ![h].stage = "fill"]
        /\ UNCHANGED <<run, thread, sigbus, reported, taken>>

(* What the handler fills a page with: the address is compared with the    *)
(* size of the snapshot, and copies are taken from the snapshot's base.    *)
Filling(address) ==
    IF hps.snapshot # NONE /\ address < hps.snapshot THEN Snap(0) ELSE Zero

(* copyPages or zeroPages: the page is there, and the thread runs again.   *)
(* A worker then goes back to its loop.                                    *)
FillPage_Again(h) ==
    /\ handling[h].stage = "fill"
    /\ mem' = [mem EXCEPT ![handling[h].owner].page[handling[h].page] =
                 Filling(Address(h))]
    /\ pc' = [pc EXCEPT ![handling[h].owner] = IF @ = "stopped" THEN "loop" ELSE @]
    /\ UNCHANGED <<run, iter, step, cursor, handler, reported, crashed, taken>>

FillPage_NoWake(h) ==
    /\ handling[h].stage = "fill"
    /\ mem' = [mem EXCEPT ![handling[h].owner].page[handling[h].page] =
                 Filling(Address(h))]
    /\ UNCHANGED <<run, pc, iter, step, cursor, handler, reported, crashed, taken>>

FillPage(h) ==
    /\ handling[h].stage = "fill"
    /\ mem' = [mem EXCEPT ![handling[h].owner].page[handling[h].page] =
                 Filling(Address(h))]
    /\ Goto(handling[h].owner, "loop")
    /\ handling' = [handling EXCEPT ![h] = IF h \in Workers THEN Again ELSE Idle]
    /\ UNCHANGED <<run, iter, step, cursor, hps, sigbus, reported, crashed, taken>>

----------------------------------------------------------------------------
(* After the loop thread 0 reports; UffdHandler::remove, then the          *)
(* destructor of func.                                                     *)
Report(t) ==
    /\ t = 0 /\ pc[t] = "report" /\ reported = NONE
    /\ reported' = IF bench \in Uffd THEN hps.faults ELSE 0   \* CPU counters only
    /\ UNCHANGED <<run, thread, handler, crashed, taken>>

Remove_Kept(t) ==
    /\ pc[t] = "report"
    /\ t = 0 => reported # NONE
    /\ Goto(t, "done")
    /\ UNCHANGED <<run, iter, step, cursor, mem, handler, reported, crashed, taken>>

Remove(t) ==
    /\ pc[t] = "report"
    /\ t = 0 => reported # NONE
    /\ Goto(t, "done")
    /\ hps' = [hps EXCEPT !.mappings = @ \ {t}]
    /\ UNCHANGED <<run, iter, step, cursor, mem, handling, sigbus, reported, crashed,
                   taken>>

(* The library joins the threads of a run before it starts the next one.   *)
NextBenchmark ==
    /\ \A t \in Thread : pc[t] = "done"
    /\ at < Len(suite)
    /\ at' = at + 1
    /\ pc' = [t \in Thread |-> "setup"]
    /\ iter' = [t \in Thread |-> 1]
    /\ step' = [t \in Thread |-> 1]
    /\ cursor' = [t \in Thread |-> 0]
    /\ mem' = [t \in Thread |-> FreshMemory(suite[at + 1])]
    /\ reported' = NONE
    /\ taken' = 0
    /\ UNCHANGED <<suite, handler, crashed>>

SuiteDone == at = Len(suite) /\ \A t \in Thread : pc[t] = "done"

Finished == (crashed \/ SuiteDone) /\ UNCHANGED vars

ThreadStep(t) ==
    \/ Configure(t) \/ Add(t) \/ Prepare(t)
    \/ ResizeMemory(t) \/ Touch(t) \/ Fault(t) \/ OpDone(t)
    \/ Report(t) \/ Remove(t)

HandleStep(h) == FindMapping(h) \/ CheckBounds(h) \/ FillPage(h)

Next ==
    \/ /\ ~crashed
       /\ \/ \E t \in Thread : ThreadStep(t)
          \/ StartKeepRunning \/ FinishKeepRunning \/ NextBenchmark
          \/ \E w \in Workers : EnterRead(w) \/ ReadEvent(w)
          \/ \E h \in Workers \cup Thread : HandleStep(h)
    \/ Finished

Spec == Init /\ [][Next]_vars

(* Threads of the process that can run are run by the operating system.    *)
Fairness ==
    /\ \A t \in Thread : WF_vars(~crashed /\ ThreadStep(t))
    /\ WF_vars(StartKeepRunning \/ FinishKeepRunning \/ NextBenchmark)
    /\ \A w \in Workers : WF_vars(~crashed /\ (EnterRead(w) \/ ReadEvent(w)))
    /\ \A h \in Workers \cup Thread : WF_vars(~crashed /\ HandleStep(h))

FairSpec == Spec /\ Fairness

----------------------------------------------------------------------------
(* Properties.                                                             *)

(* The states of the threads and of the handler; no operation of a body    *)
(* reaches past WORK_SIZE.                                                 *)
TypeOK ==
    /\ suite \in Suites /\ at \in DOMAIN suite
    /\ pc \in [Thread -> {"setup", "configured", "ready", "loop", "stopped",
                          "finished", "report", "done"}]
    /\ iter \in [Thread -> 1 .. Iterations + 1]
    /\ step \in [Thread -> 1 .. Len(Body(bench))]
    /\ cursor \in [Thread -> 0 .. WORK_SIZE]
    /\ \A t \in Thread : /\ mem[t].size \in {0, SNAP_SIZE, WORK_SIZE,
                                            WMEM_SIZE \div 2}
                         /\ mem[t].rw \subseteq 0 .. (WMEM_SIZE \div 2) - 1
    /\ hps.kind \in {NONE, "workers", "sigbus"} /\ hps.mappings \subseteq Thread
    /\ \A e \in hps.events : e.owner \in Thread /\ e.page \in Pages
    /\ \A h \in Workers \cup Thread :
         handling[h] \in NotHandling \/ handling[h].stage \in {"find", "check", "fill"}

(* No thread touches memory it has protected, resizing with any of the     *)
(* strategies, and the handler finds every fault inside a known mapping    *)
(* and inside its bounds (faultspeed.cpp:348-421, 499-523).  What kills    *)
(* the process is only ever the SIGBUS of BM_UFFD_SIGBUS_Lazy when the     *)
(* selection leaves out BM_UFFD_SIGBUS_Eager, which registers the handler  *)
(* for both (faultspeed.cpp:832).                                          *)
CrashOnlyUnregistered ==
    crashed => /\ bench = "UFFD_SIGBUS_Lazy"
               /\ \A i \in 1 .. at : suite[i] # "UFFD_SIGBUS_Eager"

(* What the function reads was never written by an earlier invocation:     *)
(* with every strategy but BM_NoProtection, which keeps old data beyond    *)
(* the snapshot, shrinking drops the pages that restoring does not write.  *)
Isolated ==
    \A t \in Thread :
      (pc[t] \in {"loop", "stopped"} /\ Op(t).op = "read"
         /\ bench # "NoProtection") =>
        \A p \in 0 .. mem[t].size - 1 :
          mem[t].page[p][1] = "work" => mem[t].page[p][2] = iter[t]

(* Until the function writes it, a page within the snapshot holds the      *)
(* snapshot's page whenever it is read.                                    *)
Fills(t) == Cardinality({i \in 1 .. step[t] - 1 : Body(bench)[i] = FillWork})

Restored(t) ==
    (pc[t] \in {"loop", "stopped"} /\ Op(t).op = "read"
       /\ step[t] > Len(Restore(bench))) =>
      \A p \in 0 .. SNAP_SIZE - 1 :
        \/ mem[t].page[p] = Snap(p)
        \/ p >= WORK_FILL_START /\ Fills(t) > 0

(* Restored holds of every benchmark that copies the snapshot.             *)
SnapshotRestored == bench \notin Lazy => \A t \in Thread : Restored(t)

(* BM_UFFD_Lazy and BM_UFFD_SIGBUS_Lazy are documented as "filling the     *)
(* memory with snapshot data as-needed": a page that has been populated    *)
(* and not written holds the snapshot's data.                              *)
LazySnapshot ==
    bench \in Lazy =>
      \A t \in Thread :
        \A p \in 0 .. SNAP_SIZE - 1 :
          mem[t].page[p] \in {Missing, Snap(p)} \cup {Work(k) : k \in 1 .. iter[t]}

(* The counter reported for a run of a UFFD benchmark is the number of     *)
(* page faults its threads took in that run: the counter was cleared       *)
(* before the first, and the last was counted before its thread ran on     *)
(* (faultspeed.cpp:519, 756, 774).                                         *)
FaultsReportedExact ==
    (reported # NONE /\ bench \in Uffd) => reported = taken

(* Between the release of the lock on the mappings and the end of the      *)
(* fault, the handler uses a WMemory that is still registered and whose    *)
(* thread waits for it (faultspeed.cpp:503-535 against 567-579).           *)
HandlerSeesLiveMemory ==
    \A h \in Workers \cup Thread :
      handling[h].stage \in {"check", "fill"} =>
        /\ handling[h].owner \in hps.mappings
        /\ pc[handling[h].owner] = "stopped"

(* The handler object is destroyed only while no memory is registered with *)
(* it, no fault waits in its userfaultfd and nobody is inside handleOne,   *)
(* whichever thread of a run asks for the other kind first, and whatever   *)
(* its detached workers are doing (faultspeed.cpp:589-612).                *)
HandlerReplacedIdle ==
    [][hps'.kind # hps.kind =>
         /\ hps.mappings = {} /\ hps.events = {}
         /\ \A h \in Workers \cup Thread : handling[h] \in NotHandling]_vars

(* Every fault is answered: the suite runs to its end unless the process   *)
(* is killed, also with workers that an earlier benchmark left behind.     *)
SuiteCompletes == <>(crashed \/ SuiteDone)
=============================================================================
