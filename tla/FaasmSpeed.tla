------------------------------ MODULE FaasmSpeed ------------------------------
(***************************************************************************)
(* faasmspeed, the load generator (faasmspeed/src/main.rs): async_main,    *)
(* one run_function task per function under test, one task per request and *)
(* a progress task, on a multi-threaded tokio runtime.  The tasks meet at  *)
(* a barrier four times: after the test requests, after the monitoring     *)
(* hosts were told to start, after the request totals were added up and    *)
(* after the last response.  The build modelled is the release profile,    *)
(* where a panic aborts the process (Cargo.toml, panic = "abort").         *)
(***************************************************************************)
EXTENDS OffloadFraction, Sequences, FiniteSets, Functions

CONSTANTS
    Functions,  \* the functions under test
    Total,      \* [Functions -> Nat \ {0}]: ceil(requests_per_second * time),
                \* where both are positive
    Num,        \* [Functions -> Int]: offload_frac_num
    Den,        \* offload_frac_den
    PoolSize,   \* [Functions -> Nat \ {0}]: requests in the function's pool
    NHosts      \* how many monitoring hosts are given

ASSUME LoadAssumption ==
    /\ IsFiniteSet(Functions)
    /\ Functions # {}
    /\ "main" \notin Functions
    /\ Total \in [Functions -> Nat \ {0}]
    /\ Num \in [Functions -> Int]
    /\ Den \in Nat \ {0}
    /\ PoolSize \in [Functions -> Nat \ {0}]
    /\ NHosts \in Nat

VARIABLES
    opts,      \* oneshot, dry_run, the sign of time and the functions that are
               \* given a requests_per_second of 0
    exit,      \* how the process ended, or "running"
    mpc,       \* control state of async_main
    host,      \* index of the monitoring host its loops are at
    mlink,     \* [host -> what was last done on its connection]
    fpc,       \* control state of each run_function task
    phase,     \* how often each barrier participant has called wait()
    arrived,   \* barrier: the participants of the current generation so far
    gen,       \* barrier: completed generations
    ndp_var,   \* run_function's locals, per function
    which_request,
    joined,    \* join handles awaited so far
    reqs,      \* [function -> sequence of the request tasks it spawned]
    total_requests, sent_requests, recv_requests, ndp_requests, done,
    ppc,       \* control state of the progress task
    seen       \* what the progress task loaded: [total, sent, recv]

mainVars == <<mpc, host, mlink>>
funVars == <<fpc, ndp_var, which_request, joined>>
barVars == <<phase, arrived, gen>>
shared == <<total_requests, sent_requests, recv_requests, ndp_requests, done>>
progVars == <<ppc, seen>>
vars == <<opts, exit, mainVars, funVars, barVars, reqs, shared, progVars>>

Procs == Functions \cup {"main"}   \* Barrier::new(functions.len() + 1)
\* The monitoring connections exist only when requests are really sent.
Hosts == IF opts.dry_run THEN {} ELSE 1..NHosts

Options == [oneshot : BOOLEAN, dry_run : BOOLEAN,
            time : {"positive", "zero", "negative"}, idle : SUBSET Functions]
\* How many requests a function sends: rate times time, rounded up.
Planned(f) == IF opts.time = "positive" /\ f \notin opts.idle THEN Total[f] ELSE 0
\* Every function is to send something.
Loaded == opts.time = "positive" /\ opts.idle = {}

Request == [pool : Nat, ndp : BOOLEAN, st : {"spawned", "sent", "ok", "err"}]
Finished(r) == r.st \in {"ok", "err"}
Count(f, P(_)) == Cardinality({i \in DOMAIN reqs[f] : P(reqs[f][i])})
GrandTotal == SumFunctionOnSet([f \in Functions |-> Planned(f)], Functions)

\* The values of the tasks' locals and of SharedState: among them, the request
\* index stays inside the pool and no barrier is passed a fifth time.
TypeOK ==
    /\ opts \in Options
    /\ exit \in {"running", "ok", "err", "aborted"}
    /\ mpc \in {"connect", "test", "begin", "total", "spawn", "finish", "end",
                "read", "quit", "report"}
    /\ host \in 1..(NHosts + 1)
    /\ mlink \in [1..NHosts -> {"none", "open", "begun", "ended", "line", "eof", "closed"}]
    /\ fpc \in [Functions -> {"setup", "tested", "count", "counted", "send", "join",
                              "finish", "returned"}]
    /\ phase \in [Procs -> 0..4]
    /\ arrived \in SUBSET Procs
    /\ gen \in 0..4
    /\ ndp_var \in [Functions -> 0..Den]
    /\ which_request \in [Functions -> Nat]
    /\ \A f \in Functions : which_request[f] < PoolSize[f]
    /\ joined \in [Functions -> Nat]
    /\ reqs \in [Functions -> Seq(Request)]
    /\ total_requests \in Nat
    /\ sent_requests \in Nat
    /\ recv_requests \in Nat
    /\ ndp_requests \in Nat
    /\ done \in BOOLEAN
    /\ ppc \in {"none", "check", "total", "sent", "recv", "print", "returned"}
    /\ seen \in [total : Nat, sent : Nat, recv : Nat]

Init ==
    /\ opts \in Options
    /\ exit = "running"
    /\ mpc = "connect"
    /\ host = 1
    /\ mlink = [h \in 1..NHosts |-> "none"]
    /\ fpc = [f \in Functions |-> "setup"]
    /\ phase = [p \in Procs |-> 0]
    /\ arrived = {}
    /\ gen = 0
    /\ ndp_var = [f \in Functions |-> FirstNdpVar(Den)]
    /\ which_request = [f \in Functions |-> 0]
    /\ joined = [f \in Functions |-> 0]
    /\ reqs = [f \in Functions |-> <<>>]
    /\ total_requests = 0
    /\ sent_requests = 0
    /\ recv_requests = 0
    /\ ndp_requests = 0
    /\ done = FALSE
    /\ ppc = "none"
    /\ seen = [total |-> 0, sent |-> 0, recv |-> 0]

------------------------------------------------------------------------------
(* tokio::sync::Barrier *)

\* phase_barrier.wait() is called: the last participant to arrive opens the
\* barrier for its generation and starts the next one.
Arrive(p) ==
    /\ phase' = [phase EXCEPT ![p] = @ + 1]
    /\ IF arrived \cup {p} = Procs
       THEN arrived' = {} /\ gen' = gen + 1
       ELSE arrived' = arrived \cup {p} /\ gen' = gen

\* wait() has returned to p.
Passed(p) == gen >= phase[p]

\* A panic in any task aborts the process; returning from async_main ends it.
Exit(how) == exit' = how

------------------------------------------------------------------------------
(* async_main *)

\* The connect loop: one TcpStream::connect per host; a failure is returned.
\* Once all are connected (or none is wanted), main waits for the test requests.
Connect ==
    /\ mpc = "connect"
    /\ host \in Hosts
    /\ \/ /\ mlink' = [mlink EXCEPT ![host] = "open"]
          /\ host' = host + 1
          /\ UNCHANGED exit
       \/ /\ Exit("err")
          /\ UNCHANGED <<mlink, host>>
    /\ UNCHANGED <<opts, mpc, funVars, barVars, reqs, shared, progVars>>

AwaitTests ==
    /\ mpc = "connect"
    /\ host \notin Hosts
    /\ Arrive("main")
    /\ mpc' = "test"
    /\ UNCHANGED <<opts, exit, host, mlink, funVars, reqs, shared, progVars>>

\* Past the first barrier: a oneshot run is over.
TestsDone ==
    /\ mpc = "test"
    /\ Passed("main")
    /\ IF opts.oneshot
       THEN Exit("ok") /\ UNCHANGED <<mpc, host>>
       ELSE mpc' = "begin" /\ host' = 1 /\ UNCHANGED exit
    /\ UNCHANGED <<opts, mlink, funVars, barVars, reqs, shared, progVars>>

\* host.write_u8(b'[') for every monitoring host; a failure is returned.
BeginMonitoring ==
    /\ mpc = "begin"
    /\ host \in Hosts
    /\ \/ /\ mlink' = [mlink EXCEPT ![host] = "begun"]
          /\ host' = host + 1
          /\ UNCHANGED exit
       \/ /\ Exit("err")
          /\ UNCHANGED <<mlink, host>>
    /\ UNCHANGED <<opts, mpc, funVars, barVars, reqs, shared, progVars>>

\* Sync: monitoring start, then Sync: total request count.
MonitoringStarted ==
    /\ mpc = "begin"
    /\ host \notin Hosts
    /\ Arrive("main")
    /\ mpc' = "total"
    /\ UNCHANGED <<opts, exit, host, mlink, funVars, reqs, shared, progVars>>

AwaitTotals ==
    /\ mpc = "total"
    /\ Passed("main")
    /\ Arrive("main")
    /\ mpc' = "spawn"
    /\ UNCHANGED <<opts, exit, host, mlink, funVars, reqs, shared, progVars>>

\* Mutant: the progress task is spawned without the barrier before it.
SpawnProgress_Early ==
    /\ mpc = "spawn"
    /\ ppc' = "check"
    /\ Arrive("main")
    /\ mpc' = "finish"
    /\ UNCHANGED <<opts, exit, host, mlink, funVars, reqs, shared, seen>>

\* The progress task is spawned, then main waits for the last response.
SpawnProgress ==
    /\ mpc = "spawn"
    /\ Passed("main")
    /\ ppc' = "check"
    /\ Arrive("main")
    /\ mpc' = "finish"
    /\ UNCHANGED <<opts, exit, host, mlink, funVars, reqs, shared, seen>>

\* Mutant: main does not wait for the last response.
RequestsFinished_NoBarrier ==
    /\ mpc = "finish"
    /\ done' = TRUE
    /\ mpc' = "end"
    /\ host' = 1
    /\ UNCHANGED <<opts, exit, mlink, funVars, barVars, reqs, total_requests,
                   sent_requests, recv_requests, ndp_requests, progVars>>

\* Mutant: done is never stored.
RequestsFinished_NotDone ==
    /\ mpc = "finish"
    /\ Passed("main")
    /\ mpc' = "end"
    /\ host' = 1
    /\ UNCHANGED <<opts, exit, mlink, funVars, barVars, reqs, shared, progVars>>

\* Sync: finish all requests; done.store(true).
RequestsFinished ==
    /\ mpc = "finish"
    /\ Passed("main")
    /\ done' = TRUE
    /\ mpc' = "end"
    /\ host' = 1
    /\ UNCHANGED <<opts, exit, mlink, funVars, barVars, reqs, total_requests,
                   sent_requests, recv_requests, ndp_requests, progVars>>

\* Per host: write ']', read one line, write 'q' and shut the write side down.
\* Every step may fail, and a failure is returned.  read_line returns Ok with
\* an empty buffer when the host closed the connection.
EndMonitoring ==
    /\ mpc = "end"
    /\ host \in Hosts
    /\ \/ /\ mlink' = [mlink EXCEPT ![host] = "ended"]
          /\ mpc' = "read"
          /\ UNCHANGED exit
       \/ /\ Exit("err")
          /\ UNCHANGED <<mlink, mpc>>
    /\ UNCHANGED <<opts, host, funVars, barVars, reqs, shared, progVars>>

ReadLine ==
    /\ mpc = "read"
    /\ \/ /\ \E reply \in {"line", "eof"} : mlink' = [mlink EXCEPT ![host] = reply]
          /\ mpc' = "quit"
          /\ UNCHANGED exit
       \/ /\ Exit("err")
          /\ UNCHANGED <<mlink, mpc>>
    /\ UNCHANGED <<opts, host, funVars, barVars, reqs, shared, progVars>>

QuitMonitoring ==
    /\ mpc = "quit"
    /\ \/ /\ mlink' = [mlink EXCEPT ![host] = "closed"]
          /\ host' = host + 1
          /\ mpc' = "end"
          /\ UNCHANGED exit
       \/ /\ Exit("err")
          /\ UNCHANGED <<mlink, host, mpc>>
    /\ UNCHANGED <<opts, funVars, barVars, reqs, shared, progVars>>

\* progress.await, then the function tasks are awaited.
AwaitTasks ==
    /\ mpc = "end"
    /\ host \notin Hosts
    /\ ppc = "returned"
    /\ \A f \in Functions : fpc[f] = "returned"
    /\ mpc' = "report"
    /\ UNCHANGED <<opts, exit, host, mlink, funVars, barVars, reqs, shared, progVars>>

\* The results are sorted into results[f] and errors[f] and printed.
Report ==
    /\ mpc = "report"
    /\ Exit("ok")
    /\ UNCHANGED <<opts, mainVars, funVars, barVars, reqs, shared, progVars>>

Main ==
    \/ Connect \/ AwaitTests \/ TestsDone \/ BeginMonitoring \/ MonitoringStarted
    \/ AwaitTotals \/ SpawnProgress \/ RequestsFinished \/ EndMonitoring
    \/ ReadLine \/ QuitMonitoring \/ AwaitTasks \/ Report

------------------------------------------------------------------------------
(* run_function *)

\* Builds the pool and sends the test request (unless dry_run), then Sync: test
\* requests.  An option that is missing for this function, an unreadable input
\* file or a test request that fails is an expect() that panics.
TestRequest(f) ==
    /\ fpc[f] = "setup"
    /\ \/ /\ Arrive(f)
          /\ fpc' = [fpc EXCEPT ![f] = "tested"]
          /\ UNCHANGED exit
       \/ /\ Exit("aborted")
          /\ UNCHANGED <<phase, arrived, gen, fpc>>
    /\ UNCHANGED <<opts, mainVars, ndp_var, which_request, joined, reqs, shared, progVars>>

\* Past the first barrier: a oneshot task returns, the others wait for the
\* monitoring to start.
AwaitMonitoring(f) ==
    /\ fpc[f] = "tested"
    /\ Passed(f)
    /\ IF opts.oneshot
       THEN fpc' = [fpc EXCEPT ![f] = "returned"] /\ UNCHANGED barVars
       ELSE fpc' = [fpc EXCEPT ![f] = "count"] /\ Arrive(f)
    /\ UNCHANGED <<opts, exit, mainVars, ndp_var, which_request, joined, reqs, shared,
                   progVars>>

\* assert!(total_requests >= 0) panics for a negative time.
RefuseTime(f) ==
    /\ fpc[f] = "count"
    /\ Passed(f)
    /\ opts.time = "negative" /\ f \notin opts.idle
    /\ Exit("aborted")
    /\ UNCHANGED <<opts, mainVars, funVars, barVars, reqs, shared, progVars>>

\* total_requests.fetch_add, then Sync: total request count.
AddTotal(f) ==
    /\ fpc[f] = "count"
    /\ Passed(f)
    /\ opts.time = "negative" => f \in opts.idle
    /\ total_requests' = total_requests + Planned(f)
    /\ Arrive(f)
    /\ fpc' = [fpc EXCEPT ![f] = "counted"]
    /\ UNCHANGED <<opts, exit, mainVars, ndp_var, which_request, joined, reqs,
                   sent_requests, recv_requests, ndp_requests, done, progVars>>

\* Duration::from_secs_f64(1.0 / 0.0) panics.
RefuseRate(f) ==
    /\ fpc[f] = "counted"
    /\ Passed(f)
    /\ f \in opts.idle
    /\ Exit("aborted")
    /\ UNCHANGED <<opts, mainVars, funVars, barVars, reqs, shared, progVars>>

StartSending(f) ==
    /\ fpc[f] = "counted"
    /\ Passed(f)
    /\ f \notin opts.idle
    /\ fpc' = [fpc EXCEPT ![f] = "send"]
    /\ UNCHANGED <<opts, exit, mainVars, ndp_var, which_request, joined, barVars, reqs,
                   shared, progVars>>

\* Mutant: which_request only advances after a request that is not offloadable.
Generate_SkipAdvance(f) ==
    /\ fpc[f] = "send"
    /\ Len(reqs[f]) < Planned(f)
    /\ LET v   == NextNdpVar(ndp_var[f], Den)
           ndp == AllowNdp(v, Num[f], Den)
       IN  /\ ndp_var' = [ndp_var EXCEPT ![f] = v]
           /\ ndp_requests' = IF ndp THEN ndp_requests + 1 ELSE ndp_requests
           /\ reqs' = [reqs EXCEPT ![f] =
                 Append(@, [pool |-> which_request[f], ndp |-> ndp, st |-> "spawned"])]
           /\ which_request' = IF ndp THEN which_request
                 ELSE [which_request EXCEPT ![f] = NextRequest(@, PoolSize[f])]
    /\ UNCHANGED <<opts, exit, mainVars, fpc, joined, barVars, total_requests,
                   sent_requests, recv_requests, done, progVars>>

\* One iteration of the request loop: tick, choose the request, spawn its task.
Generate(f) ==
    /\ fpc[f] = "send"
    /\ Len(reqs[f]) < Planned(f)
    /\ LET v   == NextNdpVar(ndp_var[f], Den)
           ndp == AllowNdp(v, Num[f], Den)
       IN  /\ ndp_var' = [ndp_var EXCEPT ![f] = v]
           /\ ndp_requests' = IF ndp THEN ndp_requests + 1 ELSE ndp_requests
           /\ reqs' = [reqs EXCEPT ![f] =
                 Append(@, [pool |-> which_request[f], ndp |-> ndp, st |-> "spawned"])]
    /\ which_request' = [which_request EXCEPT ![f] = NextRequest(@, PoolSize[f])]
    /\ UNCHANGED <<opts, exit, mainVars, fpc, joined, barVars, total_requests,
                   sent_requests, recv_requests, done, progVars>>

StartJoining(f) ==
    /\ fpc[f] = "send"
    /\ Len(reqs[f]) = Planned(f)
    /\ fpc' = [fpc EXCEPT ![f] = "join"]
    /\ UNCHANGED <<opts, exit, mainVars, ndp_var, which_request, joined, barVars, reqs,
                   shared, progVars>>

\* The join handles are awaited in the order they were spawned.
Join(f) ==
    /\ fpc[f] = "join"
    /\ joined[f] < Len(reqs[f])
    /\ Finished(reqs[f][joined[f] + 1])
    /\ joined' = [joined EXCEPT ![f] = @ + 1]
    /\ UNCHANGED <<opts, exit, mainVars, fpc, ndp_var, which_request, barVars, reqs,
                   shared, progVars>>

AwaitFinish(f) ==
    /\ fpc[f] = "join"
    /\ joined[f] = Len(reqs[f])
    /\ Arrive(f)
    /\ fpc' = [fpc EXCEPT ![f] = "finish"]
    /\ UNCHANGED <<opts, exit, mainVars, ndp_var, which_request, joined, reqs, shared,
                   progVars>>

Return(f) ==
    /\ fpc[f] = "finish"
    /\ Passed(f)
    /\ fpc' = [fpc EXCEPT ![f] = "returned"]
    /\ UNCHANGED <<opts, exit, mainVars, ndp_var, which_request, joined, barVars, reqs,
                   shared, progVars>>

RunFunction(f) ==
    \/ TestRequest(f) \/ AwaitMonitoring(f) \/ RefuseTime(f) \/ AddTotal(f)
    \/ RefuseRate(f) \/ StartSending(f) \/ Generate(f) \/ StartJoining(f) \/ Join(f)
    \/ AwaitFinish(f) \/ Return(f)

------------------------------------------------------------------------------
(* The request tasks *)

SetRequest(f, i, st) == reqs' = [reqs EXCEPT ![f][i].st = st]

Send(f, i) ==
    /\ reqs[f][i].st = "spawned"
    /\ SetRequest(f, i, "sent")
    /\ sent_requests' = sent_requests + 1
    /\ UNCHANGED <<opts, exit, mainVars, funVars, barVars, total_requests, recv_requests,
                   ndp_requests, done, progVars>>

\* A complete response, or in a dry run no request at all.
Receive(f, i) ==
    /\ reqs[f][i].st = "sent"
    /\ SetRequest(f, i, "ok")
    /\ recv_requests' = recv_requests + 1
    /\ UNCHANGED <<opts, exit, mainVars, funVars, barVars, total_requests, sent_requests,
                   ndp_requests, done, progVars>>

\* Mutant: recv_requests also counts failed requests.
Fail_Counted(f, i) ==
    /\ reqs[f][i].st = "sent"
    /\ ~opts.dry_run
    /\ SetRequest(f, i, "err")
    /\ recv_requests' = recv_requests + 1
    /\ UNCHANGED <<opts, exit, mainVars, funVars, barVars, total_requests, sent_requests,
                   ndp_requests, done, progVars>>

\* Timeout, connection error, error status or broken body: the `?` returns Err.
Fail(f, i) ==
    /\ reqs[f][i].st = "sent"
    /\ ~opts.dry_run
    /\ SetRequest(f, i, "err")
    /\ UNCHANGED <<opts, exit, mainVars, funVars, barVars, shared, progVars>>

RequestTask(f, i) == Send(f, i) \/ Receive(f, i) \/ Fail(f, i)

------------------------------------------------------------------------------
(* The progress task: three separate atomic loads, then a division. *)

ProgressCheck ==
    /\ ppc = "check"
    /\ ppc' = IF done THEN "returned" ELSE "total"
    /\ UNCHANGED <<opts, exit, mainVars, funVars, barVars, reqs, shared, seen>>

ProgressTotal ==
    /\ ppc = "total"
    /\ seen' = [seen EXCEPT !.total = total_requests]
    /\ ppc' = "sent"
    /\ UNCHANGED <<opts, exit, mainVars, funVars, barVars, reqs, shared>>

ProgressSent ==
    /\ ppc = "sent"
    /\ seen' = [seen EXCEPT !.sent = sent_requests]
    /\ ppc' = "recv"
    /\ UNCHANGED <<opts, exit, mainVars, funVars, barVars, reqs, shared>>

ProgressRecv ==
    /\ ppc = "recv"
    /\ seen' = [seen EXCEPT !.recv = recv_requests]
    /\ ppc' = "print"
    /\ UNCHANGED <<opts, exit, mainVars, funVars, barVars, reqs, shared>>

\* recv * 100 / total: a total of zero panics.
ProgressPrint ==
    /\ ppc = "print"
    /\ IF seen.total = 0
       THEN Exit("aborted") /\ UNCHANGED ppc
       ELSE ppc' = "check" /\ UNCHANGED exit
    /\ UNCHANGED <<opts, mainVars, funVars, barVars, reqs, shared, seen>>

Progress ==
    \/ ProgressCheck \/ ProgressTotal \/ ProgressSent \/ ProgressRecv \/ ProgressPrint

------------------------------------------------------------------------------

\* The process has ended.
Terminated ==
    /\ exit # "running"
    /\ UNCHANGED vars

Next ==
    \/ exit = "running" /\ Main
    \/ \E f \in Functions : exit = "running" /\ RunFunction(f)
    \/ \E f \in Functions : \E i \in DOMAIN reqs[f] : exit = "running" /\ RequestTask(f, i)
    \/ exit = "running" /\ Progress
    \/ Terminated

Spec == Init /\ [][Next]_vars

\* The tokio scheduler runs every task that is ready.  That a request task
\* gets on is its per-request timeout (make_request); that a test request does,
\* too; that ReadLine does rests on the monitoring host, which has no timeout.
Fairness ==
    /\ WF_vars(exit = "running" /\ Main)
    /\ \A f \in Functions : WF_vars(exit = "running" /\ RunFunction(f))
    /\ \A f \in Functions : \A i \in 1..Total[f] :
          WF_vars(exit = "running" /\ i \in DOMAIN reqs[f] /\ RequestTask(f, i))
    /\ WF_vars(exit = "running" /\ Progress)

FairSpec == Spec /\ Fairness

------------------------------------------------------------------------------
(* Properties *)

\* The measured load lies inside the monitored range: no request is spawned
\* before every monitoring host was sent '[', and no host is sent ']' before
\* every request of every function was spawned and has its answer or its error.
\* This is what the second and the fourth barrier of run_function are for.
LoadInsideMonitoring ==
    /\ (\E f \in Functions : reqs[f] # <<>>)
          => \A h \in Hosts : mlink[h] \notin {"none", "open"}
    /\ (\E h \in Hosts : mlink[h] \in {"ended", "line", "eof", "closed"})
          => \A f \in Functions :
                Len(reqs[f]) = Planned(f) /\ \A i \in DOMAIN reqs[f] : Finished(reqs[f][i])

\* If every function is to send something, the process aborts only because the
\* setup of a function or its test request failed: the progress task never
\* divides by a total of zero, since it is spawned behind the barrier "total
\* request count", which every function reaches after its fetch_add.  (A time of 0 does divide by zero, unless done is
\* stored before the progress task first looks.)
AbortOnlyOnTestFailure ==
    (Loaded /\ exit = "aborted") => \E f \in Functions : fpc[f] = "setup"

\* Every progress line is computed from the final total, and shows at most 100%.
ProgressSane ==
    /\ ppc \in {"sent", "recv", "print"} => seen.total = GrandTotal
    /\ ppc = "print" => seen.recv <= seen.total

\* When the results are reported, the shared counters agree with what the tasks
\* did: every planned request was sent and is a result or an error, none is
\* still under way, recv_requests counts the results and ndp_requests the
\* offloadable requests, and every monitoring connection was closed.  Nothing is
\* reported of a load with a rate of 0 or a negative time, which some task has
\* refused by then, also if other functions have sent requests already.
AccountingExact ==
    mpc = "report" =>
       /\ total_requests = GrandTotal
       /\ sent_requests = GrandTotal
       /\ opts.idle = {} /\ opts.time # "negative"
       /\ \A f \in Functions : joined[f] = Planned(f) /\ Count(f, Finished) = Planned(f)
       /\ recv_requests = SumFunctionOnSet(
            [f \in Functions |-> Count(f, LAMBDA r : r.st = "ok")], Functions)
       /\ ndp_requests = SumFunctionOnSet(
            [f \in Functions |-> Count(f, LAMBDA r : r.ndp)], Functions)
       /\ \A h \in Hosts : mlink[h] = "closed"

\* Whatever the interleaving with the other tasks, each function sends the
\* sequence of requests its generator prescribes.
Gen(f) == INSTANCE RequestGenerator WITH
    Num <- Num[f], PoolSize <- PoolSize[f], Total <- Total[f],
    ndp_var <- ndp_var[f], which_request <- which_request[f],
    sent <- Len(reqs[f]), ndp <- Count(f, LAMBDA r : r.ndp)

GeneratorsRefined ==
    /\ \A f \in Functions : Gen(f)!Init
    /\ [][\A f \in Functions : [Gen(f)!Next]_(Gen(f)!genVars)]_vars

\* The process ends: nobody waits at a barrier for somebody who does not come,
\* the progress task sees done, and the join handles are all answered.
Termination == <>(exit # "running")
==============================================================================
