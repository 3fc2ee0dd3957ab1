--------------------------- MODULE FaasmSpeedProofs ---------------------------
(***************************************************************************)
(* Proofs about the load generator for every set of functions, request     *)
(* count, fraction, pool and number of monitoring hosts.                   *)
(***************************************************************************)
EXTENDS FaasmSpeed, SumTheorems

(***************************************************************************)
(* The inductive invariant.  The barrier keeps all participants within one *)
(* generation of each other (BarrierInv); each participant's control state *)
(* tells how often it has waited (MainInv, FunInv).  So a control state of *)
(* one participant that lies behind the n-th barrier says of every other   *)
(* participant that it has reached the n-th barrier.                       *)
(***************************************************************************)
BarrierInv ==
    /\ arrived # Procs
    /\ \A p \in Procs : phase[p] = IF p \in arrived THEN gen + 1 ELSE gen

After == {"end", "read", "quit", "report"}
Ended == {"ended", "line", "eof", "closed"}

MainInv ==
    /\ mpc = "connect" => phase["main"] = 0
    /\ mpc = "test" => phase["main"] = 1
    /\ mpc = "begin" => phase["main"] = 1 /\ gen >= 1
    /\ mpc = "total" => phase["main"] = 2
    /\ mpc = "spawn" => phase["main"] = 3
    /\ mpc = "finish" => phase["main"] = 4
    /\ mpc \in After => phase["main"] = 4 /\ gen = 4

MonitorInv ==
    /\ mpc = "begin" => \A h \in Hosts : h < host => mlink[h] = "begun"
    /\ mpc \in {"total", "spawn", "finish"} => \A h \in Hosts : mlink[h] = "begun"
    /\ mpc \in After => \A h \in Hosts : mlink[h] \notin {"none", "open"}
    /\ mpc \in {"connect", "test", "begin"} => \A h \in Hosts : mlink[h] \notin Ended
    /\ mpc \in {"read", "quit"} => host \in Hosts

\* f's control state tells how often it has waited at the barrier.
PhaseInv(f) ==
    /\ fpc[f] = "setup" => phase[f] = 0
    /\ fpc[f] = "tested" => phase[f] = 1
    /\ fpc[f] = "count" => phase[f] = 2
    /\ fpc[f] = "counted" => phase[f] = 3
    /\ fpc[f] \in {"send", "join"} => phase[f] = 3 /\ gen >= 3
    /\ fpc[f] = "finish" => phase[f] = 4
    /\ fpc[f] \in {"count", "counted", "send", "join", "finish"} => ~opts.oneshot
    /\ fpc[f] = "returned" => phase[f] = IF opts.oneshot THEN 1 ELSE 4
    /\ (Loaded /\ phase[f] >= 3) => total_requests > 0

\* What it has spawned and joined.
JoinInv(f) ==
    /\ fpc[f] \in {"setup", "tested", "count", "counted"} => reqs[f] = <<>>
    /\ fpc[f] = "returned" /\ opts.oneshot => reqs[f] = <<>>
    /\ fpc[f] = "join" => Len(reqs[f]) = Planned(f)
    /\ phase[f] = 4 => Len(reqs[f]) = Planned(f) /\ joined[f] = Planned(f)
    /\ joined[f] <= Len(reqs[f])
    /\ \A i \in 1..joined[f] : Finished(reqs[f][i])

ProgressInv ==
    /\ ppc # "none" => gen >= 3
    /\ (Loaded /\ ppc \in {"sent", "recv", "print"}) => seen.total > 0

IInv ==
    /\ TypeOK
    /\ BarrierInv
    /\ MainInv
    /\ MonitorInv
    /\ \A f \in Functions : PhaseInv(f) /\ JoinInv(f)
    /\ ProgressInv
    /\ AbortOnlyOnTestFailure

------------------------------------------------------------------------------
(* Lemmas about the parts *)

\* wait() at the barrier keeps its participants within one generation.
LEMMA ArriveStep ==
    ASSUME TypeOK, BarrierInv, NEW p \in Procs, Passed(p), phase[p] <= 3, Arrive(p)
    PROVE  /\ BarrierInv'
           /\ phase' \in [Procs -> 0..4] /\ arrived' \in SUBSET Procs /\ gen' \in 0..4
           /\ gen' >= gen
           /\ phase'[p] = phase[p] + 1
           /\ \A q \in Procs \ {p} : phase'[q] = phase[q]
<1>1. phase \in [Procs -> 0..4] /\ arrived \in SUBSET Procs /\ gen \in 0..4
  BY DEF TypeOK
<1>2. p \notin arrived /\ phase[p] = gen
  BY <1>1 DEF BarrierInv, Passed
<1>3. phase' = [phase EXCEPT ![p] = phase[p] + 1]
  BY DEF Arrive
<1>4. phase' \in [Procs -> 0..4] /\ phase'[p] = gen + 1
      /\ \A q \in Procs \ {p} : phase'[q] = phase[q]
  BY <1>1, <1>2, <1>3
<1>5. CASE arrived \cup {p} = Procs
  <2>1. arrived' = {} /\ gen' = gen + 1
    BY <1>5 DEF Arrive
  <2>2. \A q \in Procs : phase'[q] = gen + 1
    BY <1>1, <1>2, <1>4, <1>5 DEF BarrierInv
  <2>3. Procs' = Procs /\ Procs # {}
    BY DEF Procs
  <2> QED
    BY <1>1, <1>2, <1>4, <2>1, <2>2, <2>3 DEF BarrierInv
<1>6. CASE arrived \cup {p} # Procs
  <2>1. arrived' = arrived \cup {p} /\ gen' = gen
    BY <1>6 DEF Arrive
  <2>2. Procs' = Procs
    BY DEF Procs
  <2> QED
    BY <1>1, <1>2, <1>4, <1>6, <2>1, <2>2 DEF BarrierInv
<1> QED
  BY <1>5, <1>6

\* A step that leaves a part's own variables alone, and only moves the barrier
\* forward, preserves that part of the invariant.
LEMMA FunctionFrame ==
    ASSUME TypeOK, NEW f \in Functions, PhaseInv(f), JoinInv(f),
           UNCHANGED <<opts, fpc[f], joined[f], reqs[f], phase[f]>>,
           total_requests' >= total_requests, total_requests' \in Nat,
           gen' \in 0..4, gen' >= gen
    PROVE  PhaseInv(f)' /\ JoinInv(f)'
<1>1. gen \in 0..4 /\ total_requests \in Nat
  BY DEF TypeOK
<1>2. PhaseInv(f)'
  BY <1>1 DEF PhaseInv, Loaded
<1>3. JoinInv(f)'
  BY DEF JoinInv, Finished, Planned
<1> QED
  BY <1>2, <1>3

\* A step of another task, which leaves async_main and its links alone and may
\* only open the barrier, preserves what the invariant says of async_main.
LEMMA MainFrame ==
    ASSUME TypeOK, MainInv, MonitorInv, UNCHANGED <<opts, mainVars, phase["main"]>>,
           gen' \in 0..4, gen' >= gen
    PROVE  MainInv' /\ MonitorInv'
<1>1. gen \in 0..4
  BY DEF TypeOK
<1>2. MainInv'
  BY <1>1 DEF MainInv, mainVars, After
<1>3. MonitorInv'
  BY DEF MonitorInv, mainVars, After, Ended, Hosts
<1> QED
  BY <1>2, <1>3

\* A step of another task, which may only open the barrier, preserves what the
\* invariant says of the progress task.
LEMMA ProgressFrame ==
    ASSUME TypeOK, ProgressInv, UNCHANGED <<opts, progVars>>, gen' \in 0..4, gen' >= gen
    PROVE  ProgressInv'
<1>1. gen \in 0..4
  BY DEF TypeOK
<1> QED
  BY <1>1 DEF ProgressInv, progVars, Loaded

\* The inductive invariant holds when the process starts.
LEMMA InitIInv == Init => IInv
<1> SUFFICES ASSUME Init PROVE IInv
  OBVIOUS
<1> USE LoadAssumption
<1>0. Procs # {} /\ "main" \in Procs /\ Functions \subseteq Procs
  BY DEF Procs
<1>1. TypeOK
  <2>1. reqs \in [Functions -> Seq(Request)]
    BY DEF Init
  <2>2. host \in 1..(NHosts + 1) /\ ndp_var \in [Functions -> 0..Den]
    BY DEF Init, FirstNdpVar
  <2>3. /\ which_request \in [Functions -> Nat]
        /\ \A f \in Functions : which_request[f] < PoolSize[f]
    BY DEF Init
  <2>4. /\ mlink \in [1..NHosts -> {"none", "open", "begun", "ended", "line", "eof", "closed"}]
        /\ fpc \in [Functions -> {"setup", "tested", "count", "counted", "send", "join",
                                  "finish", "returned"}]
        /\ phase \in [Procs -> 0..4]
        /\ joined \in [Functions -> Nat]
    BY DEF Init
  <2>5. seen \in [total : Nat, sent : Nat, recv : Nat]
    BY DEF Init
  <2>6. opts \in Options /\ done \in BOOLEAN
    BY DEF Init
  <2>7. arrived \in SUBSET Procs /\ gen \in 0..4
    BY DEF Init
  <2>8. /\ total_requests \in Nat /\ sent_requests \in Nat
        /\ recv_requests \in Nat /\ ndp_requests \in Nat
    BY DEF Init
  <2>9. /\ exit = "running" /\ mpc = "connect" /\ ppc = "none"
    BY DEF Init
  <2> QED
    BY <2>1, <2>2, <2>3, <2>4, <2>5, <2>6, <2>7, <2>8, <2>9 DEF TypeOK
<1>2. BarrierInv
  BY <1>0 DEF Init, BarrierInv
<1>3. MainInv /\ MonitorInv
  BY <1>0 DEF Init, MainInv, MonitorInv, After, Ended, Hosts
<1>4. \A f \in Functions : PhaseInv(f) /\ JoinInv(f)
  BY <1>0 DEF Init, PhaseInv, JoinInv
<1>5. ProgressInv /\ AbortOnlyOnTestFailure
  BY DEF Init, ProgressInv, AbortOnlyOnTestFailure
<1> QED
  BY <1>1, <1>2, <1>3, <1>4, <1>5 DEF IInv

\* The next ndp_var stays within the period (run_function, the wrap).
LEMMA NextNdpVarRange == ASSUME NEW v \in 0..Den PROVE NextNdpVar(v, Den) \in 0..Den
<1>1. CASE v + 1 > Den
  <2>1. v % Den \in 0..(Den - 1)
    BY LoadAssumption
  <2> QED
    BY <1>1, <2>1, LoadAssumption DEF NextNdpVar, Wrap
<1>2. CASE ~(v + 1 > Den)
  BY <1>2, LoadAssumption DEF NextNdpVar, Wrap
<1> QED
  BY <1>1, <1>2

------------------------------------------------------------------------------
(* Every step preserves the invariant. *)

\* Every step of async_main preserves the invariant.
LEMMA MainStep == IInv /\ exit = "running" /\ Main => IInv'
<1> SUFFICES ASSUME IInv, exit = "running", Main PROVE IInv'
  OBVIOUS
<1> USE LoadAssumption
<1>a. /\ TypeOK /\ BarrierInv /\ MainInv /\ MonitorInv /\ ProgressInv
      /\ \A f \in Functions : PhaseInv(f) /\ JoinInv(f)
  BY DEF IInv
<1>b. Procs' = Procs /\ "main" \in Procs /\ Functions \subseteq Procs \ {"main"}
  BY DEF Procs
<1>c. gen \in 0..4 /\ total_requests \in Nat
  BY <1>a DEF TypeOK
<1>d. /\ NHosts \in Nat /\ host \in 1..(NHosts + 1)
      /\ mlink \in [1..NHosts -> {"none", "open", "begun", "ended", "line", "eof", "closed"}]
  BY <1>a DEF TypeOK
<1>1. CASE Connect
  <2>1. BarrierInv' /\ gen' \in 0..4 /\ gen' >= gen /\ phase' = phase
    BY <1>1, <1>a, <1>b, <1>c DEF Connect, barVars, BarrierInv
  <2>2. TypeOK'
    <3>1. host' \in 1..(NHosts + 1)
      BY <1>1, <1>a, <1>d DEF Connect, mainVars, MonitorInv, Hosts
    <3>2. mlink' \in [1..NHosts -> {"none", "open", "begun", "ended", "line", "eof", "closed"}]
      BY <1>1, <1>d DEF Connect, mainVars
    <3> QED
      BY <1>1, <2>1, <3>1, <3>2, <1>a, <1>b
         DEF Connect, mainVars, funVars, barVars, shared, progVars, TypeOK, Exit
  <2>3. MainInv'
    BY <1>1, <2>1, <1>a, <1>c
       DEF Connect, mainVars, funVars, barVars, shared, progVars, MainInv, After, Passed
  <2>4. MonitorInv'
    BY <1>1, <1>a, <1>c
       DEF Connect, mainVars, funVars, barVars, shared, progVars, MonitorInv, After,
           Ended, Hosts, TypeOK
  <2>5. \A f \in Functions : PhaseInv(f)' /\ JoinInv(f)'
    BY <1>1, <2>1, <1>a, <1>c, FunctionFrame
       DEF Connect, mainVars, funVars, barVars, shared, progVars
  <2>6. ProgressInv'
    BY <1>1, <2>1, <1>a, ProgressFrame
       DEF Connect, mainVars, funVars, barVars, shared, progVars
  <2>7. AbortOnlyOnTestFailure'
    BY <1>1 DEF Connect, Exit, AbortOnlyOnTestFailure
  <2> QED
    BY <2>1, <2>2, <2>3, <2>4, <2>5, <2>6, <2>7 DEF IInv
<1>2. CASE AwaitTests
  <2>1. /\ BarrierInv' /\ gen' \in 0..4 /\ gen' >= gen
        /\ phase' \in [Procs -> 0..4] /\ arrived' \in SUBSET Procs
        /\ phase'["main"] = phase["main"] + 1
        /\ \A q \in Functions : phase'[q] = phase[q]
    <3>1. Arrive("main") /\ Passed("main") /\ phase["main"] <= 3
      BY <1>2, <1>a, <1>b, <1>c DEF AwaitTests, MainInv, Passed
    <3> QED
      BY <3>1, <1>a, <1>b, ArriveStep
  <2>2. TypeOK'
    <3>1. host' \in 1..(NHosts + 1)
      BY <1>2, <1>a, <1>d DEF AwaitTests, mainVars, MonitorInv, Hosts
    <3>2. mlink' \in [1..NHosts -> {"none", "open", "begun", "ended", "line", "eof", "closed"}]
      BY <1>2, <1>d DEF AwaitTests, mainVars
    <3> QED
      BY <1>2, <2>1, <3>1, <3>2, <1>a, <1>b
         DEF AwaitTests, mainVars, funVars, barVars, shared, progVars, TypeOK, Exit
  <2>3. MainInv'
    BY <1>2, <2>1, <1>a, <1>c
       DEF AwaitTests, mainVars, funVars, barVars, shared, progVars, MainInv, After,
           Passed
  <2>4. MonitorInv'
    BY <1>2, <1>a, <1>c
       DEF AwaitTests, mainVars, funVars, barVars, shared, progVars, MonitorInv, After,
           Ended, Hosts, TypeOK
  <2>5. \A f \in Functions : PhaseInv(f)' /\ JoinInv(f)'
    BY <1>2, <2>1, <1>a, <1>c, FunctionFrame
       DEF AwaitTests, mainVars, funVars, barVars, shared, progVars
  <2>6. ProgressInv'
    BY <1>2, <2>1, <1>a, ProgressFrame
       DEF AwaitTests, mainVars, funVars, barVars, shared, progVars
  <2>7. AbortOnlyOnTestFailure'
    BY <1>2 DEF AwaitTests, Exit, AbortOnlyOnTestFailure
  <2> QED
    BY <2>1, <2>2, <2>3, <2>4, <2>5, <2>6, <2>7 DEF IInv
<1>3. CASE TestsDone
  <2>1. BarrierInv' /\ gen' \in 0..4 /\ gen' >= gen /\ phase' = phase
    BY <1>3, <1>a, <1>b, <1>c DEF TestsDone, barVars, BarrierInv
  <2>2. TypeOK'
    <3>1. host' \in 1..(NHosts + 1)
      BY <1>3, <1>a, <1>d DEF TestsDone, mainVars, MonitorInv, Hosts
    <3>2. mlink' \in [1..NHosts -> {"none", "open", "begun", "ended", "line", "eof", "closed"}]
      BY <1>3, <1>d DEF TestsDone, mainVars
    <3> QED
      BY <1>3, <2>1, <3>1, <3>2, <1>a, <1>b
         DEF TestsDone, mainVars, funVars, barVars, shared, progVars, TypeOK, Exit
  <2>3. MainInv'
    BY <1>3, <2>1, <1>a, <1>c
       DEF TestsDone, mainVars, funVars, barVars, shared, progVars, MainInv, After,
           Passed
  <2>4. MonitorInv'
    <3>1. mpc = "test" /\ mlink' = mlink /\ Hosts' = Hosts
      BY <1>3 DEF TestsDone, Hosts
    <3>2. \A h \in Hosts : mlink[h] \notin Ended
      BY <3>1, <1>a DEF MonitorInv
    <3>3. mpc' = "test" \/ (mpc' = "begin" /\ host' = 1)
      BY <1>3, <3>1 DEF TestsDone
    <3>4. \A h \in Hosts : ~(h < 1)
      BY DEF Hosts
    <3> QED
      BY <3>1, <3>2, <3>3, <3>4 DEF MonitorInv, After
  <2>5. \A f \in Functions : PhaseInv(f)' /\ JoinInv(f)'
    BY <1>3, <2>1, <1>a, <1>c, FunctionFrame
       DEF TestsDone, mainVars, funVars, barVars, shared, progVars
  <2>6. ProgressInv'
    BY <1>3, <2>1, <1>a, ProgressFrame
       DEF TestsDone, mainVars, funVars, barVars, shared, progVars
  <2>7. AbortOnlyOnTestFailure'
    BY <1>3 DEF TestsDone, Exit, AbortOnlyOnTestFailure
  <2> QED
    BY <2>1, <2>2, <2>3, <2>4, <2>5, <2>6, <2>7 DEF IInv
<1>4. CASE BeginMonitoring
  <2>1. BarrierInv' /\ gen' \in 0..4 /\ gen' >= gen /\ phase' = phase
    BY <1>4, <1>a, <1>b, <1>c DEF BeginMonitoring, barVars, BarrierInv
  <2>2. TypeOK'
    <3>1. host' \in 1..(NHosts + 1)
      BY <1>4, <1>a, <1>d DEF BeginMonitoring, mainVars, MonitorInv, Hosts
    <3>2. mlink' \in [1..NHosts -> {"none", "open", "begun", "ended", "line", "eof", "closed"}]
      BY <1>4, <1>d DEF BeginMonitoring, mainVars
    <3> QED
      BY <1>4, <2>1, <3>1, <3>2, <1>a, <1>b
         DEF BeginMonitoring, mainVars, funVars, barVars, shared, progVars, TypeOK, Exit
  <2>3. MainInv'
    BY <1>4, <2>1, <1>a, <1>c
       DEF BeginMonitoring, mainVars, funVars, barVars, shared, progVars, MainInv,
           After, Passed
  <2>4. MonitorInv'
    <3>1. Hosts' = Hosts /\ \A h \in Hosts : h \in 1..NHosts
      BY <1>4 DEF BeginMonitoring, Hosts
    <3>2. CASE mlink' = [mlink EXCEPT ![host] = "begun"] /\ host' = host + 1
      <4>1. \A h \in Hosts : h < host' => h < host \/ h = host
        <5>1. host \in Int
          BY <1>a DEF TypeOK
        <5>2. \A h \in Hosts : h \in Int
          BY <3>1
        <5>3. host' = host + 1
          BY <3>2
        <5> QED
          BY <5>1, <5>2, <5>3, SMTT(60)
      <4>2. \A h \in Hosts : mlink'[h] = IF h = host THEN "begun" ELSE mlink[h]
        BY <1>4, <1>a, <3>1, <3>2 DEF TypeOK
      <4> QED
        BY <1>4, <1>a, <3>1, <4>1, <4>2 DEF BeginMonitoring, MonitorInv, After, Ended
    <3>3. CASE UNCHANGED <<mlink, host>>
      BY <1>4, <1>a, <3>1, <3>3 DEF BeginMonitoring, MonitorInv, After, Ended
    <3> QED
      BY <1>4, <3>2, <3>3 DEF BeginMonitoring
  <2>5. \A f \in Functions : PhaseInv(f)' /\ JoinInv(f)'
    BY <1>4, <2>1, <1>a, <1>c, FunctionFrame
       DEF BeginMonitoring, mainVars, funVars, barVars, shared, progVars
  <2>6. ProgressInv'
    BY <1>4, <2>1, <1>a, ProgressFrame
       DEF BeginMonitoring, mainVars, funVars, barVars, shared, progVars
  <2>7. AbortOnlyOnTestFailure'
    BY <1>4 DEF BeginMonitoring, Exit, AbortOnlyOnTestFailure
  <2> QED
    BY <2>1, <2>2, <2>3, <2>4, <2>5, <2>6, <2>7 DEF IInv
<1>5. CASE MonitoringStarted
  <2>1. /\ BarrierInv' /\ gen' \in 0..4 /\ gen' >= gen
        /\ phase' \in [Procs -> 0..4] /\ arrived' \in SUBSET Procs
        /\ phase'["main"] = phase["main"] + 1
        /\ \A q \in Functions : phase'[q] = phase[q]
    <3>1. Arrive("main") /\ Passed("main") /\ phase["main"] <= 3
      BY <1>5, <1>a, <1>b, <1>c DEF MonitoringStarted, MainInv, Passed
    <3> QED
      BY <3>1, <1>a, <1>b, ArriveStep
  <2>2. TypeOK'
    <3>1. host' \in 1..(NHosts + 1)
      BY <1>5, <1>a, <1>d DEF MonitoringStarted, mainVars, MonitorInv, Hosts
    <3>2. mlink' \in [1..NHosts -> {"none", "open", "begun", "ended", "line", "eof", "closed"}]
      BY <1>5, <1>d DEF MonitoringStarted, mainVars
    <3> QED
      BY <1>5, <2>1, <3>1, <3>2, <1>a, <1>b
         DEF MonitoringStarted, mainVars, funVars, barVars, shared, progVars, TypeOK,
             Exit
  <2>3. MainInv'
    BY <1>5, <2>1, <1>a, <1>c
       DEF MonitoringStarted, mainVars, funVars, barVars, shared, progVars, MainInv,
           After, Passed
  <2>4. MonitorInv'
    BY <1>5, <1>a, <1>c
       DEF MonitoringStarted, mainVars, funVars, barVars, shared, progVars, MonitorInv,
           After, Ended, Hosts, TypeOK
  <2>5. \A f \in Functions : PhaseInv(f)' /\ JoinInv(f)'
    BY <1>5, <2>1, <1>a, <1>c, FunctionFrame
       DEF MonitoringStarted, mainVars, funVars, barVars, shared, progVars
  <2>6. ProgressInv'
    BY <1>5, <2>1, <1>a, ProgressFrame
       DEF MonitoringStarted, mainVars, funVars, barVars, shared, progVars
  <2>7. AbortOnlyOnTestFailure'
    BY <1>5 DEF MonitoringStarted, Exit, AbortOnlyOnTestFailure
  <2> QED
    BY <2>1, <2>2, <2>3, <2>4, <2>5, <2>6, <2>7 DEF IInv
<1>6. CASE AwaitTotals
  <2>1. /\ BarrierInv' /\ gen' \in 0..4 /\ gen' >= gen
        /\ phase' \in [Procs -> 0..4] /\ arrived' \in SUBSET Procs
        /\ phase'["main"] = phase["main"] + 1
        /\ \A q \in Functions : phase'[q] = phase[q]
    <3>1. Arrive("main") /\ Passed("main") /\ phase["main"] <= 3
      BY <1>6, <1>a, <1>b, <1>c DEF AwaitTotals, MainInv, Passed
    <3> QED
      BY <3>1, <1>a, <1>b, ArriveStep
  <2>2. TypeOK'
    <3>1. host' \in 1..(NHosts + 1)
      BY <1>6, <1>a, <1>d DEF AwaitTotals, mainVars, MonitorInv, Hosts
    <3>2. mlink' \in [1..NHosts -> {"none", "open", "begun", "ended", "line", "eof", "closed"}]
      BY <1>6, <1>d DEF AwaitTotals, mainVars
    <3> QED
      BY <1>6, <2>1, <3>1, <3>2, <1>a, <1>b
         DEF AwaitTotals, mainVars, funVars, barVars, shared, progVars, TypeOK, Exit
  <2>3. MainInv'
    BY <1>6, <2>1, <1>a, <1>c
       DEF AwaitTotals, mainVars, funVars, barVars, shared, progVars, MainInv, After,
           Passed
  <2>4. MonitorInv'
    BY <1>6, <1>a, <1>c
       DEF AwaitTotals, mainVars, funVars, barVars, shared, progVars, MonitorInv, After,
           Ended, Hosts, TypeOK
  <2>5. \A f \in Functions : PhaseInv(f)' /\ JoinInv(f)'
    BY <1>6, <2>1, <1>a, <1>c, FunctionFrame
       DEF AwaitTotals, mainVars, funVars, barVars, shared, progVars
  <2>6. ProgressInv'
    BY <1>6, <2>1, <1>a, ProgressFrame
       DEF AwaitTotals, mainVars, funVars, barVars, shared, progVars
  <2>7. AbortOnlyOnTestFailure'
    BY <1>6 DEF AwaitTotals, Exit, AbortOnlyOnTestFailure
  <2> QED
    BY <2>1, <2>2, <2>3, <2>4, <2>5, <2>6, <2>7 DEF IInv
<1>7. CASE SpawnProgress
  <2>1. /\ BarrierInv' /\ gen' \in 0..4 /\ gen' >= gen
        /\ phase' \in [Procs -> 0..4] /\ arrived' \in SUBSET Procs
        /\ phase'["main"] = phase["main"] + 1
        /\ \A q \in Functions : phase'[q] = phase[q]
    <3>1. Arrive("main") /\ Passed("main") /\ phase["main"] <= 3
      BY <1>7, <1>a, <1>b, <1>c DEF SpawnProgress, MainInv, Passed
    <3> QED
      BY <3>1, <1>a, <1>b, ArriveStep
  <2>2. TypeOK'
    <3>1. host' \in 1..(NHosts + 1)
      BY <1>7, <1>a, <1>d DEF SpawnProgress, mainVars, MonitorInv, Hosts
    <3>2. mlink' \in [1..NHosts -> {"none", "open", "begun", "ended", "line", "eof", "closed"}]
      BY <1>7, <1>d DEF SpawnProgress, mainVars
    <3> QED
      BY <1>7, <2>1, <3>1, <3>2, <1>a, <1>b
         DEF SpawnProgress, mainVars, funVars, barVars, shared, progVars, TypeOK, Exit
  <2>3. MainInv'
    BY <1>7, <2>1, <1>a, <1>c
       DEF SpawnProgress, mainVars, funVars, barVars, shared, progVars, MainInv, After,
           Passed
  <2>4. MonitorInv'
    BY <1>7, <1>a, <1>c
       DEF SpawnProgress, mainVars, funVars, barVars, shared, progVars, MonitorInv,
           After, Ended, Hosts, TypeOK
  <2>5. \A f \in Functions : PhaseInv(f)' /\ JoinInv(f)'
    BY <1>7, <2>1, <1>a, <1>c, FunctionFrame
       DEF SpawnProgress, mainVars, funVars, barVars, shared, progVars
  <2>6. ProgressInv'
    BY <1>7, <2>1, <1>a, <1>c DEF SpawnProgress, ProgressInv, MainInv, Passed
  <2>7. AbortOnlyOnTestFailure'
    BY <1>7 DEF SpawnProgress, Exit, AbortOnlyOnTestFailure
  <2> QED
    BY <2>1, <2>2, <2>3, <2>4, <2>5, <2>6, <2>7 DEF IInv
<1>8. CASE RequestsFinished
  <2>1. BarrierInv' /\ gen' \in 0..4 /\ gen' >= gen /\ phase' = phase
    BY <1>8, <1>a, <1>b, <1>c DEF RequestsFinished, barVars, BarrierInv
  <2>2. TypeOK'
    <3>1. host' \in 1..(NHosts + 1)
      BY <1>8, <1>a, <1>d DEF RequestsFinished, mainVars, MonitorInv, Hosts
    <3>2. mlink' \in [1..NHosts -> {"none", "open", "begun", "ended", "line", "eof", "closed"}]
      BY <1>8, <1>d DEF RequestsFinished, mainVars
    <3> QED
      BY <1>8, <2>1, <3>1, <3>2, <1>a, <1>b
         DEF RequestsFinished, mainVars, funVars, barVars, shared, progVars, TypeOK,
             Exit
  <2>3. MainInv'
    BY <1>8, <2>1, <1>a, <1>c
       DEF RequestsFinished, mainVars, funVars, barVars, shared, progVars, MainInv,
           After, Passed
  <2>4. MonitorInv'
    BY <1>8, <1>a, <1>c
       DEF RequestsFinished, mainVars, funVars, barVars, shared, progVars, MonitorInv,
           After, Ended, Hosts, TypeOK
  <2>5. \A f \in Functions : PhaseInv(f)' /\ JoinInv(f)'
    BY <1>8, <2>1, <1>a, <1>c, FunctionFrame
       DEF RequestsFinished, mainVars, funVars, barVars, shared, progVars
  <2>6. ProgressInv'
    BY <1>8, <2>1, <1>a, ProgressFrame
       DEF RequestsFinished, mainVars, funVars, barVars, shared, progVars
  <2>7. AbortOnlyOnTestFailure'
    BY <1>8 DEF RequestsFinished, Exit, AbortOnlyOnTestFailure
  <2> QED
    BY <2>1, <2>2, <2>3, <2>4, <2>5, <2>6, <2>7 DEF IInv
<1>9. CASE EndMonitoring
  <2>1. BarrierInv' /\ gen' \in 0..4 /\ gen' >= gen /\ phase' = phase
    BY <1>9, <1>a, <1>b, <1>c DEF EndMonitoring, barVars, BarrierInv
  <2>2. TypeOK'
    <3>1. host' \in 1..(NHosts + 1)
      BY <1>9, <1>a, <1>d DEF EndMonitoring, mainVars, MonitorInv, Hosts
    <3>2. mlink' \in [1..NHosts -> {"none", "open", "begun", "ended", "line", "eof", "closed"}]
      BY <1>9, <1>d DEF EndMonitoring, mainVars
    <3> QED
      BY <1>9, <2>1, <3>1, <3>2, <1>a, <1>b
         DEF EndMonitoring, mainVars, funVars, barVars, shared, progVars, TypeOK, Exit
  <2>3. MainInv'
    BY <1>9, <2>1, <1>a, <1>c
       DEF EndMonitoring, mainVars, funVars, barVars, shared, progVars, MainInv, After,
           Passed
  <2>4. MonitorInv'
    BY <1>9, <1>a, <1>c
       DEF EndMonitoring, mainVars, funVars, barVars, shared, progVars, MonitorInv,
           After, Ended, Hosts, TypeOK
  <2>5. \A f \in Functions : PhaseInv(f)' /\ JoinInv(f)'
    BY <1>9, <2>1, <1>a, <1>c, FunctionFrame
       DEF EndMonitoring, mainVars, funVars, barVars, shared, progVars
  <2>6. ProgressInv'
    BY <1>9, <2>1, <1>a, ProgressFrame
       DEF EndMonitoring, mainVars, funVars, barVars, shared, progVars
  <2>7. AbortOnlyOnTestFailure'
    BY <1>9 DEF EndMonitoring, Exit, AbortOnlyOnTestFailure
  <2> QED
    BY <2>1, <2>2, <2>3, <2>4, <2>5, <2>6, <2>7 DEF IInv
<1>10. CASE ReadLine
  <2>1. BarrierInv' /\ gen' \in 0..4 /\ gen' >= gen /\ phase' = phase
    BY <1>10, <1>a, <1>b, <1>c DEF ReadLine, barVars, BarrierInv
  <2>2. TypeOK'
    <3>1. host' \in 1..(NHosts + 1)
      BY <1>10, <1>a, <1>d DEF ReadLine, mainVars, MonitorInv, Hosts
    <3>2. mlink' \in [1..NHosts -> {"none", "open", "begun", "ended", "line", "eof", "closed"}]
      BY <1>10, <1>d DEF ReadLine, mainVars
    <3> QED
      BY <1>10, <2>1, <3>1, <3>2, <1>a, <1>b
         DEF ReadLine, mainVars, funVars, barVars, shared, progVars, TypeOK, Exit
  <2>3. MainInv'
    BY <1>10, <2>1, <1>a, <1>c
       DEF ReadLine, mainVars, funVars, barVars, shared, progVars, MainInv, After,
           Passed
  <2>4. MonitorInv'
    BY <1>10, <1>a, <1>c
       DEF ReadLine, mainVars, funVars, barVars, shared, progVars, MonitorInv, After,
           Ended, Hosts, TypeOK
  <2>5. \A f \in Functions : PhaseInv(f)' /\ JoinInv(f)'
    BY <1>10, <2>1, <1>a, <1>c, FunctionFrame
       DEF ReadLine, mainVars, funVars, barVars, shared, progVars
  <2>6. ProgressInv'
    BY <1>10, <2>1, <1>a, ProgressFrame
       DEF ReadLine, mainVars, funVars, barVars, shared, progVars
  <2>7. AbortOnlyOnTestFailure'
    BY <1>10 DEF ReadLine, Exit, AbortOnlyOnTestFailure
  <2> QED
    BY <2>1, <2>2, <2>3, <2>4, <2>5, <2>6, <2>7 DEF IInv
<1>11. CASE QuitMonitoring
  <2>1. BarrierInv' /\ gen' \in 0..4 /\ gen' >= gen /\ phase' = phase
    BY <1>11, <1>a, <1>b, <1>c DEF QuitMonitoring, barVars, BarrierInv
  <2>2. TypeOK'
    <3>1. host' \in 1..(NHosts + 1)
      BY <1>11, <1>a, <1>d DEF QuitMonitoring, mainVars, MonitorInv, Hosts
    <3>2. mlink' \in [1..NHosts -> {"none", "open", "begun", "ended", "line", "eof", "closed"}]
      BY <1>11, <1>d DEF QuitMonitoring, mainVars
    <3> QED
      BY <1>11, <2>1, <3>1, <3>2, <1>a, <1>b
         DEF QuitMonitoring, mainVars, funVars, barVars, shared, progVars, TypeOK, Exit
  <2>3. MainInv'
    BY <1>11, <2>1, <1>a, <1>c
       DEF QuitMonitoring, mainVars, funVars, barVars, shared, progVars, MainInv, After,
           Passed
  <2>4. MonitorInv'
    BY <1>11, <1>a, <1>c
       DEF QuitMonitoring, mainVars, funVars, barVars, shared, progVars, MonitorInv,
           After, Ended, Hosts, TypeOK
  <2>5. \A f \in Functions : PhaseInv(f)' /\ JoinInv(f)'
    BY <1>11, <2>1, <1>a, <1>c, FunctionFrame
       DEF QuitMonitoring, mainVars, funVars, barVars, shared, progVars
  <2>6. ProgressInv'
    BY <1>11, <2>1, <1>a, ProgressFrame
       DEF QuitMonitoring, mainVars, funVars, barVars, shared, progVars
  <2>7. AbortOnlyOnTestFailure'
    BY <1>11 DEF QuitMonitoring, Exit, AbortOnlyOnTestFailure
  <2> QED
    BY <2>1, <2>2, <2>3, <2>4, <2>5, <2>6, <2>7 DEF IInv
<1>12. CASE AwaitTasks
  <2>1. BarrierInv' /\ gen' \in 0..4 /\ gen' >= gen /\ phase' = phase
    BY <1>12, <1>a, <1>b, <1>c DEF AwaitTasks, barVars, BarrierInv
  <2>2. TypeOK'
    <3>1. host' \in 1..(NHosts + 1)
      BY <1>12, <1>a, <1>d DEF AwaitTasks, mainVars, MonitorInv, Hosts
    <3>2. mlink' \in [1..NHosts -> {"none", "open", "begun", "ended", "line", "eof", "closed"}]
      BY <1>12, <1>d DEF AwaitTasks, mainVars
    <3> QED
      BY <1>12, <2>1, <3>1, <3>2, <1>a, <1>b
         DEF AwaitTasks, mainVars, funVars, barVars, shared, progVars, TypeOK, Exit
  <2>3. MainInv'
    BY <1>12, <2>1, <1>a, <1>c
       DEF AwaitTasks, mainVars, funVars, barVars, shared, progVars, MainInv, After,
           Passed
  <2>4. MonitorInv'
    BY <1>12, <1>a, <1>c
       DEF AwaitTasks, mainVars, funVars, barVars, shared, progVars, MonitorInv, After,
           Ended, Hosts, TypeOK
  <2>5. \A f \in Functions : PhaseInv(f)' /\ JoinInv(f)'
    BY <1>12, <2>1, <1>a, <1>c, FunctionFrame
       DEF AwaitTasks, mainVars, funVars, barVars, shared, progVars
  <2>6. ProgressInv'
    BY <1>12, <2>1, <1>a, ProgressFrame
       DEF AwaitTasks, mainVars, funVars, barVars, shared, progVars
  <2>7. AbortOnlyOnTestFailure'
    BY <1>12 DEF AwaitTasks, Exit, AbortOnlyOnTestFailure
  <2> QED
    BY <2>1, <2>2, <2>3, <2>4, <2>5, <2>6, <2>7 DEF IInv
<1>13. CASE Report
  <2>1. BarrierInv' /\ gen' \in 0..4 /\ gen' >= gen /\ phase' = phase
    BY <1>13, <1>a, <1>b, <1>c DEF Report, barVars, BarrierInv
  <2>2. TypeOK'
    <3>1. host' \in 1..(NHosts + 1)
      BY <1>13, <1>a, <1>d DEF Report, mainVars, MonitorInv, Hosts
    <3>2. mlink' \in [1..NHosts -> {"none", "open", "begun", "ended", "line", "eof", "closed"}]
      BY <1>13, <1>d DEF Report, mainVars
    <3> QED
      BY <1>13, <2>1, <3>1, <3>2, <1>a, <1>b
         DEF Report, mainVars, funVars, barVars, shared, progVars, TypeOK, Exit
  <2>3. MainInv'
    BY <1>13, <2>1, <1>a, <1>c
       DEF Report, mainVars, funVars, barVars, shared, progVars, MainInv, After, Passed
  <2>4. MonitorInv'
    BY <1>13, <1>a, <1>c
       DEF Report, mainVars, funVars, barVars, shared, progVars, MonitorInv, After,
           Ended, Hosts, TypeOK
  <2>5. \A f \in Functions : PhaseInv(f)' /\ JoinInv(f)'
    BY <1>13, <2>1, <1>a, <1>c, FunctionFrame
       DEF Report, mainVars, funVars, barVars, shared, progVars
  <2>6. ProgressInv'
    BY <1>13, <2>1, <1>a, ProgressFrame
       DEF Report, mainVars, funVars, barVars, shared, progVars
  <2>7. AbortOnlyOnTestFailure'
    BY <1>13 DEF Report, Exit, AbortOnlyOnTestFailure
  <2> QED
    BY <2>1, <2>2, <2>3, <2>4, <2>5, <2>6, <2>7 DEF IInv
<1> QED
  BY <1>1, <1>2, <1>3, <1>4, <1>5, <1>6, <1>7, <1>8, <1>9, <1>10, <1>11, <1>12, <1>13
     DEF Main

\* Every step of a run_function task preserves the invariant.
LEMMA FunctionStep ==
    ASSUME IInv, exit = "running", NEW f \in Functions, RunFunction(f)
    PROVE  IInv'
<1> USE LoadAssumption
<1>a. /\ TypeOK /\ BarrierInv /\ MainInv /\ MonitorInv /\ ProgressInv
      /\ \A g \in Functions : PhaseInv(g) /\ JoinInv(g)
  BY DEF IInv
<1>b. Procs' = Procs /\ f \in Procs /\ Functions \subseteq Procs \ {"main"} /\ "main" \in Procs \ {f}
  BY DEF Procs
<1>c. /\ gen \in 0..4 /\ total_requests \in Nat
      /\ fpc \in [Functions -> {"setup", "tested", "count", "counted", "send", "join",
                                "finish", "returned"}]
      /\ phase \in [Procs -> 0..4]
      /\ joined \in [Functions -> Nat]
      /\ reqs \in [Functions -> Seq(Request)]
  BY <1>a DEF TypeOK
<1>e. opts' = opts
  BY DEF RunFunction, TestRequest, AwaitMonitoring, RefuseTime, AddTotal, RefuseRate,
     StartSending, Generate, StartJoining, Join, AwaitFinish, Return
<1>d. /\ reqs[f] \in Seq(Request) /\ Len(reqs[f]) \in Nat /\ joined[f] \in Nat
      /\ Planned(f) \in Nat /\ Planned(f)' = Planned(f)
      /\ Loaded' = Loaded /\ (Loaded => Planned(f) > 0)
  BY <1>c, <1>e DEF Planned, Loaded
<1>1. CASE TestRequest(f)
  <2>1. ASSUME Arrive(f), fpc' = [fpc EXCEPT ![f] = "tested"], UNCHANGED exit
        PROVE  IInv'
    <3>1. /\ BarrierInv' /\ gen' \in 0..4 /\ gen' >= gen
          /\ phase' \in [Procs -> 0..4] /\ arrived' \in SUBSET Procs
          /\ phase'[f] = phase[f] + 1
          /\ \A q \in Procs \ {f} : phase'[q] = phase[q]
      <4>1. Arrive(f) /\ Passed(f) /\ phase[f] <= 3
        BY <1>1, <2>1, <1>a, <1>c, SMTT(60) DEF TestRequest, PhaseInv, Passed
      <4> QED
        BY <4>1, <1>a, <1>b, ArriveStep
    <3>2. TypeOK'
      BY <1>1, <2>1, <3>1, <1>a, <1>b, <1>d
         DEF TestRequest, mainVars, funVars, barVars, shared, progVars, TypeOK, Exit
    <3>3. MainInv' /\ MonitorInv'
      BY <1>1, <2>1, <3>1, <1>a, <1>b, <1>c, MainFrame
         DEF TestRequest, mainVars, funVars, barVars, shared, progVars
    <3>4. \A g \in Functions \ {f} : PhaseInv(g)' /\ JoinInv(g)'
      BY <1>1, <2>1, <3>1, <1>a, <1>b, <1>c, <1>d, FunctionFrame
         DEF TestRequest, mainVars, funVars, barVars, shared, progVars
    <3>5. PhaseInv(f)'
      BY <1>1, <2>1, <3>1, <1>a, <1>c, <1>d, SMTT(60)
         DEF TestRequest, mainVars, funVars, barVars, shared, progVars, PhaseInv, Passed
    <3>6. JoinInv(f)'
      BY <1>1, <2>1, <3>1, <3>5, <1>a, <1>c, <1>d, SMTT(60)
         DEF TestRequest, mainVars, funVars, barVars, shared, progVars, JoinInv,
             PhaseInv, Finished
    <3>7. ProgressInv'
      BY <1>1, <2>1, <3>1, <1>a, <1>c, ProgressFrame
         DEF TestRequest, mainVars, funVars, barVars, shared, progVars
    <3>8. AbortOnlyOnTestFailure'
      BY <1>1, <2>1 DEF TestRequest, Exit, AbortOnlyOnTestFailure
    <3> QED
      BY <3>1, <3>2, <3>3, <3>4, <3>5, <3>6, <3>7, <3>8 DEF IInv
  <2>2. ASSUME Exit("aborted"), UNCHANGED <<phase, arrived, gen, fpc>>
        PROVE  IInv'
    <3>1. /\ BarrierInv' /\ gen' = gen /\ phase' = phase /\ arrived' = arrived
      BY <1>1, <2>2, <1>a, <1>b DEF TestRequest, barVars, BarrierInv
    <3>2. TypeOK'
      BY <1>1, <2>2, <3>1, <1>a, <1>b, <1>d, ZenonT(60)
         DEF TestRequest, mainVars, funVars, barVars, shared, progVars, TypeOK, Exit
    <3>3. MainInv' /\ MonitorInv'
      BY <1>1, <2>2, <3>1, <1>a, <1>b, <1>c, MainFrame
         DEF TestRequest, mainVars, funVars, barVars, shared, progVars
    <3>4. \A g \in Functions \ {f} : PhaseInv(g)' /\ JoinInv(g)'
      BY <1>1, <2>2, <3>1, <1>a, <1>b, <1>c, <1>d, FunctionFrame
         DEF TestRequest, mainVars, funVars, barVars, shared, progVars
    <3>5. PhaseInv(f)'
      BY <1>1, <2>2, <3>1, <1>a, <1>c, <1>d
         DEF TestRequest, mainVars, funVars, barVars, shared, progVars, PhaseInv, Passed
    <3>6. JoinInv(f)'
      BY <1>1, <2>2, <3>1, <3>5, <1>a, <1>c, <1>d
         DEF TestRequest, mainVars, funVars, barVars, shared, progVars, JoinInv,
             PhaseInv, Finished
    <3>7. ProgressInv'
      BY <1>1, <2>2, <3>1, <1>a, <1>c, ProgressFrame
         DEF TestRequest, mainVars, funVars, barVars, shared, progVars
    <3>8. AbortOnlyOnTestFailure'
      BY <1>1, <2>2 DEF TestRequest, Exit, AbortOnlyOnTestFailure
    <3> QED
      BY <3>1, <3>2, <3>3, <3>4, <3>5, <3>6, <3>7, <3>8 DEF IInv
  <2> QED
    BY <1>1, <2>1, <2>2 DEF TestRequest
<1>2. CASE AwaitMonitoring(f)
  <2>1. CASE opts.oneshot
    <3>1. /\ BarrierInv' /\ gen' = gen /\ phase' = phase /\ arrived' = arrived
      BY <1>2, <2>1, <1>a, <1>b DEF AwaitMonitoring, barVars, BarrierInv
    <3>2. TypeOK'
      BY <1>2, <2>1, <3>1, <1>a, <1>b, <1>d, ZenonT(60)
         DEF AwaitMonitoring, mainVars, funVars, barVars, shared, progVars, TypeOK, Exit
    <3>3. MainInv' /\ MonitorInv'
      BY <1>2, <2>1, <3>1, <1>a, <1>b, <1>c, MainFrame
         DEF AwaitMonitoring, mainVars, funVars, barVars, shared, progVars
    <3>4. \A g \in Functions \ {f} : PhaseInv(g)' /\ JoinInv(g)'
      BY <1>2, <2>1, <3>1, <1>a, <1>b, <1>c, <1>d, FunctionFrame
         DEF AwaitMonitoring, mainVars, funVars, barVars, shared, progVars
    <3>5. PhaseInv(f)'
      BY <1>2, <2>1, <3>1, <1>a, <1>c, <1>d
         DEF AwaitMonitoring, mainVars, funVars, barVars, shared, progVars, PhaseInv,
             Passed
    <3>6. JoinInv(f)'
      BY <1>2, <2>1, <3>1, <3>5, <1>a, <1>c, <1>d
         DEF AwaitMonitoring, mainVars, funVars, barVars, shared, progVars, JoinInv,
             PhaseInv, Finished
    <3>7. ProgressInv'
      BY <1>2, <2>1, <3>1, <1>a, <1>c, ProgressFrame
         DEF AwaitMonitoring, mainVars, funVars, barVars, shared, progVars
    <3>8. AbortOnlyOnTestFailure'
      BY <1>2, <2>1 DEF AwaitMonitoring, Exit, AbortOnlyOnTestFailure
    <3> QED
      BY <3>1, <3>2, <3>3, <3>4, <3>5, <3>6, <3>7, <3>8 DEF IInv
  <2>2. CASE ~opts.oneshot
    <3>1. /\ BarrierInv' /\ gen' \in 0..4 /\ gen' >= gen
          /\ phase' \in [Procs -> 0..4] /\ arrived' \in SUBSET Procs
          /\ phase'[f] = phase[f] + 1
          /\ \A q \in Procs \ {f} : phase'[q] = phase[q]
      <4>1. Arrive(f) /\ Passed(f) /\ phase[f] <= 3
        BY <1>2, <2>2, <1>a, <1>c DEF AwaitMonitoring, PhaseInv, Passed
      <4> QED
        BY <4>1, <1>a, <1>b, ArriveStep
    <3>2. TypeOK'
      BY <1>2, <2>2, <3>1, <1>a, <1>b, <1>d, ZenonT(60)
         DEF AwaitMonitoring, mainVars, funVars, barVars, shared, progVars, TypeOK, Exit
    <3>3. MainInv' /\ MonitorInv'
      BY <1>2, <2>2, <3>1, <1>a, <1>b, <1>c, MainFrame
         DEF AwaitMonitoring, mainVars, funVars, barVars, shared, progVars
    <3>4. \A g \in Functions \ {f} : PhaseInv(g)' /\ JoinInv(g)'
      BY <1>2, <2>2, <3>1, <1>a, <1>b, <1>c, <1>d, FunctionFrame
         DEF AwaitMonitoring, mainVars, funVars, barVars, shared, progVars
    <3>5. PhaseInv(f)'
      BY <1>2, <2>2, <3>1, <1>a, <1>c, <1>d, SMTT(60)
         DEF AwaitMonitoring, mainVars, funVars, barVars, shared, progVars, PhaseInv,
             Passed
    <3>6. JoinInv(f)'
      BY <1>2, <2>2, <3>1, <3>5, <1>a, <1>c, <1>d, SMTT(60)
         DEF AwaitMonitoring, mainVars, funVars, barVars, shared, progVars, JoinInv,
             PhaseInv, Finished
    <3>7. ProgressInv'
      BY <1>2, <2>2, <3>1, <1>a, <1>c, ProgressFrame
         DEF AwaitMonitoring, mainVars, funVars, barVars, shared, progVars
    <3>8. AbortOnlyOnTestFailure'
      BY <1>2, <2>2 DEF AwaitMonitoring, Exit, AbortOnlyOnTestFailure
    <3> QED
      BY <3>1, <3>2, <3>3, <3>4, <3>5, <3>6, <3>7, <3>8 DEF IInv
  <2> QED
    BY <2>1, <2>2
<1>3. CASE AddTotal(f)
  <2>1. /\ BarrierInv' /\ gen' \in 0..4 /\ gen' >= gen
        /\ phase' \in [Procs -> 0..4] /\ arrived' \in SUBSET Procs
        /\ phase'[f] = phase[f] + 1
        /\ \A q \in Procs \ {f} : phase'[q] = phase[q]
    <3>1. Arrive(f) /\ Passed(f) /\ phase[f] <= 3
      BY <1>3, <1>a, <1>c DEF AddTotal, PhaseInv, Passed
    <3> QED
      BY <3>1, <1>a, <1>b, ArriveStep
  <2>2. TypeOK'
    <3>1. total_requests' \in Nat
      BY <1>3, <1>c, <1>d, SMTT(60) DEF AddTotal
    <3> QED
      BY <1>3, <3>1, <2>1, <1>a, <1>b
         DEF AddTotal, mainVars, funVars, barVars, shared, progVars, TypeOK, Exit
  <2>3. MainInv' /\ MonitorInv'
    BY <1>3, <2>1, <1>a, <1>b, <1>c, MainFrame
       DEF AddTotal, mainVars, funVars, barVars, shared, progVars
  <2>4. \A g \in Functions \ {f} : PhaseInv(g)' /\ JoinInv(g)'
    <3>1. /\ total_requests' >= total_requests /\ total_requests' \in Nat
          /\ UNCHANGED <<opts, joined, reqs>>
      BY <1>3, <1>c, <1>d, SMTT(60) DEF AddTotal
    <3>2. \A g \in Functions \ {f} : fpc'[g] = fpc[g] /\ phase'[g] = phase[g]
      BY <1>3, <2>1, <1>b, <1>c DEF AddTotal
    <3> QED
      BY <3>1, <3>2, <2>1, <1>a, FunctionFrame
  <2>5. PhaseInv(f)'
    <3>1. PhaseInv(f) /\ fpc[f] = "count" /\ fpc'[f] = "counted" /\ opts' = opts
      BY <1>3, <1>a, <1>c DEF AddTotal
    <3>2. Loaded => total_requests' > 0
      BY <1>3, <1>c, <1>d, SMTT(60) DEF AddTotal
    <3> QED
      BY <3>1, <3>2, <2>1, <1>d DEF PhaseInv
  <2>6. JoinInv(f)'
    <3>1. JoinInv(f) /\ PhaseInv(f)
      BY <1>a
    <3>2. /\ fpc[f] = "count" /\ fpc'[f] = "counted"
          /\ reqs' = reqs /\ joined' = joined
      BY <1>3, <1>c DEF AddTotal
    <3>3. phase'[f] = 3
      BY <3>1, <3>2, <2>1 DEF PhaseInv
    <3>4. \A i \in 1..joined[f] : Finished(reqs[f][i])
      BY <3>1 DEF JoinInv
    <3> QED
      BY <3>1, <3>2, <3>3, <3>4, <1>d, <1>e DEF JoinInv
  <2>7. ProgressInv'
    BY <1>3, <2>1, <1>a, <1>c, ProgressFrame
       DEF AddTotal, mainVars, funVars, barVars, shared, progVars
  <2>8. AbortOnlyOnTestFailure'
    BY <1>3 DEF AddTotal, Exit, AbortOnlyOnTestFailure
  <2> QED
    BY <2>1, <2>2, <2>3, <2>4, <2>5, <2>6, <2>7, <2>8 DEF IInv
<1>4. CASE StartSending(f)
  <2>1. /\ BarrierInv' /\ gen' = gen /\ phase' = phase /\ arrived' = arrived
    BY <1>4, <1>a, <1>b DEF StartSending, barVars, BarrierInv
  <2>2. TypeOK'
    BY <1>4, <2>1, <1>a, <1>b, <1>d, ZenonT(60)
       DEF StartSending, mainVars, funVars, barVars, shared, progVars, TypeOK, Exit
  <2>3. MainInv' /\ MonitorInv'
    BY <1>4, <2>1, <1>a, <1>b, <1>c, MainFrame, SMTT(60)
       DEF StartSending, mainVars, funVars, barVars, shared, progVars
  <2>4. \A g \in Functions \ {f} : PhaseInv(g)' /\ JoinInv(g)'
    <3>1. total_requests' = total_requests /\ UNCHANGED <<opts, joined, reqs>>
      BY <1>4 DEF StartSending, shared
    <3>2. \A g \in Functions \ {f} : fpc'[g] = fpc[g]
      BY <1>4, <1>c DEF StartSending
    <3> QED
      BY <3>1, <3>2, <2>1, <1>a, <1>c, FunctionFrame
  <2>5. PhaseInv(f)'
    BY <1>4, <2>1, <1>a, <1>c, <1>d
       DEF StartSending, mainVars, funVars, barVars, shared, progVars, PhaseInv, Passed
  <2>6. JoinInv(f)'
    BY <1>4, <2>1, <2>5, <1>a, <1>c, <1>d
       DEF StartSending, mainVars, funVars, barVars, shared, progVars, JoinInv,
           PhaseInv, Finished
  <2>7. ProgressInv'
    BY <1>4, <2>1, <1>a, <1>c, ProgressFrame, SMTT(60)
       DEF StartSending, mainVars, funVars, barVars, shared, progVars
  <2>8. AbortOnlyOnTestFailure'
    BY <1>4 DEF StartSending, Exit, AbortOnlyOnTestFailure
  <2> QED
    BY <2>1, <2>2, <2>3, <2>4, <2>5, <2>6, <2>7, <2>8 DEF IInv
<1>r. CASE RefuseTime(f) \/ RefuseRate(f)
  <2>1. /\ UNCHANGED <<opts, mainVars, funVars, barVars, reqs, shared, progVars>>
        /\ exit' = "aborted" /\ ~Loaded
    BY <1>r DEF RefuseTime, RefuseRate, Exit, Loaded
  <2>2. TypeOK'
    BY <2>1, <1>a, <1>b, ZenonT(60) DEF mainVars, funVars, barVars, shared, progVars, TypeOK
  <2>3. BarrierInv'
    BY <2>1, <1>a, <1>b DEF barVars, BarrierInv
  <2>4. MainInv' /\ MonitorInv'
    BY <2>1, <1>a, <1>c, MainFrame DEF barVars
  <2>5. \A g \in Functions : PhaseInv(g)' /\ JoinInv(g)'
    BY <2>1, <1>a, <1>c, FunctionFrame DEF barVars, funVars, shared
  <2>6. ProgressInv'
    BY <2>1, <1>a, <1>c, ProgressFrame DEF barVars
  <2>7. AbortOnlyOnTestFailure'
    BY <2>1, <1>d DEF AbortOnlyOnTestFailure
  <2> QED
    BY <2>2, <2>3, <2>4, <2>5, <2>6, <2>7 DEF IInv
<1>5. CASE Generate(f)
  <2>1. /\ BarrierInv' /\ gen' = gen /\ phase' = phase /\ arrived' = arrived
    BY <1>5, <1>a, <1>b DEF Generate, barVars, BarrierInv
  <2>2. TypeOK'
    <3> DEFINE v == NextNdpVar(ndp_var[f], Den)
    <3>1. v \in 0..Den
      BY <1>a, NextNdpVarRange DEF TypeOK
    <3>2. which_request[f] \in Nat /\ which_request[f] < PoolSize[f] /\ PoolSize[f] \in Nat \ {0}
      BY <1>a DEF TypeOK
    <3>3. NextRequest(which_request[f], PoolSize[f]) \in Nat
          /\ NextRequest(which_request[f], PoolSize[f]) < PoolSize[f]
      BY <3>2 DEF NextRequest
    <3>4. [pool |-> which_request[f], ndp |-> AllowNdp(v, Num[f], Den), st |-> "spawned"]
            \in Request
      BY <3>2 DEF Request, AllowNdp, ForceNdp
    <3> HIDE DEF v
    <3>5. reqs' \in [Functions -> Seq(Request)]
      BY <1>5, <1>c, <1>d, <3>4 DEF Generate, v
    <3>6. which_request' \in [Functions -> Nat] /\ \A g \in Functions : which_request'[g] < PoolSize[g]
      <4>1. which_request' = [which_request EXCEPT ![f] = NextRequest(which_request[f], PoolSize[f])]
        BY <1>5 DEF Generate
      <4> QED
        BY <4>1, <3>3, <1>a DEF TypeOK
    <3>7. ndp_var' \in [Functions -> 0..Den]
      BY <1>5, <3>1, <1>a DEF Generate, TypeOK, v
    <3>8. ndp_requests' \in Nat
      BY <1>5, <1>a DEF Generate, TypeOK
    <3> QED
      BY <1>5, <3>5, <3>6, <3>7, <3>8, <2>1, <1>a, <1>b, ZenonT(60)
         DEF Generate, mainVars, funVars, barVars, shared, progVars, TypeOK
  <2>3. MainInv' /\ MonitorInv'
    BY <1>5, <2>1, <1>a, <1>b, <1>c, MainFrame
       DEF Generate, mainVars, funVars, barVars, shared, progVars
  <2>4. \A g \in Functions \ {f} : PhaseInv(g)' /\ JoinInv(g)'
    BY <1>5, <2>1, <1>a, <1>b, <1>c, <1>d, FunctionFrame
       DEF Generate, mainVars, funVars, barVars, shared, progVars
  <2>5. PhaseInv(f)'
    BY <1>5, <2>1, <1>a, <1>c, <1>d
       DEF Generate, mainVars, funVars, barVars, shared, progVars, PhaseInv
  <2>6. JoinInv(f)'
    <3>1. PICK r : reqs'[f] = Append(reqs[f], r)
      BY <1>5, <1>c DEF Generate
    <3>2. Len(reqs'[f]) = Len(reqs[f]) + 1 /\ \A i \in 1..Len(reqs[f]) : reqs'[f][i] = reqs[f][i]
      BY <3>1, <1>d
    <3> QED
      BY <1>5, <3>2, <2>1, <1>a, <1>c, <1>d, SMTT(60)
         DEF Generate, mainVars, funVars, barVars, shared, progVars, JoinInv, PhaseInv,
             Finished
  <2>7. ProgressInv'
    BY <1>5, <2>1, <1>a, <1>c, ProgressFrame
       DEF Generate, mainVars, funVars, barVars, shared, progVars
  <2>8. AbortOnlyOnTestFailure'
    BY <1>5 DEF Generate, Exit, AbortOnlyOnTestFailure
  <2> QED
    BY <2>1, <2>2, <2>3, <2>4, <2>5, <2>6, <2>7, <2>8 DEF IInv
<1>6. CASE StartJoining(f)
  <2>1. /\ BarrierInv' /\ gen' = gen /\ phase' = phase /\ arrived' = arrived
    BY <1>6, <1>a, <1>b DEF StartJoining, barVars, BarrierInv
  <2>2. TypeOK'
    BY <1>6, <2>1, <1>a, <1>b, <1>d, ZenonT(60)
       DEF StartJoining, mainVars, funVars, barVars, shared, progVars, TypeOK, Exit
  <2>3. MainInv' /\ MonitorInv'
    BY <1>6, <2>1, <1>a, <1>b, <1>c, MainFrame
       DEF StartJoining, mainVars, funVars, barVars, shared, progVars
  <2>4. \A g \in Functions \ {f} : PhaseInv(g)' /\ JoinInv(g)'
    BY <1>6, <2>1, <1>a, <1>b, <1>c, <1>d, FunctionFrame
       DEF StartJoining, mainVars, funVars, barVars, shared, progVars
  <2>5. PhaseInv(f)'
    BY <1>6, <2>1, <1>a, <1>c, <1>d
       DEF StartJoining, mainVars, funVars, barVars, shared, progVars, PhaseInv, Passed
  <2>6. JoinInv(f)'
    BY <1>6, <2>1, <2>5, <1>a, <1>c, <1>d
       DEF StartJoining, mainVars, funVars, barVars, shared, progVars, JoinInv,
           PhaseInv, Finished
  <2>7. ProgressInv'
    BY <1>6, <2>1, <1>a, <1>c, ProgressFrame
       DEF StartJoining, mainVars, funVars, barVars, shared, progVars
  <2>8. AbortOnlyOnTestFailure'
    BY <1>6 DEF StartJoining, Exit, AbortOnlyOnTestFailure
  <2> QED
    BY <2>1, <2>2, <2>3, <2>4, <2>5, <2>6, <2>7, <2>8 DEF IInv
<1>7. CASE Join(f)
  <2>1. /\ BarrierInv' /\ gen' = gen /\ phase' = phase /\ arrived' = arrived
    BY <1>7, <1>a, <1>b DEF Join, barVars, BarrierInv
  <2>2. TypeOK'
    <3>1. joined' \in [Functions -> Nat]
      BY <1>7, <1>c, <1>d, SMTT(60) DEF Join
    <3> QED
      BY <1>7, <3>1, <2>1, <1>a, <1>b, ZenonT(60)
         DEF Join, mainVars, funVars, barVars, shared, progVars, TypeOK, Exit
  <2>3. MainInv' /\ MonitorInv'
    BY <1>7, <2>1, <1>a, <1>b, <1>c, MainFrame
       DEF Join, mainVars, funVars, barVars, shared, progVars
  <2>4. \A g \in Functions \ {f} : PhaseInv(g)' /\ JoinInv(g)'
    BY <1>7, <2>1, <1>a, <1>b, <1>c, <1>d, FunctionFrame
       DEF Join, mainVars, funVars, barVars, shared, progVars
  <2>5. PhaseInv(f)'
    BY <1>7, <2>1, <1>a, <1>c, <1>d
       DEF Join, mainVars, funVars, barVars, shared, progVars, PhaseInv, Passed
  <2>6. JoinInv(f)'
    <3>1. JoinInv(f) /\ PhaseInv(f)
      BY <1>a
    <3>2. /\ reqs' = reqs /\ fpc' = fpc /\ opts' = opts /\ phase' = phase
          /\ fpc[f] = "join" /\ joined[f] < Len(reqs[f]) /\ joined'[f] = joined[f] + 1
          /\ Finished(reqs[f][joined[f] + 1])
      BY <1>7, <2>1, <1>c DEF Join
    <3>3. phase[f] # 4
      BY <3>1, <3>2 DEF PhaseInv
    <3>4. \A i \in 1..joined'[f] : Finished(reqs'[f][i])
      <4>1. \A i \in 1..joined[f] : Finished(reqs[f][i])
        BY <3>1 DEF JoinInv
      <4>2. \A i \in 1..(joined[f] + 1) : i \in 1..joined[f] \/ i = joined[f] + 1
        BY <1>d, SMTT(60)
      <4> QED
        BY <3>2, <4>1, <4>2
    <3>5. joined'[f] <= Len(reqs'[f])
      BY <3>2, <1>d, SMTT(60)
    <3> QED
      BY <3>1, <3>2, <3>3, <3>4, <3>5, <1>d DEF JoinInv
  <2>7. ProgressInv'
    BY <1>7, <2>1, <1>a, <1>c, ProgressFrame
       DEF Join, mainVars, funVars, barVars, shared, progVars
  <2>8. AbortOnlyOnTestFailure'
    BY <1>7 DEF Join, Exit, AbortOnlyOnTestFailure
  <2> QED
    BY <2>1, <2>2, <2>3, <2>4, <2>5, <2>6, <2>7, <2>8 DEF IInv
<1>8. CASE AwaitFinish(f)
  <2>1. /\ BarrierInv' /\ gen' \in 0..4 /\ gen' >= gen
        /\ phase' \in [Procs -> 0..4] /\ arrived' \in SUBSET Procs
        /\ phase'[f] = phase[f] + 1
        /\ \A q \in Procs \ {f} : phase'[q] = phase[q]
    <3>1. Arrive(f) /\ Passed(f) /\ phase[f] <= 3
      BY <1>8, <1>a, <1>c DEF AwaitFinish, PhaseInv, Passed
    <3> QED
      BY <3>1, <1>a, <1>b, ArriveStep
  <2>2. TypeOK'
    BY <1>8, <2>1, <1>a, <1>b, <1>d
       DEF AwaitFinish, mainVars, funVars, barVars, shared, progVars, TypeOK, Exit
  <2>3. MainInv' /\ MonitorInv'
    BY <1>8, <2>1, <1>a, <1>b, <1>c, MainFrame
       DEF AwaitFinish, mainVars, funVars, barVars, shared, progVars
  <2>4. \A g \in Functions \ {f} : PhaseInv(g)' /\ JoinInv(g)'
    BY <1>8, <2>1, <1>a, <1>b, <1>c, <1>d, FunctionFrame
       DEF AwaitFinish, mainVars, funVars, barVars, shared, progVars
  <2>5. PhaseInv(f)'
    BY <1>8, <2>1, <1>a, <1>c, <1>d
       DEF AwaitFinish, mainVars, funVars, barVars, shared, progVars, PhaseInv, Passed
  <2>6. JoinInv(f)'
    BY <1>8, <2>1, <2>5, <1>a, <1>c, <1>d
       DEF AwaitFinish, mainVars, funVars, barVars, shared, progVars, JoinInv, PhaseInv,
           Finished
  <2>7. ProgressInv'
    BY <1>8, <2>1, <1>a, <1>c, ProgressFrame
       DEF AwaitFinish, mainVars, funVars, barVars, shared, progVars
  <2>8. AbortOnlyOnTestFailure'
    BY <1>8 DEF AwaitFinish, Exit, AbortOnlyOnTestFailure
  <2> QED
    BY <2>1, <2>2, <2>3, <2>4, <2>5, <2>6, <2>7, <2>8 DEF IInv
<1>9. CASE Return(f)
  <2>1. /\ BarrierInv' /\ gen' = gen /\ phase' = phase /\ arrived' = arrived
    BY <1>9, <1>a, <1>b DEF Return, barVars, BarrierInv
  <2>2. TypeOK'
    BY <1>9, <2>1, <1>a, <1>b, <1>d
       DEF Return, mainVars, funVars, barVars, shared, progVars, TypeOK, Exit
  <2>3. MainInv' /\ MonitorInv'
    BY <1>9, <2>1, <1>a, <1>b, <1>c, MainFrame
       DEF Return, mainVars, funVars, barVars, shared, progVars
  <2>4. \A g \in Functions \ {f} : PhaseInv(g)' /\ JoinInv(g)'
    BY <1>9, <2>1, <1>a, <1>b, <1>c, <1>d, FunctionFrame
       DEF Return, mainVars, funVars, barVars, shared, progVars
  <2>5. PhaseInv(f)'
    BY <1>9, <2>1, <1>a, <1>c, <1>d
       DEF Return, mainVars, funVars, barVars, shared, progVars, PhaseInv, Passed
  <2>6. JoinInv(f)'
    BY <1>9, <2>1, <2>5, <1>a, <1>c, <1>d
       DEF Return, mainVars, funVars, barVars, shared, progVars, JoinInv, PhaseInv,
           Finished
  <2>7. ProgressInv'
    BY <1>9, <2>1, <1>a, <1>c, ProgressFrame
       DEF Return, mainVars, funVars, barVars, shared, progVars
  <2>8. AbortOnlyOnTestFailure'
    BY <1>9 DEF Return, Exit, AbortOnlyOnTestFailure
  <2> QED
    BY <2>1, <2>2, <2>3, <2>4, <2>5, <2>6, <2>7, <2>8 DEF IInv
<1> QED
  BY <1>1, <1>2, <1>3, <1>4, <1>r, <1>5, <1>6, <1>7, <1>8, <1>9 DEF RunFunction

\* Every step of a request task preserves the invariant.
LEMMA RequestStep ==
    ASSUME IInv, exit = "running", NEW f \in Functions, NEW i \in DOMAIN reqs[f],
           RequestTask(f, i)
    PROVE  IInv'
<1> USE LoadAssumption
<1>a. /\ TypeOK /\ BarrierInv /\ MainInv /\ MonitorInv /\ ProgressInv
      /\ \A g \in Functions : PhaseInv(g) /\ JoinInv(g)
  BY DEF IInv
<1>b. /\ reqs \in [Functions -> Seq(Request)] /\ gen \in 0..4 /\ total_requests \in Nat
      /\ joined \in [Functions -> Nat]
  BY <1>a DEF TypeOK
<1>1. PICK st \in {"sent", "ok", "err"} : SetRequest(f, i, st) /\ ~Finished(reqs[f][i])
  BY DEF RequestTask, Send, Receive, Fail, Finished
<1>2. /\ UNCHANGED <<opts, exit, mainVars, funVars, barVars, progVars>>
      /\ UNCHANGED <<total_requests, ndp_requests, done>>
      /\ sent_requests' \in Nat /\ recv_requests' \in Nat
  <2>1. sent_requests \in Nat /\ recv_requests \in Nat
    BY <1>a DEF TypeOK
  <2>2. CASE Send(f, i)
    BY <2>1, <2>2 DEF Send
  <2>3. CASE Receive(f, i)
    BY <2>1, <2>3 DEF Receive
  <2>4. CASE Fail(f, i)
    BY <2>1, <2>4 DEF Fail, shared
  <2> QED
    BY <2>2, <2>3, <2>4 DEF RequestTask
<1>3. reqs[f] \in Seq(Request) /\ i \in 1..Len(reqs[f]) /\ reqs[f][i] \in Request
  BY <1>b
<1>4. reqs' = [reqs EXCEPT ![f] = [reqs[f] EXCEPT ![i] = [reqs[f][i] EXCEPT !.st = st]]]
  BY <1>1 DEF SetRequest
<1>5. [reqs[f][i] EXCEPT !.st = st] \in Request
  BY <1>3 DEF Request
<1>6. /\ reqs'[f] \in Seq(Request) /\ Len(reqs'[f]) = Len(reqs[f])
      /\ \A j \in 1..Len(reqs[f]) : j # i => reqs'[f][j] = reqs[f][j]
  BY <1>3, <1>4, <1>5, <1>b
<1>7. /\ reqs' \in [Functions -> Seq(Request)]
      /\ \A g \in Functions \ {f} : reqs'[g] = reqs[g]
  BY <1>4, <1>6, <1>b
<1>8. TypeOK'
  <2>1. /\ opts' = opts /\ exit' = exit /\ mpc' = mpc /\ host' = host /\ mlink' = mlink
        /\ fpc' = fpc /\ ndp_var' = ndp_var /\ which_request' = which_request
        /\ joined' = joined /\ phase' = phase /\ arrived' = arrived /\ gen' = gen
        /\ ppc' = ppc /\ seen' = seen /\ Procs' = Procs
    BY <1>2 DEF mainVars, funVars, barVars, progVars, Procs
  <2> QED
    BY <1>2, <1>7, <2>1, <1>a DEF TypeOK
<1>9. BarrierInv'
  BY <1>2, <1>a DEF BarrierInv, barVars, Procs
<1>10. MainInv' /\ MonitorInv'
  BY <1>2, <1>a, <1>b, MainFrame DEF barVars
<1>11. \A g \in Functions \ {f} : PhaseInv(g)' /\ JoinInv(g)'
  BY <1>2, <1>7, <1>a, <1>b, FunctionFrame DEF barVars, funVars
<1>12. PhaseInv(f)'
  BY <1>2, <1>a DEF PhaseInv, Loaded, barVars, funVars
<1>13. JoinInv(f)'
  <2>1. i \notin 1..joined[f]
    BY <1>1, <1>a DEF JoinInv
  <2>2. reqs[f] # <<>> /\ reqs'[f] # <<>>
    BY <1>3, <1>6, SMTT(60)
  <2>3. \A j \in 1..joined[f] : reqs'[f][j] = reqs[f][j]
    BY <2>1, <1>3, <1>6, <1>a, <1>b, SMTT(60) DEF JoinInv
  <2>4. fpc' = fpc /\ joined' = joined /\ phase' = phase /\ opts' = opts
    BY <1>2 DEF funVars, barVars
  <2> QED
    BY <2>2, <2>3, <2>4, <1>6, <1>a, <1>b DEF JoinInv, Finished, Planned
<1>14. ProgressInv'
  BY <1>2, <1>a DEF ProgressInv, Loaded, progVars, barVars
<1>15. AbortOnlyOnTestFailure'
  BY <1>2 DEF AbortOnlyOnTestFailure, IInv, funVars
<1> QED
  BY <1>8, <1>9, <1>10, <1>11, <1>12, <1>13, <1>14, <1>15 DEF IInv

\* Behind the barrier "total request count" the total is positive.
LEMMA TotalPositive == IInv /\ Loaded /\ ppc # "none" => total_requests > 0
<1> SUFFICES ASSUME IInv, Loaded, ppc # "none" PROVE total_requests > 0
  OBVIOUS
<1>1. PICK f \in Functions : TRUE
  BY LoadAssumption
<1>2. gen \in 0..4 /\ gen >= 3
  BY DEF IInv, TypeOK, ProgressInv
<1>3. phase[f] >= 3
  BY <1>2 DEF IInv, BarrierInv, Procs
<1> QED
  BY <1>3 DEF IInv, PhaseInv

\* Every step of the progress task preserves the invariant.
LEMMA ProgressStep == IInv /\ exit = "running" /\ Progress => IInv'
<1> SUFFICES ASSUME IInv, exit = "running", Progress PROVE IInv'
  OBVIOUS
<1>a. /\ TypeOK /\ BarrierInv /\ MainInv /\ MonitorInv /\ ProgressInv
      /\ \A f \in Functions : PhaseInv(f) /\ JoinInv(f)
  BY DEF IInv
<1>b. gen \in 0..4 /\ total_requests \in Nat
  BY <1>a DEF TypeOK
<1>1. UNCHANGED <<opts, mainVars, funVars, barVars, reqs, shared>>
  BY
     DEF Progress, ProgressCheck, ProgressTotal, ProgressSent, ProgressRecv,
         ProgressPrint
<1>2. ProgressInv'
  <2>1. (Loaded => total_requests > 0) /\ gen >= 3
    <3>1. ppc # "none"
      BY
         DEF Progress, ProgressCheck, ProgressTotal, ProgressSent, ProgressRecv,
             ProgressPrint
    <3> QED
      BY <3>1, <1>a, TotalPositive DEF ProgressInv
  <2> QED
    BY <2>1, <1>1, <1>a, <1>b DEF barVars, ProgressInv, Loaded, TypeOK, Progress,
       ProgressCheck, ProgressTotal, ProgressSent, ProgressRecv, ProgressPrint
<1>3. exit' \in {exit, "aborted"} /\ (Loaded => exit' = exit)
  BY <1>a DEF ProgressInv, Progress, ProgressCheck, ProgressTotal, ProgressSent,
     ProgressRecv, ProgressPrint, Exit
<1>4. TypeOK'
  <2>1. /\ ppc' \in {"none", "check", "total", "sent", "recv", "print", "returned"}
        /\ seen' \in [total : Nat, sent : Nat, recv : Nat]
    BY <1>a, ZenonT(60) DEF TypeOK, Progress, ProgressCheck, ProgressTotal, ProgressSent,
       ProgressRecv, ProgressPrint
  <2> QED
    BY <2>1, <1>1, <1>3, <1>a DEF TypeOK, mainVars, funVars, barVars, shared, Procs
<1>5. BarrierInv'
  BY <1>1, <1>a DEF BarrierInv, barVars, Procs
<1>6. MainInv' /\ MonitorInv'
  BY <1>1, <1>a, <1>b, MainFrame DEF barVars
<1>7. \A f \in Functions : PhaseInv(f)' /\ JoinInv(f)'
  BY <1>1, <1>a, <1>b, FunctionFrame DEF barVars, funVars, shared
<1>8. AbortOnlyOnTestFailure'
  BY <1>1, <1>3 DEF AbortOnlyOnTestFailure, IInv, Loaded
<1> QED
  BY <1>2, <1>4, <1>5, <1>6, <1>7, <1>8 DEF IInv

\* Every step of the process preserves the invariant.
LEMMA StepIInv == IInv /\ [Next]_vars => IInv'
<1> SUFFICES ASSUME IInv, [Next]_vars PROVE IInv'
  OBVIOUS
<1>1. CASE UNCHANGED vars
  <2>1. UNCHANGED <<opts, exit, mpc, host, mlink, fpc, ndp_var, which_request, joined,
                    phase, arrived, gen, reqs, total_requests, sent_requests, recv_requests,
                    ndp_requests, done, ppc, seen>>
    BY <1>1 DEF vars, mainVars, funVars, barVars, shared, progVars
  <2>2. TypeOK' /\ BarrierInv'
    BY <2>1 DEF IInv, TypeOK, BarrierInv, Procs
  <2>3. MainInv' /\ MonitorInv' /\ ProgressInv' /\ AbortOnlyOnTestFailure'
    BY <2>1 DEF IInv, MainInv, MonitorInv, ProgressInv, AbortOnlyOnTestFailure, Hosts, Loaded
  <2>4. \A f \in Functions : PhaseInv(f)' /\ JoinInv(f)'
    BY <2>1 DEF IInv, PhaseInv, JoinInv, Finished, Loaded, Planned
  <2> QED
    BY <2>2, <2>3, <2>4 DEF IInv
<1>2. CASE exit = "running" /\ Main
  BY <1>2, MainStep
<1>3. CASE \E f \in Functions : exit = "running" /\ RunFunction(f)
  BY <1>3, FunctionStep
<1>4. CASE \E f \in Functions : \E i \in DOMAIN reqs[f] : exit = "running" /\ RequestTask(f, i)
  BY <1>4, RequestStep
<1>5. CASE exit = "running" /\ Progress
  BY <1>5, ProgressStep
<1> QED
  BY <1>1, <1>2, <1>3, <1>4, <1>5 DEF Next, Terminated

------------------------------------------------------------------------------
(* Theorems *)

\* The types of all variables, for every workload and number of hosts: no task
\* waits at the barrier more than four times, and no index leaves its pool.
THEOREM LoadTypes == Spec => []TypeOK
<1>1. IInv => TypeOK
  BY DEF IInv
<1> QED
  BY <1>1, InitIInv, StepIInv, PTL DEF Spec

\* No request task is there before '[' was written, and all are answered when ']' is.
LEMMA InsideMonitoring == IInv => LoadInsideMonitoring
<1> SUFFICES ASSUME IInv PROVE LoadInsideMonitoring
  OBVIOUS
<1>1. "main" \in Procs /\ Functions \subseteq Procs /\ gen \in 0..4
  BY DEF Procs, IInv, TypeOK
<1>2. ASSUME NEW f \in Functions, reqs[f] # <<>>, NEW h \in Hosts
      PROVE  mlink[h] \notin {"none", "open"}
  <2>1. gen >= 3
    <3>1. fpc[f] \in {"send", "join", "finish", "returned"} /\ (fpc[f] = "returned" => ~opts.oneshot)
      BY <1>2 DEF IInv, TypeOK, JoinInv
    <3> QED
      BY <3>1, <1>1 DEF IInv, PhaseInv, BarrierInv
  <2>2. phase["main"] >= 3
    BY <2>1, <1>1 DEF IInv, BarrierInv
  <2>3. mpc \in {"spawn", "finish"} \cup After
    BY <2>2 DEF IInv, TypeOK, MainInv, After
  <2> QED
    BY <2>3, <1>2 DEF IInv, MonitorInv
<1>3. ASSUME NEW h \in Hosts, mlink[h] \in Ended, NEW f \in Functions
      PROVE  Len(reqs[f]) = Planned(f) /\ \A i \in DOMAIN reqs[f] : Finished(reqs[f][i])
  <2>1. mpc \in After
    BY <1>3 DEF IInv, TypeOK, MonitorInv, After, Ended
  <2>2. gen = 4
    BY <2>1 DEF IInv, MainInv
  <2>3. phase[f] = 4
    <3>1. phase[f] = 4 \/ phase[f] = 5
      BY <2>2, <1>1 DEF IInv, BarrierInv
    <3>2. phase[f] \in 0..4
      BY <1>1 DEF IInv, TypeOK
    <3> QED
      BY <3>1, <3>2
  <2>4. Len(reqs[f]) = Planned(f) /\ joined[f] = Planned(f)
    BY <2>3 DEF IInv, JoinInv
  <2>5. DOMAIN reqs[f] = 1..Len(reqs[f])
    BY DEF IInv, TypeOK
  <2> QED
    BY <2>4, <2>5 DEF IInv, JoinInv
<1> QED
  BY <1>2, <1>3 DEF LoadInsideMonitoring, Ended

\* The measured load lies inside the monitored range, for every number of
\* functions, requests and hosts: the barriers between run_function and
\* async_main order '[' before the first request and ']' after the last answer.
THEOREM LoadIsInsideMonitoring == Spec => []LoadInsideMonitoring
<1>1. IInv => LoadInsideMonitoring
  BY InsideMonitoring
<1> QED
  BY <1>1, InitIInv, StepIInv, PTL DEF Spec

\* Once the test requests have succeeded, nothing aborts the process: the
\* progress task never divides by zero, however it is scheduled.
THEOREM NoAbortAfterTests == Spec => []AbortOnlyOnTestFailure
<1>1. IInv => AbortOnlyOnTestFailure
  BY DEF IInv
<1> QED
  BY <1>1, InitIInv, StepIInv, PTL DEF Spec

----------------------------------------------------------------------------
(***************************************************************************)
(* The counters, for every workload: what SharedState holds is the sum,    *)
(* over the functions, of what their request tasks have done, so the       *)
(* progress line and the report are exact.  And each function's loop is    *)
(* the RequestGenerator on its own.                                        *)
(***************************************************************************)

\* The requests that sent_requests, recv_requests and ndp_requests count.
SentRequests == {r \in Request : r.st # "spawned"}
OkRequests == {r \in Request : r.st = "ok"}
NdpRequests == {r \in Request : r.ndp}

\* How many requests of the sequence s, and of all sequences of a, lie in Q.
At(s, Q) == {i \in DOMAIN s : s[i] \in Q}
Tally(s, Q) == Cardinality(At(s, Q))
Tallied(a, Q) == SUM([f \in Functions |-> Tally(a[f], Q)], Functions)

\* What the functions have added to total_requests: those behind the third call
\* of wait() are past their fetch_add.
Added == SUM([f \in Functions |-> IF phase[f] >= 3 THEN Planned(f) ELSE 0], Functions)

(***************************************************************************)
(* The inductive invariant, on top of IInv: the counters are the tallies   *)
(* in every state, not only at the end.                                    *)
(***************************************************************************)
CounterInv ==
    /\ total_requests = Added
    /\ sent_requests = Tallied(reqs, SentRequests)
    /\ recv_requests = Tallied(reqs, OkRequests)
    /\ ndp_requests = Tallied(reqs, NdpRequests)

\* f spawns no more than it planned, and gets this far only with a rate and a
\* time it has not refused.
PlanInv(f) ==
    /\ Len(reqs[f]) <= Planned(f)
    /\ phase[f] >= 3 /\ opts.time = "negative" => f \in opts.idle
    /\ fpc[f] \in {"send", "join"} \/ phase[f] = 4 => f \notin opts.idle

SeenInv ==
    /\ ppc \in {"sent", "recv", "print"} => seen.total = GrandTotal
    /\ ppc = "print" => seen.recv <= GrandTotal

CloseInv ==
    /\ mpc \in After => \A h \in Hosts : h < host => mlink[h] = "closed"
    /\ mpc = "report" => \A h \in Hosts : mlink[h] = "closed"

AInv ==
    /\ CounterInv
    /\ \A f \in Functions : PlanInv(f)
    /\ SeenInv
    /\ CloseInv

------------------------------------------------------------------------------
(* Lemmas about the tallies *)

\* A tally is a number between 0 and the length of the sequence, which it
\* reaches if all of the sequence lies in Q.
LEMMA TallyBounds ==
    ASSUME NEW s, s \in Seq(Request), NEW Q
    PROVE  /\ Tally(s, Q) \in Nat
           /\ Tally(s, Q) <= Len(s)
           /\ (\A i \in DOMAIN s : s[i] \in Q) => Tally(s, Q) = Len(s)
           /\ IsFiniteSet(At(s, Q))
<1>1. DOMAIN s = 1..Len(s) /\ Len(s) \in Nat
  OBVIOUS
<1>2. IsFiniteSet(1..Len(s)) /\ Cardinality(1..Len(s)) = Len(s)
  BY <1>1, FS_Interval, SMTT(60)
<1> DEFINE A == At(s, Q)
<1>3. A \subseteq 1..Len(s)
  BY <1>1 DEF At
<1>4. IsFiniteSet(A) /\ Cardinality(A) <= Len(s)
  BY <1>2, <1>3, FS_Subset
<1>5. Cardinality(A) \in Nat
  BY <1>4, FS_CardinalityType
<1>6. (\A i \in DOMAIN s : s[i] \in Q) => A = 1..Len(s)
  BY <1>1 DEF At
<1> QED
  BY <1>2, <1>4, <1>5, <1>6 DEF Tally

\* A spawned request adds to the tallies it lies in.
LEMMA TallyAppend ==
    ASSUME NEW s, s \in Seq(Request), NEW r, r \in Request, NEW Q,
           NEW t, t = Append(s, r)
    PROVE  Tally(t, Q) = Tally(s, Q) + IF r \in Q THEN 1 ELSE 0
<1> DEFINE A == At(s, Q)
           B == At(t, Q)
           n == Len(s) + 1
<1>1. DOMAIN s = 1..Len(s) /\ Len(s) \in Nat /\ DOMAIN t = 1..n
  OBVIOUS
<1>2. t[n] = r /\ \A i \in DOMAIN s : t[i] = s[i]
  OBVIOUS
<1>3. n \notin A /\ IsFiniteSet(A) /\ Cardinality(A) \in Nat
  <2>1. n \notin A
    BY <1>1 DEF At
  <2> QED
    BY <2>1, TallyBounds, FS_CardinalityType
<1>4. B = IF r \in Q THEN A \cup {n} ELSE A
  BY <1>1, <1>2 DEF At
<1>5. Cardinality(A \cup {n}) = Cardinality(A) + 1
  BY <1>3, FS_AddElement
<1> QED
  BY <1>3, <1>4, <1>5 DEF Tally

\* A request that moves on leaves the tallies it lay in and joins those it now
\* lies in.
LEMMA TallyUpdate ==
    ASSUME NEW s, s \in Seq(Request), NEW i \in DOMAIN s, NEW r, r \in Request, NEW Q,
           NEW t, DOMAIN t = DOMAIN s, t[i] = r,
           \A j \in DOMAIN s : j # i => t[j] = s[j]
    PROVE  Tally(t, Q) = Tally(s, Q) + (IF r \in Q THEN 1 ELSE 0)
                                     - (IF s[i] \in Q THEN 1 ELSE 0)
<1> DEFINE A == At(s, Q)
           B == At(t, Q)
<1>1. DOMAIN t = DOMAIN s /\ t[i] = r /\ \A j \in DOMAIN s : j # i => t[j] = s[j]
  OBVIOUS
<1>2. IsFiniteSet(A) /\ Cardinality(A) \in Nat
  BY TallyBounds, FS_CardinalityType
<1>3. CASE r \in Q /\ s[i] \notin Q
  <2>1. B = A \cup {i} /\ i \notin A
    BY <1>1, <1>3 DEF At
  <2>2. Cardinality(B) = Cardinality(A) + 1
    BY <1>2, <2>1, FS_AddElement
  <2> QED
    BY <1>2, <1>3, <2>2 DEF Tally
<1>4. CASE r \notin Q /\ s[i] \in Q
  <2>1. B = A \ {i} /\ i \in A
    BY <1>1, <1>4 DEF At
  <2>2. Cardinality(B) = Cardinality(A) - 1
    BY <1>2, <2>1, FS_RemoveElement, ZenonT(60)
  <2> QED
    BY <1>2, <1>4, <2>2 DEF Tally
<1>5. CASE (r \in Q) <=> (s[i] \in Q)
  <2>1. B = A
    BY <1>1, <1>5 DEF At
  <2> QED
    BY <1>2, <1>5, <2>1 DEF Tally
<1> QED
  BY <1>3, <1>4, <1>5

\* When one function's requests change, the tally over all functions changes by
\* as much as that function's.
LEMMA TalliedStep ==
    ASSUME NEW a, a \in [Functions -> Seq(Request)], NEW b, NEW f \in Functions,
           \A g \in Functions : g # f => b[g] = a[g], NEW Q, NEW d \in Int,
           Tally(b[f], Q) = Tally(a[f], Q) + d
    PROVE  Tallied(b, Q) = Tallied(a, Q) + d
<1> DEFINE u == [g \in Functions |-> Tally(a[g], Q)]
           v == [g \in Functions |-> Tally(b[g], Q)]
<1>1. \A g \in Functions : u[g] \in Int
  <2> SUFFICES ASSUME NEW g \in Functions PROVE Tally(a[g], Q) \in Int
    OBVIOUS
  <2>1. a[g] \in Seq(Request)
    OBVIOUS
  <2>2. Tally(a[g], Q) \in Nat
    BY <2>1, TallyBounds
  <2> QED
    BY <2>2
<1>2. v[f] = u[f] + d /\ \A g \in Functions : g # f => v[g] = u[g]
  OBVIOUS
<1>3. IsFiniteSet(Functions)
  BY LoadAssumption
<1> HIDE DEF u, v
<1>4. SUM(v, Functions) = SUM(u, Functions) + d
  BY <1>1, <1>2, <1>3, SumOneChanged
<1> QED
  BY <1>4 DEF Tallied, u, v

\* Nothing is spawned yet, nothing is tallied.
LEMMA TalliedNothing ==
    ASSUME NEW a, a = [f \in Functions |-> <<>>], NEW Q
    PROVE  Tallied(a, Q) = 0
<1> DEFINE u == [g \in Functions |-> Tally(a[g], Q)]
<1>1. \A g \in Functions : u[g] = 0
  <2>1. At(<<>>, Q) = {}
    BY DEF At
  <2> QED
    BY <2>1, FS_EmptySet DEF Tally
<1> HIDE DEF u
<1>2. SUM(u, Functions) = 0
  BY <1>1, LoadAssumption, SumOfZeros
<1> QED
  BY <1>2 DEF Tallied, u

\* No tally exceeds what was planned, if no function spawns more than it planned.
LEMMA TalliedBounded ==
    ASSUME opts \in Options, reqs \in [Functions -> Seq(Request)],
           \A f \in Functions : Len(reqs[f]) <= Planned(f), NEW Q
    PROVE  Tallied(reqs, Q) <= GrandTotal
<1> DEFINE u == [g \in Functions |-> Tally(reqs[g], Q)]
           v == [g \in Functions |-> Planned(g)]
<1>1. \A g \in Functions : u[g] \in Int /\ v[g] \in Int /\ u[g] <= v[g]
  <2> SUFFICES ASSUME NEW g \in Functions
               PROVE  /\ Tally(reqs[g], Q) \in Int /\ Planned(g) \in Int
                      /\ Tally(reqs[g], Q) <= Planned(g)
    OBVIOUS
  <2>1. reqs[g] \in Seq(Request)
    OBVIOUS
  <2>2. Tally(reqs[g], Q) \in Nat /\ Tally(reqs[g], Q) <= Len(reqs[g])
    BY <2>1, TallyBounds
  <2>3. Planned(g) \in Nat /\ Len(reqs[g]) \in Nat
    BY <2>1, LoadAssumption DEF Planned
  <2> QED
    BY <2>2, <2>3
<1> HIDE DEF u, v
<1>2. SUM(u, Functions) <= SUM(v, Functions)
  BY <1>1, LoadAssumption, SumOrdered
<1> QED
  BY <1>2 DEF Tallied, GrandTotal, SUM, u, v

\* Once every function is past its fetch_add, all of the load is added up.
LEMMA AllAdded ==
    ASSUME \A f \in Functions : phase[f] >= 3
    PROVE  Added = GrandTotal
<1> DEFINE u == [g \in Functions |-> IF phase[g] >= 3 THEN Planned(g) ELSE 0]
           v == [g \in Functions |-> Planned(g)]
<1>1. \A g \in Functions : u[g] = v[g]
  OBVIOUS
<1> HIDE DEF u, v
<1>2. SUM(u, Functions) = SUM(v, Functions)
  BY <1>1, LoadAssumption, SumAgrees
<1> QED
  BY <1>2 DEF Added, GrandTotal, SUM, u, v

------------------------------------------------------------------------------
(* Every step preserves the invariant. *)

\* The invariant holds when the process starts.
LEMMA InitAInv == Init => AInv
<1> SUFFICES ASSUME Init PROVE AInv
  OBVIOUS
<1>1. total_requests = Added
  <2> DEFINE u == [g \in Functions |-> IF phase[g] >= 3 THEN Planned(g) ELSE 0]
  <2>1. \A g \in Functions : u[g] = 0
    BY DEF Init, Procs
  <2> HIDE DEF u
  <2>2. SUM(u, Functions) = 0
    BY <2>1, LoadAssumption, SumOfZeros
  <2> QED
    BY <2>2 DEF Added, Init, u
<1>2. CounterInv
  <2>1. reqs = [f \in Functions |-> <<>>]
    BY DEF Init
  <2>2. \A Q : Tallied(reqs, Q) = 0
    BY <2>1, TalliedNothing
  <2> QED
    BY <1>1, <2>2 DEF CounterInv, Init
<1>3. \A f \in Functions : PlanInv(f)
  <2> TAKE f \in Functions
  <2>1. Planned(f) \in Nat
    BY LoadAssumption DEF Planned
  <2> QED
    BY <2>1 DEF PlanInv, Init, Procs
<1>4. SeenInv /\ CloseInv
  BY DEF SeenInv, CloseInv, Init, After
<1> QED
  BY <1>2, <1>3, <1>4 DEF AInv

\* A step after which every function's share of total_requests is what it was
\* leaves the sum alone.
LEMMA AddedFrame ==
    ASSUME \A f \in Functions : /\ Planned(f)' = Planned(f)
                                /\ (phase'[f] >= 3) <=> (phase[f] >= 3)
    PROVE  Added' = Added
<1> DEFINE u == [g \in Functions |-> IF phase[g] >= 3 THEN Planned(g) ELSE 0]
<1>1. PICK v : v = [g \in Functions |-> IF phase'[g] >= 3 THEN Planned(g)' ELSE 0]
  OBVIOUS
<1>2. \A g \in Functions : u[g] = v[g]
  BY <1>1
<1>3. SUM(u, Functions) = SUM(v, Functions)
  <2> HIDE DEF u
  <2> QED
    BY <1>2, LoadAssumption, SumAgrees
<1>4. Added = SUM(u, Functions)
  BY DEF Added
<1>5. Added' = SUM(v, Functions)
  BY <1>1 DEF Added
<1> QED
  BY <1>3, <1>4, <1>5

\* A step that moves no function and no request leaves the counters right.
LEMMA CounterFrame ==
    ASSUME AInv, UNCHANGED <<opts, fpc, reqs, total_requests, sent_requests,
                             recv_requests, ndp_requests>>,
           \A f \in Functions : phase'[f] = phase[f]
    PROVE  CounterInv' /\ \A f \in Functions : PlanInv(f)'
<1>1. \A f \in Functions : Planned(f)' = Planned(f)
  BY DEF Planned
<1>2. Added' = Added
  BY <1>1, AddedFrame
<1>3. CounterInv'
  BY <1>2 DEF AInv, CounterInv, Tallied
<1>4. \A f \in Functions : PlanInv(f)'
  BY <1>1 DEF AInv, PlanInv
<1> QED
  BY <1>3, <1>4

\* Every step of async_main preserves the invariant.
LEMMA MainAStep == IInv /\ AInv /\ Main => AInv'
<1> SUFFICES ASSUME IInv, AInv, Main PROVE AInv'
  OBVIOUS
<1>1. CounterInv' /\ \A f \in Functions : PlanInv(f)'
  <2>1. /\ UNCHANGED <<opts, fpc, reqs, total_requests, sent_requests, recv_requests,
                       ndp_requests>>
        /\ UNCHANGED phase \/ Arrive("main")
    BY DEF Main, Connect, AwaitTests, TestsDone, BeginMonitoring, MonitoringStarted,
           AwaitTotals, SpawnProgress, RequestsFinished, EndMonitoring, ReadLine,
           QuitMonitoring, AwaitTasks, Report, funVars, barVars, shared
  <2>2. phase \in [Procs -> 0..4] /\ Functions \subseteq Procs \ {"main"}
    BY LoadAssumption DEF IInv, TypeOK, Procs
  <2>3. \A f \in Functions : phase'[f] = phase[f]
    BY <2>1, <2>2 DEF Arrive
  <2> QED
    BY <2>1, <2>3, CounterFrame
<1>2. SeenInv'
  <2>1. GrandTotal' = GrandTotal
    <3>1. opts' = opts
      BY DEF Main, Connect, AwaitTests, TestsDone, BeginMonitoring, MonitoringStarted,
             AwaitTotals, SpawnProgress, RequestsFinished, EndMonitoring, ReadLine,
             QuitMonitoring, AwaitTasks, Report
    <3> QED
      BY <3>1 DEF GrandTotal, Planned
  <2>2. UNCHANGED progVars \/ ppc' = "check"
    BY DEF Main, Connect, AwaitTests, TestsDone, BeginMonitoring, MonitoringStarted,
           AwaitTotals, SpawnProgress, RequestsFinished, EndMonitoring, ReadLine,
           QuitMonitoring, AwaitTasks, Report
  <2> QED
    BY <2>1, <2>2 DEF AInv, SeenInv, progVars
<1>3. CloseInv'
  <2> USE DEF mainVars
  <2>a. /\ CloseInv /\ NHosts \in Nat /\ host \in 1..(NHosts + 1)
        /\ mpc \in {"read", "quit"} => host \in Hosts
        /\ mlink \in [1..NHosts -> {"none", "open", "begun", "ended", "line", "eof", "closed"}]
    BY LoadAssumption DEF AInv, IInv, TypeOK, MonitorInv
  <2>b. Hosts \subseteq 1..NHosts
    BY DEF Hosts
  <2>c. opts' = opts => Hosts' = Hosts
    BY DEF Hosts
  <2>1. CASE Connect \/ AwaitTests \/ TestsDone \/ BeginMonitoring \/ MonitoringStarted
             \/ AwaitTotals \/ SpawnProgress
    BY <2>1 DEF Connect, AwaitTests, TestsDone, BeginMonitoring, MonitoringStarted,
                AwaitTotals, SpawnProgress, CloseInv, After
  <2>2. CASE RequestsFinished
    <3>1. host' = 1 /\ mpc' = "end" /\ opts' = opts
      BY <2>2 DEF RequestsFinished
    <3>2. \A h \in Hosts : ~(h < 1)
      BY <2>b, <2>a
    <3> QED
      BY <3>1, <3>2, <2>c DEF CloseInv
  <2>3. CASE EndMonitoring \/ ReadLine
    <3>1. /\ opts' = opts /\ host' = host /\ host \in Hosts
          /\ mpc \in After /\ mpc' # "report" /\ mpc # "report"
          /\ \A h \in Hosts : h # host => mlink'[h] = mlink[h]
      BY <2>3, <2>a, <2>b DEF EndMonitoring, ReadLine, After
    <3>2. \A h \in Hosts : h < host => mlink[h] = "closed" /\ h # host
      BY <3>1, <2>a, <2>b DEF CloseInv
    <3> QED
      BY <3>1, <3>2, <2>c DEF CloseInv
  <2>4. CASE QuitMonitoring
    <3>1. /\ opts' = opts /\ host \in Hosts /\ mpc = "quit" /\ mpc' # "report"
          /\ \/ host' = host /\ mlink' = mlink
             \/ host' = host + 1 /\ mlink' = [mlink EXCEPT ![host] = "closed"]
      BY <2>4, <2>a DEF QuitMonitoring
    <3>2. \A h \in Hosts : h < host => mlink[h] = "closed"
      BY <3>1, <2>a DEF CloseInv, After
    <3>3. CASE host' = host /\ mlink' = mlink
      BY <3>1, <3>2, <3>3, <2>c DEF CloseInv
    <3>4. CASE host' = host + 1 /\ mlink' = [mlink EXCEPT ![host] = "closed"]
      <4>1. \A h \in Hosts : h < host + 1 => h < host \/ h = host
        BY <2>a, <2>b
      <4>2. \A h \in Hosts : h < host' => mlink'[h] = "closed"
        BY <4>1, <3>1, <3>2, <3>4, <2>a, <2>b
      <4> QED
        BY <4>2, <3>1, <2>c DEF CloseInv
    <3> QED
      BY <3>1, <3>3, <3>4
  <2>5. CASE AwaitTasks
    <3>1. /\ opts' = opts /\ host' = host /\ mlink' = mlink /\ mpc = "end"
          /\ host \notin Hosts
      BY <2>5 DEF AwaitTasks
    <3>2. \A h \in Hosts : h < host
      BY <3>1, <2>a DEF Hosts
    <3>3. \A h \in Hosts : mlink[h] = "closed"
      BY <3>1, <3>2, <2>a DEF CloseInv, After
    <3> QED
      BY <3>1, <3>3, <2>c DEF CloseInv
  <2>6. CASE Report
    BY <2>6, <2>a, <2>c DEF Report, CloseInv
  <2> QED
    BY <2>1, <2>2, <2>3, <2>4, <2>5, <2>6 DEF Main
<1> QED
  BY <1>1, <1>2, <1>3 DEF AInv

\* Every step of the progress task preserves the invariant: it is spawned behind
\* the third barrier, so what it loads is the final total.
LEMMA ProgressAStep == IInv /\ AInv /\ Progress => AInv'
<1> SUFFICES ASSUME IInv, AInv, Progress PROVE AInv'
  OBVIOUS
<1>1. UNCHANGED <<opts, mainVars, funVars, barVars, reqs, shared>>
  BY DEF Progress, ProgressCheck, ProgressTotal, ProgressSent, ProgressRecv, ProgressPrint
<1>2. CounterInv' /\ \A f \in Functions : PlanInv(f)'
  BY <1>1, CounterFrame DEF funVars, barVars, shared
<1>3. CloseInv'
  BY <1>1 DEF AInv, CloseInv, mainVars, Hosts
<1>4. SeenInv'
  <2>1. GrandTotal' = GrandTotal
    BY <1>1 DEF GrandTotal, Planned
  <2>2. SeenInv /\ seen \in [total : Nat, sent : Nat, recv : Nat]
    BY DEF AInv, IInv, TypeOK
  <2>3. CASE ProgressCheck
    BY <2>3 DEF ProgressCheck, SeenInv
  <2>4. CASE ProgressTotal
    <3>1. gen >= 3 /\ gen \in 0..4
      BY <2>4 DEF ProgressTotal, IInv, TypeOK, ProgressInv
    <3>2. \A f \in Functions : phase[f] >= 3
      BY <3>1 DEF IInv, BarrierInv, Procs
    <3>3. total_requests = GrandTotal
      BY <3>2, AllAdded DEF AInv, CounterInv
    <3>4. ppc' = "sent" /\ seen'.total = total_requests
      BY <2>4, <2>2 DEF ProgressTotal
    <3> QED
      BY <3>3, <3>4, <2>1 DEF SeenInv
  <2>5. CASE ProgressSent
    <3>1. ppc = "sent" /\ ppc' = "recv" /\ seen'.total = seen.total
      BY <2>5, <2>2 DEF ProgressSent
    <3> QED
      BY <3>1, <2>1, <2>2 DEF SeenInv
  <2>6. CASE ProgressRecv
    <3>1. /\ ppc = "recv" /\ ppc' = "print" /\ seen'.total = seen.total
          /\ seen'.recv = recv_requests
      BY <2>6, <2>2 DEF ProgressRecv
    <3>2. /\ opts \in Options /\ reqs \in [Functions -> Seq(Request)]
          /\ \A f \in Functions : Len(reqs[f]) <= Planned(f)
      BY DEF IInv, TypeOK, AInv, PlanInv
    <3>3. recv_requests <= GrandTotal
      BY <3>2, TalliedBounded DEF AInv, CounterInv
    <3> QED
      BY <3>1, <3>3, <2>1, <2>2 DEF SeenInv
  <2>7. CASE ProgressPrint
    BY <2>7, <2>2, <2>1 DEF ProgressPrint, SeenInv
  <2> QED
    BY <2>3, <2>4, <2>5, <2>6, <2>7 DEF Progress
<1> QED
  BY <1>2, <1>3, <1>4 DEF AInv

\* Every step of a function task preserves the invariant.
LEMMA FunctionAStep ==
    ASSUME IInv, AInv, NEW f \in Functions, RunFunction(f)
    PROVE  AInv'
<1> USE DEF funVars, barVars, shared
<1>a. UNCHANGED <<opts, mainVars, progVars>>
  BY DEF RunFunction, TestRequest, AwaitMonitoring, RefuseTime, AddTotal, RefuseRate,
         StartSending, Generate, StartJoining, Join, AwaitFinish, Return
<1>b. SeenInv' /\ CloseInv'
  <2>1. GrandTotal' = GrandTotal
    BY <1>a DEF GrandTotal, Planned
  <2> QED
    BY <1>a, <2>1 DEF AInv, SeenInv, CloseInv, mainVars, progVars, Hosts
<1>c. \A g \in Functions : Planned(g)' = Planned(g) /\ Planned(g) \in Nat
  BY <1>a, LoadAssumption DEF Planned
<1>d. /\ phase \in [Procs -> 0..4] /\ Functions \subseteq Procs /\ gen \in 0..4
      /\ fpc \in [Functions -> {"setup", "tested", "count", "counted", "send", "join",
                                "finish", "returned"}]
      /\ PhaseInv(f)
      /\ \A g \in Functions : PlanInv(g)
  BY DEF IInv, TypeOK, Procs, AInv
<1>e. CounterInv
  BY DEF AInv
<1>f. UNCHANGED <<reqs, sent_requests, recv_requests, ndp_requests>>
      /\ total_requests' = Added' => CounterInv'
  BY <1>e DEF CounterInv
<1>g. ASSUME UNCHANGED reqs, \A g \in Functions : g # f => phase'[g] = phase[g] /\ fpc'[g] = fpc[g],
             phase'[f] >= 3 /\ opts.time = "negative" => f \in opts.idle,
             fpc'[f] \in {"send", "join"} \/ phase'[f] = 4 => f \notin opts.idle
      PROVE  \A g \in Functions : PlanInv(g)'
  BY <1>a, <1>c, <1>d, <1>g DEF PlanInv
<1>1. CASE RefuseTime(f) \/ RefuseRate(f)
  BY <1>1, <1>b, CounterFrame DEF RefuseTime, RefuseRate, AInv
<1>2. CASE TestRequest(f) \/ AwaitMonitoring(f)
  <2>1. /\ UNCHANGED <<reqs, shared>>
        /\ fpc[f] \in {"setup", "tested"} /\ phase[f] <= 1
        /\ UNCHANGED <<phase, fpc>>
           \/ /\ phase' = phase \/ phase' = [phase EXCEPT ![f] = @ + 1]
              /\ fpc' = [fpc EXCEPT ![f] = "tested"] \/ fpc' = [fpc EXCEPT ![f] = "count"]
                 \/ fpc' = [fpc EXCEPT ![f] = "returned"]
    BY <1>2, <1>d DEF TestRequest, AwaitMonitoring, Arrive, PhaseInv
  <2>2. /\ phase'[f] <= 2 /\ fpc'[f] \in {"setup", "tested", "count", "returned"}
        /\ phase'[f] \in Nat
        /\ \A g \in Functions : g # f => phase'[g] = phase[g] /\ fpc'[g] = fpc[g]
    BY <2>1, <1>d
  <2>3. Added' = Added
    BY <1>c, <1>d, <2>1, <2>2, AddedFrame
  <2>4. CounterInv'
    BY <1>f, <2>1, <2>3, <1>e DEF CounterInv
  <2>5. \A g \in Functions : PlanInv(g)'
    BY <2>1, <2>2, <1>g
  <2> QED
    BY <1>b, <2>4, <2>5 DEF AInv
<1>3. CASE StartSending(f) \/ StartJoining(f) \/ Join(f) \/ Return(f)
  <2>1. /\ UNCHANGED <<reqs, shared, phase>>
        /\ fpc[f] \in {"counted", "send", "join", "finish"}
        /\ \/ fpc[f] = "counted" /\ f \notin opts.idle /\ fpc' = [fpc EXCEPT ![f] = "send"]
           \/ fpc[f] = "send" /\ fpc' = [fpc EXCEPT ![f] = "join"]
           \/ fpc' = fpc
           \/ fpc[f] = "finish" /\ fpc' = [fpc EXCEPT ![f] = "returned"]
    BY <1>3 DEF StartSending, StartJoining, Join, Return
  <2>2. Added' = Added
    BY <1>c, <2>1, AddedFrame
  <2>3. CounterInv'
    BY <1>f, <2>1, <2>2, <1>e DEF CounterInv
  <2>4. \A g \in Functions : g # f => phase'[g] = phase[g] /\ fpc'[g] = fpc[g]
    BY <2>1, <1>d
  <2>5. phase'[f] >= 3 /\ opts.time = "negative" => f \in opts.idle
    BY <2>1, <1>d DEF PlanInv
  <2>6. fpc'[f] \in {"send", "join"} \/ phase'[f] = 4 => f \notin opts.idle
    BY <2>1, <1>d DEF PlanInv, PhaseInv
  <2>7. \A g \in Functions : PlanInv(g)'
    BY <2>1, <2>4, <2>5, <2>6, <1>g
  <2> QED
    BY <1>b, <2>3, <2>7 DEF AInv
<1>4. CASE AwaitFinish(f)
  <2>1. /\ UNCHANGED <<reqs, shared>> /\ fpc[f] = "join" /\ phase[f] = 3
        /\ phase' = [phase EXCEPT ![f] = @ + 1] /\ fpc' = [fpc EXCEPT ![f] = "finish"]
    BY <1>4, <1>d DEF AwaitFinish, Arrive, PhaseInv
  <2>2. /\ phase'[f] = 4
        /\ \A g \in Functions : g # f => phase'[g] = phase[g] /\ fpc'[g] = fpc[g]
    BY <2>1, <1>d
  <2>3. Added' = Added
    BY <1>c, <1>d, <2>1, <2>2, AddedFrame
  <2>4. CounterInv'
    BY <1>f, <2>1, <2>3, <1>e DEF CounterInv
  <2>5. f \notin opts.idle /\ (opts.time = "negative" => f \in opts.idle)
    BY <2>1, <1>d DEF PlanInv
  <2>6. \A g \in Functions : PlanInv(g)'
    BY <2>1, <2>2, <2>5, <1>g
  <2> QED
    BY <1>b, <2>4, <2>6 DEF AInv
<1>5. CASE AddTotal(f)
  <2>1. /\ UNCHANGED <<reqs, sent_requests, recv_requests, ndp_requests>>
        /\ total_requests' = total_requests + Planned(f)
        /\ opts.time = "negative" => f \in opts.idle
        /\ fpc[f] = "count" /\ phase[f] = 2
        /\ phase' = [phase EXCEPT ![f] = @ + 1] /\ fpc' = [fpc EXCEPT ![f] = "counted"]
    BY <1>5, <1>d DEF AddTotal, Arrive, PhaseInv
  <2>2. /\ phase'[f] = 3 /\ fpc'[f] = "counted"
        /\ \A g \in Functions : g # f => phase'[g] = phase[g] /\ fpc'[g] = fpc[g]
    BY <2>1, <1>d
  <2>3. Added' = Added + Planned(f)
    <3> DEFINE u == [g \in Functions |-> IF phase[g] >= 3 THEN Planned(g) ELSE 0]
    <3>1. PICK v : v = [g \in Functions |-> IF phase'[g] >= 3 THEN Planned(g)' ELSE 0]
      OBVIOUS
    <3>2. \A g \in Functions : u[g] \in Int
      BY <1>c
    <3>3. v[f] = u[f] + Planned(f) /\ \A g \in Functions : g # f => v[g] = u[g]
      BY <3>1, <2>1, <2>2, <1>c
    <3>4. SUM(v, Functions) = SUM(u, Functions) + Planned(f)
      <4> HIDE DEF u
      <4> QED
        BY <3>2, <3>3, <1>c, LoadAssumption, SumOneChanged
    <3>5. Added = SUM(u, Functions) /\ Added' = SUM(v, Functions)
      BY <3>1 DEF Added
    <3> QED
      BY <3>4, <3>5
  <2>4. CounterInv'
    BY <1>f, <2>1, <2>3, <1>e DEF CounterInv
  <2>5. \A g \in Functions : PlanInv(g)'
    BY <2>1, <2>2, <1>g
  <2> QED
    BY <1>b, <2>4, <2>5 DEF AInv
<1>6. CASE Generate(f)
  <2> DEFINE v == NextNdpVar(ndp_var[f], Den)
             n == AllowNdp(v, Num[f], Den)
             r == [pool |-> which_request[f], ndp |-> n, st |-> "spawned"]
  <2>1. /\ UNCHANGED <<fpc, phase, total_requests, sent_requests, recv_requests>>
        /\ Len(reqs[f]) < Planned(f)
        /\ ndp_requests' = IF n THEN ndp_requests + 1 ELSE ndp_requests
        /\ reqs' = [reqs EXCEPT ![f] = Append(reqs[f], r)]
    BY <1>6 DEF Generate
  <2>2. reqs \in [Functions -> Seq(Request)] /\ reqs[f] \in Seq(Request)
    BY DEF IInv, TypeOK
  <2>3. n \in BOOLEAN
    BY DEF AllowNdp
  <2>4. r \in Request
    <3>1. which_request[f] \in Nat
      BY DEF IInv, TypeOK
    <3> QED
      BY <3>1, <2>3 DEF Request
  <2>5. r \notin SentRequests /\ r \notin OkRequests /\ (r \in NdpRequests <=> n)
    BY <2>3, <2>4 DEF SentRequests, OkRequests, NdpRequests
  <2> HIDE DEF n, r
  <2>6. reqs'[f] = Append(reqs[f], r) /\ \A g \in Functions : g # f => reqs'[g] = reqs[g]
    BY <2>1, <2>2
  <2>7. ASSUME NEW Q
        PROVE  Tallied(reqs', Q) = Tallied(reqs, Q) + IF r \in Q THEN 1 ELSE 0
    <3>1. PICK b : b = reqs'
      OBVIOUS
    <3>2. Tally(b[f], Q) = Tally(reqs[f], Q) + IF r \in Q THEN 1 ELSE 0
      BY <3>1, <2>2, <2>4, <2>6, TallyAppend, ZenonT(60)
    <3>3. (IF r \in Q THEN 1 ELSE 0) \in Int
      OBVIOUS
    <3>4. \A g \in Functions : g # f => b[g] = reqs[g]
      BY <3>1, <2>6
    <3> QED
      BY <3>1, <3>2, <3>3, <3>4, <2>2, TalliedStep, SMTT(60)
  <2>8. Added' = Added
    BY <1>c, <2>1, AddedFrame
  <2>9. /\ sent_requests \in Nat /\ recv_requests \in Nat /\ ndp_requests \in Nat
    BY DEF IInv, TypeOK
  <2>10. CounterInv'
    <3>1. Tallied(reqs', SentRequests) = Tallied(reqs, SentRequests) + 0
      BY <2>5, <2>7
    <3>2. Tallied(reqs', OkRequests) = Tallied(reqs, OkRequests) + 0
      BY <2>5, <2>7
    <3>3. Tallied(reqs', NdpRequests) = Tallied(reqs, NdpRequests) + IF n THEN 1 ELSE 0
      BY <2>5, <2>7
    <3> QED
      BY <2>1, <2>8, <2>9, <3>1, <3>2, <3>3, <1>e DEF CounterInv
  <2>11. \A g \in Functions : PlanInv(g)'
    <3> SUFFICES ASSUME NEW g \in Functions PROVE PlanInv(g)'
      OBVIOUS
    <3>1. Len(reqs'[g]) <= Planned(g)
      <4>1. CASE g = f
        <5>1. Len(reqs'[f]) = Len(reqs[f]) + 1 /\ Len(reqs[f]) \in Nat
          BY <2>2, <2>4, <2>6
        <5> QED
          BY <4>1, <5>1, <2>1, <1>c
      <4>2. CASE g # f
        BY <4>2, <2>6, <1>d DEF PlanInv
      <4> QED
        BY <4>1, <4>2
    <3> QED
      BY <3>1, <2>1, <1>a, <1>c, <1>d DEF PlanInv
  <2> QED
    BY <1>b, <2>10, <2>11 DEF AInv
<1> QED
  BY <1>1, <1>2, <1>3, <1>4, <1>5, <1>6 DEF RunFunction

\* Every step of a request task preserves the invariant: the request moves to
\* its next state and the counter of that state goes up.
LEMMA RequestAStep ==
    ASSUME IInv, AInv, NEW f \in Functions, NEW i \in DOMAIN reqs[f], RequestTask(f, i)
    PROVE  AInv'
<1>a. UNCHANGED <<opts, mainVars, progVars, fpc, phase, total_requests, ndp_requests>>
  BY DEF RequestTask, Send, Receive, Fail, funVars, barVars, shared
<1>b. SeenInv' /\ CloseInv'
  <2>1. GrandTotal' = GrandTotal
    BY <1>a DEF GrandTotal, Planned
  <2> QED
    BY <1>a, <2>1 DEF AInv, SeenInv, CloseInv, mainVars, progVars, Hosts
<1>c. \A g \in Functions : Planned(g)' = Planned(g)
  BY <1>a DEF Planned
<1>d. Added' = Added
  BY <1>a, <1>c, AddedFrame
<1>e. reqs \in [Functions -> Seq(Request)] /\ reqs[f] \in Seq(Request)
      /\ reqs[f][i] \in Request
  BY DEF IInv, TypeOK
<1>f. /\ sent_requests \in Nat /\ recv_requests \in Nat
      /\ CounterInv
  BY DEF IInv, TypeOK, AInv
<1>1. ASSUME NEW st \in {"sent", "ok", "err"}, SetRequest(f, i, st), NEW Q,
             NEW r, r = [reqs[f][i] EXCEPT !.st = st]
      PROVE  /\ Tallied(reqs', Q) = Tallied(reqs, Q) + ((IF r \in Q THEN 1 ELSE 0)
                                      - (IF reqs[f][i] \in Q THEN 1 ELSE 0))
             /\ r \in Request /\ r.st = st /\ r.ndp = reqs[f][i].ndp
             /\ \A g \in Functions : Len(reqs'[g]) = Len(reqs[g])
  <2>1. r \in Request /\ r.st = st /\ r.ndp = reqs[f][i].ndp
    BY <1>e, <1>1 DEF Request
  <2>2. PICK t : t = [reqs[f] EXCEPT ![i] = r]
    OBVIOUS
  <2>3. PICK b : b = reqs'
    OBVIOUS
  <2>4. b = [reqs EXCEPT ![f] = t]
    BY <1>1, <2>2, <2>3 DEF SetRequest
  <2>5. b[f] = t /\ \A g \in Functions : g # f => b[g] = reqs[g]
    BY <2>4, <1>e
  <2> DEFINE d == (IF r \in Q THEN 1 ELSE 0) - (IF reqs[f][i] \in Q THEN 1 ELSE 0)
  <2>6. Tally(t, Q) = Tally(reqs[f], Q) + (IF r \in Q THEN 1 ELSE 0)
                                        - (IF reqs[f][i] \in Q THEN 1 ELSE 0)
    <3>1. PICK s : s = reqs[f]
      OBVIOUS
    <3>2. /\ s \in Seq(Request) /\ i \in DOMAIN s /\ DOMAIN t = DOMAIN s /\ t[i] = r
          /\ \A j \in DOMAIN s : j # i => t[j] = s[j]
      BY <3>1, <2>2, <1>e
    <3>3. Tally(t, Q) = Tally(s, Q) + (IF r \in Q THEN 1 ELSE 0)
                                    - (IF s[i] \in Q THEN 1 ELSE 0)
      BY <3>2, <2>1, TallyUpdate
    <3> QED
      BY <3>1, <3>3
  <2>7. Tally(reqs[f], Q) \in Nat
    BY <1>e, TallyBounds
  <2>8. Tally(b[f], Q) = Tally(reqs[f], Q) + d /\ d \in Int
    BY <2>5, <2>6, <2>7
  <2> HIDE DEF d
  <2>9. Tallied(b, Q) = Tallied(reqs, Q) + d
    BY <2>5, <2>8, <1>e, TalliedStep, SMTT(60)
  <2>10. Len(t) = Len(reqs[f])
    BY <2>1, <2>2, <1>e
  <2> QED
    BY <2>1, <2>3, <2>5, <2>9, <2>10 DEF d
<1>2. ASSUME NEW st \in {"sent", "ok", "err"}, SetRequest(f, i, st)
      PROVE  \A g \in Functions : PlanInv(g)'
  <2>1. \A g \in Functions : Len(reqs'[g]) = Len(reqs[g])
    BY <1>1, <1>2
  <2> QED
    BY <2>1, <1>a, <1>c DEF AInv, PlanInv
<1>3. CASE Send(f, i)
  <2>1. /\ reqs[f][i].st = "spawned" /\ SetRequest(f, i, "sent")
        /\ sent_requests' = sent_requests + 1 /\ recv_requests' = recv_requests
    BY <1>3 DEF Send
  <2>2. PICK r : r = [reqs[f][i] EXCEPT !.st = "sent"]
    OBVIOUS
  <2>3. r \in Request /\ r.st = "sent" /\ r.ndp = reqs[f][i].ndp
    BY <2>1, <2>2, <1>1
  <2>4. /\ r \in SentRequests /\ reqs[f][i] \notin SentRequests
        /\ r \notin OkRequests /\ reqs[f][i] \notin OkRequests
        /\ r \in NdpRequests <=> reqs[f][i] \in NdpRequests
    BY <2>1, <2>3, <1>e DEF SentRequests, OkRequests, NdpRequests
  <2>5. /\ Tallied(reqs', SentRequests) = Tallied(reqs, SentRequests) + 1
        /\ Tallied(reqs', OkRequests) = Tallied(reqs, OkRequests) + 0
        /\ Tallied(reqs', NdpRequests) = Tallied(reqs, NdpRequests) + 0
    BY <2>1, <2>2, <2>4, <1>1
  <2>6. ndp_requests \in Nat
    BY DEF IInv, TypeOK
  <2>7. CounterInv'
    BY <2>1, <2>5, <2>6, <1>a, <1>d, <1>f DEF CounterInv
  <2> QED
    BY <2>1, <2>7, <1>2, <1>b DEF AInv
<1>4. CASE Receive(f, i)
  <2>1. /\ reqs[f][i].st = "sent" /\ SetRequest(f, i, "ok")
        /\ sent_requests' = sent_requests /\ recv_requests' = recv_requests + 1
    BY <1>4 DEF Receive
  <2>2. PICK r : r = [reqs[f][i] EXCEPT !.st = "ok"]
    OBVIOUS
  <2>3. r \in Request /\ r.st = "ok" /\ r.ndp = reqs[f][i].ndp
    BY <2>1, <2>2, <1>1
  <2>4. /\ r \in SentRequests /\ reqs[f][i] \in SentRequests
        /\ r \in OkRequests /\ reqs[f][i] \notin OkRequests
        /\ r \in NdpRequests <=> reqs[f][i] \in NdpRequests
    BY <2>1, <2>3, <1>e DEF SentRequests, OkRequests, NdpRequests
  <2>5. /\ Tallied(reqs', SentRequests) = Tallied(reqs, SentRequests) + 0
        /\ Tallied(reqs', OkRequests) = Tallied(reqs, OkRequests) + 1
        /\ Tallied(reqs', NdpRequests) = Tallied(reqs, NdpRequests) + 0
    BY <2>1, <2>2, <2>4, <1>1
  <2>6. ndp_requests \in Nat
    BY DEF IInv, TypeOK
  <2>7. CounterInv'
    BY <2>1, <2>5, <2>6, <1>a, <1>d, <1>f DEF CounterInv
  <2> QED
    BY <2>1, <2>7, <1>2, <1>b DEF AInv
<1>5. CASE Fail(f, i)
  <2>1. /\ reqs[f][i].st = "sent" /\ SetRequest(f, i, "err")
        /\ sent_requests' = sent_requests /\ recv_requests' = recv_requests
    BY <1>5 DEF Fail, shared
  <2>2. PICK r : r = [reqs[f][i] EXCEPT !.st = "err"]
    OBVIOUS
  <2>3. r \in Request /\ r.st = "err" /\ r.ndp = reqs[f][i].ndp
    BY <2>1, <2>2, <1>1
  <2>4. /\ r \in SentRequests /\ reqs[f][i] \in SentRequests
        /\ r \notin OkRequests /\ reqs[f][i] \notin OkRequests
        /\ r \in NdpRequests <=> reqs[f][i] \in NdpRequests
    BY <2>1, <2>3, <1>e DEF SentRequests, OkRequests, NdpRequests
  <2>5. /\ Tallied(reqs', SentRequests) = Tallied(reqs, SentRequests) + 0
        /\ Tallied(reqs', OkRequests) = Tallied(reqs, OkRequests) + 0
        /\ Tallied(reqs', NdpRequests) = Tallied(reqs, NdpRequests) + 0
    BY <2>1, <2>2, <2>4, <1>1
  <2>6. ndp_requests \in Nat
    BY DEF IInv, TypeOK
  <2>7. CounterInv'
    BY <2>1, <2>5, <2>6, <1>a, <1>d, <1>f DEF CounterInv
  <2> QED
    BY <2>1, <2>7, <1>2, <1>b DEF AInv
<1> QED
  BY <1>3, <1>4, <1>5 DEF RequestTask

\* The invariant is inductive relative to IInv.
LEMMA StepAInv == IInv /\ AInv /\ [Next]_vars => AInv'
<1> SUFFICES ASSUME IInv, AInv, [Next]_vars PROVE AInv'
  OBVIOUS
<1>1. CASE UNCHANGED vars
  <2>1. UNCHANGED <<opts, mpc, host, mlink, fpc, phase, reqs, total_requests,
                    sent_requests, recv_requests, ndp_requests, ppc, seen>>
    BY <1>1 DEF vars, mainVars, funVars, barVars, shared, progVars
  <2>2. CounterInv' /\ \A f \in Functions : PlanInv(f)'
    BY <2>1, CounterFrame
  <2>3. SeenInv' /\ CloseInv'
    <3>1. GrandTotal' = GrandTotal
      BY <2>1 DEF GrandTotal, Planned
    <3> QED
      BY <2>1, <3>1 DEF AInv, SeenInv, CloseInv, Hosts
  <2> QED
    BY <2>2, <2>3 DEF AInv
<1>2. CASE Main
  BY <1>2, MainAStep
<1>3. CASE \E f \in Functions : RunFunction(f)
  BY <1>3, FunctionAStep
<1>4. CASE \E f \in Functions : \E i \in DOMAIN reqs[f] : RequestTask(f, i)
  BY <1>4, RequestAStep
<1>5. CASE Progress
  BY <1>5, ProgressAStep
<1> QED
  BY <1>1, <1>2, <1>3, <1>4, <1>5 DEF Next, Terminated

\* Both invariants hold in every reachable state.
THEOREM CountersAreTallies == Spec => [](IInv /\ AInv)
<1>1. Init => IInv /\ AInv
  BY InitIInv, InitAInv
<1>2. IInv /\ AInv /\ [Next]_vars => (IInv /\ AInv)'
  BY StepIInv, StepAInv
<1> QED
  BY <1>1, <1>2, PTL DEF Spec

------------------------------------------------------------------------------
(* Theorems *)

\* The progress task computes every line from the final total, however its three
\* loads interleave with the other tasks, and shows at most 100%.
THEOREM ProgressIsSane == Spec => []ProgressSane
<1>1. IInv /\ AInv => ProgressSane
  BY DEF AInv, SeenInv, ProgressSane
<1> QED
  BY <1>1, CountersAreTallies, PTL

\* A request task that was joined has sent its request.
LEMMA AllAccounted ==
    ASSUME IInv, AInv, NEW f \in Functions, phase[f] = 4
    PROVE  /\ joined[f] = Planned(f) /\ Len(reqs[f]) = Planned(f)
           /\ Tally(reqs[f], SentRequests) = Planned(f)
           /\ Count(f, Finished) = Planned(f)
<1>1. reqs[f] \in Seq(Request) /\ Planned(f) \in Nat
  BY LoadAssumption DEF IInv, TypeOK, Planned
<1>2. /\ joined[f] = Planned(f) /\ Len(reqs[f]) = Planned(f)
      /\ \A i \in 1..joined[f] : Finished(reqs[f][i])
  BY DEF IInv, JoinInv
<1>3. DOMAIN reqs[f] = 1..Planned(f) /\ \A i \in DOMAIN reqs[f] : Finished(reqs[f][i])
  BY <1>1, <1>2
<1>4. \A i \in DOMAIN reqs[f] : reqs[f][i] \in SentRequests
  BY <1>1, <1>3 DEF SentRequests, Finished
<1>5. Tally(reqs[f], SentRequests) = Planned(f)
  BY <1>1, <1>2, <1>4, TallyBounds
<1>6. {i \in DOMAIN reqs[f] : Finished(reqs[f][i])} = 1..Planned(f)
  BY <1>3
<1>7. Count(f, Finished) = Cardinality(1..Planned(f))
  BY <1>6 DEF Count
<1>8. Cardinality(1..Planned(f)) = Planned(f)
  BY <1>1, FS_Interval
<1> QED
  BY <1>2, <1>5, <1>7, <1>8

\* The counters that the report compares are counts over the requests.
LEMMA CountersAreCounts ==
    ASSUME IInv, AInv
    PROVE  /\ recv_requests = SumFunctionOnSet(
                [f \in Functions |-> Count(f, LAMBDA r : r.st = "ok")], Functions)
           /\ ndp_requests = SumFunctionOnSet(
                [f \in Functions |-> Count(f, LAMBDA r : r.ndp)], Functions)
<1>1. \A f \in Functions : Tally(reqs[f], OkRequests) = Count(f, LAMBDA r : r.st = "ok")
  <2> SUFFICES ASSUME NEW f \in Functions
               PROVE  Tally(reqs[f], OkRequests) = Count(f, LAMBDA r : r.st = "ok")
    OBVIOUS
  <2>1. \A i \in DOMAIN reqs[f] : reqs[f][i] \in Request
    BY DEF IInv, TypeOK
  <2>2. At(reqs[f], OkRequests) = {i \in DOMAIN reqs[f] : reqs[f][i].st = "ok"}
    BY <2>1 DEF At, OkRequests
  <2> QED
    BY <2>2 DEF Count, Tally
<1>2. \A f \in Functions : Tally(reqs[f], NdpRequests) = Count(f, LAMBDA r : r.ndp)
  <2> SUFFICES ASSUME NEW f \in Functions
               PROVE  Tally(reqs[f], NdpRequests) = Count(f, LAMBDA r : r.ndp)
    OBVIOUS
  <2>1. \A i \in DOMAIN reqs[f] : reqs[f][i] \in Request
    BY DEF IInv, TypeOK
  <2>2. At(reqs[f], NdpRequests) = {i \in DOMAIN reqs[f] : reqs[f][i].ndp}
    BY <2>1 DEF At, NdpRequests
  <2> QED
    BY <2>2 DEF Count, Tally
<1>3. [f \in Functions |-> Tally(reqs[f], OkRequests)]
        = [f \in Functions |-> Count(f, LAMBDA r : r.st = "ok")]
  BY <1>1
<1>4. [f \in Functions |-> Tally(reqs[f], NdpRequests)]
        = [f \in Functions |-> Count(f, LAMBDA r : r.ndp)]
  BY <1>2
<1> QED
  BY <1>3, <1>4 DEF AInv, CounterInv, Tallied, SUM

\* When the results are reported, the counters, the results and the monitoring
\* connections agree, and only a load that no task refuses is reported.
THEOREM AccountsAreExact == Spec => []AccountingExact
<1>1. ASSUME IInv, AInv, mpc = "report"
      PROVE  /\ total_requests = GrandTotal
             /\ sent_requests = GrandTotal
             /\ opts.idle = {} /\ opts.time # "negative"
             /\ \A f \in Functions : joined[f] = Planned(f) /\ Count(f, Finished) = Planned(f)
             /\ \A h \in Hosts : mlink[h] = "closed"
  <2>1. gen = 4 /\ phase \in [Procs -> 0..4] /\ Functions \subseteq Procs
    BY <1>1 DEF IInv, TypeOK, MainInv, After, Procs
  <2>2. \A f \in Functions : phase[f] = 4
    BY <2>1, <1>1 DEF IInv, BarrierInv
  <2>3. total_requests = GrandTotal
    BY <2>2, <1>1, AllAdded DEF AInv, CounterInv
  <2>4. Tallied(reqs, SentRequests) = GrandTotal
    <3> DEFINE u == [f \in Functions |-> Tally(reqs[f], SentRequests)]
               v == [f \in Functions |-> Planned(f)]
    <3>1. \A f \in Functions : u[f] = v[f]
      BY <2>2, <1>1, AllAccounted
    <3> HIDE DEF u, v
    <3>2. SUM(u, Functions) = SUM(v, Functions)
      BY <3>1, LoadAssumption, SumAgrees
    <3> QED
      BY <3>2 DEF Tallied, GrandTotal, SUM, u, v
  <2>5. opts.idle = {} /\ opts.time # "negative"
    <3>1. opts.idle \subseteq Functions
      BY <1>1 DEF IInv, TypeOK, Options
    <3>2. \A f \in Functions : f \notin opts.idle /\ opts.time # "negative"
      BY <2>2, <1>1 DEF AInv, PlanInv
    <3> QED
      BY <3>1, <3>2, LoadAssumption
  <2>6. \A f \in Functions : joined[f] = Planned(f) /\ Count(f, Finished) = Planned(f)
    BY <2>2, <1>1, AllAccounted
  <2>7. \A h \in Hosts : mlink[h] = "closed"
    BY <1>1 DEF AInv, CloseInv
  <2> QED
    BY <2>3, <2>4, <2>5, <2>6, <2>7, <1>1 DEF AInv, CounterInv
<1>2. ASSUME IInv, AInv
      PROVE  /\ recv_requests = SumFunctionOnSet(
                  [f \in Functions |-> Count(f, LAMBDA r : r.st = "ok")], Functions)
             /\ ndp_requests = SumFunctionOnSet(
                  [f \in Functions |-> Count(f, LAMBDA r : r.ndp)], Functions)
  BY <1>2, CountersAreCounts
<1>3. IInv /\ AInv => AccountingExact
  BY <1>1, <1>2 DEF AccountingExact
<1> QED
  BY <1>3, CountersAreTallies, PTL

------------------------------------------------------------------------------
(* Each function implements the generator of RequestGenerator. *)

\* The generator's counters, as a state of the load generator shows them.
LEMMA GeneratorInit ==
    ASSUME Init, NEW f \in Functions
    PROVE  Gen(f)!Init
<1>1. reqs[f] = <<>> /\ ndp_var[f] = FirstNdpVar(Den) /\ which_request[f] = 0
  BY DEF Init
<1>2. Len(reqs[f]) = 0 /\ {i \in DOMAIN reqs[f] : reqs[f][i].ndp} = {}
  BY <1>1
<1>3. Count(f, LAMBDA r : r.ndp) = 0
  BY <1>2, FS_EmptySet DEF Count
<1> QED
  BY <1>1, <1>2, <1>3 DEF Gen!Init, Gen!FirstNdpVar, FirstNdpVar, Count

\* A step that leaves f's locals, and how many requests f has spawned with which
\* ndp, alone is a stuttering step of its generator.
LEMMA GeneratorStutters ==
    ASSUME NEW f \in Functions, UNCHANGED <<ndp_var[f], which_request[f], Len(reqs[f])>>,
           Count(f, LAMBDA r : r.ndp)' = Count(f, LAMBDA r : r.ndp)
    PROVE  UNCHANGED Gen(f)!genVars
  BY DEF Gen!genVars, Count

\* An iteration of f's request loop is a step of its generator.
LEMMA GeneratorSteps ==
    ASSUME IInv, NEW f \in Functions, Generate(f)
    PROVE  Gen(f)!Next
<1> DEFINE v == NextNdpVar(ndp_var[f], Den)
           n == AllowNdp(v, Num[f], Den)
           r == [pool |-> which_request[f], ndp |-> n, st |-> "spawned"]
<1>1. /\ Len(reqs[f]) < Planned(f)
      /\ ndp_var' = [ndp_var EXCEPT ![f] = v]
      /\ reqs' = [reqs EXCEPT ![f] = Append(reqs[f], r)]
      /\ which_request' = [which_request EXCEPT ![f] = NextRequest(which_request[f], PoolSize[f])]
  BY DEF Generate
<1>2. /\ reqs \in [Functions -> Seq(Request)] /\ reqs[f] \in Seq(Request)
      /\ ndp_var \in [Functions -> 0..Den] /\ which_request \in [Functions -> Nat]
  BY DEF IInv, TypeOK
<1>3. n \in BOOLEAN
  BY DEF AllowNdp
<1>4. r \in Request
  BY <1>2, <1>3 DEF Request
<1>5. r \in NdpRequests <=> n
  BY <1>3, <1>4 DEF NdpRequests
<1>6. r.ndp = n
  OBVIOUS
<1> HIDE DEF n, r
<1>7. reqs'[f] = Append(reqs[f], r) /\ Len(reqs'[f]) = Len(reqs[f]) + 1
  BY <1>1, <1>2, <1>4
<1>8. Tally(reqs'[f], NdpRequests) = Tally(reqs[f], NdpRequests) + IF n THEN 1 ELSE 0
  <2>1. PICK t : t = reqs'[f]
    OBVIOUS
  <2>2. PICK s : s = reqs[f]
    OBVIOUS
  <2>3. s \in Seq(Request) /\ t = Append(s, r)
    BY <2>1, <2>2, <1>7, <1>2
  <2>4. Tally(t, NdpRequests) = Tally(s, NdpRequests) + IF r \in NdpRequests THEN 1 ELSE 0
    BY <2>3, <1>4, TallyAppend
  <2> QED
    BY <2>1, <2>2, <2>4, <1>5
<1>9. Tally(reqs[f], NdpRequests) = Cardinality({i \in DOMAIN reqs[f] : reqs[f][i].ndp})
  <2>1. At(reqs[f], NdpRequests) = {i \in DOMAIN reqs[f] : reqs[f][i].ndp}
    BY <1>2 DEF At, NdpRequests
  <2> QED
    BY <2>1 DEF Tally
<1>10. Tally(reqs'[f], NdpRequests) = Cardinality({i \in DOMAIN reqs'[f] : reqs'[f][i].ndp})
  <2>1. reqs'[f] \in Seq(Request)
    BY <1>7, <1>2, <1>4
  <2>2. At(reqs'[f], NdpRequests) = {i \in DOMAIN reqs'[f] : reqs'[f][i].ndp}
    BY <2>1 DEF At, NdpRequests
  <2> QED
    BY <2>2 DEF Tally
<1>11. Tally(reqs[f], NdpRequests) \in Nat
  BY <1>2, TallyBounds
<1>12. Cardinality({i \in DOMAIN reqs'[f] : reqs'[f][i].ndp})
         = IF n THEN Cardinality({i \in DOMAIN reqs[f] : reqs[f][i].ndp}) + 1
                ELSE Cardinality({i \in DOMAIN reqs[f] : reqs[f][i].ndp})
  BY <1>8, <1>9, <1>10, <1>11
<1>13. Len(reqs[f]) < Total[f]
  <2>1. Len(reqs[f]) \in Nat
    BY <1>2
  <2> QED
    BY <1>1, <2>1 DEF Planned
<1>14. ndp_var'[f] = v /\ which_request'[f] = NextRequest(which_request[f], PoolSize[f])
  BY <1>1, <1>2
<1>15. n <=> AllowNdp(ndp_var'[f], Num[f], Den)
  BY <1>14 DEF n
<1>16. Gen(f)!Generate
  BY <1>7, <1>12, <1>13, <1>14, <1>15
     DEF Gen!Generate, Count, NextNdpVar, Gen!NextNdpVar, NextRequest, Gen!NextRequest,
         AllowNdp, Gen!AllowNdp, ForceNdp, Gen!ForceNdp, Wrap, Gen!Wrap
<1> QED
  BY <1>16 DEF Gen!Next

\* Every step of the load generator is, for every function, a step of its
\* generator or leaves it alone.
LEMMA EveryStepRefines ==
    ASSUME IInv, [Next]_vars, NEW f \in Functions
    PROVE  [Gen(f)!Next]_(Gen(f)!genVars)
<1> USE DEF funVars
<1>a. /\ reqs \in [Functions -> Seq(Request)]
      /\ ndp_var \in [Functions -> 0..Den] /\ which_request \in [Functions -> Nat]
  BY DEF IInv, TypeOK
<1>1. CASE UNCHANGED <<ndp_var, which_request, reqs>>
  <2>1. UNCHANGED <<ndp_var[f], which_request[f], Len(reqs[f])>>
    BY <1>1
  <2>2. Count(f, LAMBDA r : r.ndp)' = Count(f, LAMBDA r : r.ndp)
    BY <1>1 DEF Count
  <2> QED
    BY <2>1, <2>2, GeneratorStutters
<1>2. ASSUME NEW g \in Functions, Generate(g)
      PROVE  [Gen(f)!Next]_(Gen(f)!genVars)
  <2>1. CASE g = f
    BY <1>2, <2>1, GeneratorSteps
  <2>2. CASE g # f
    <3>1. UNCHANGED <<ndp_var[f], which_request[f], reqs[f]>>
      BY <1>2, <2>2, <1>a DEF Generate
    <3>2. Count(f, LAMBDA r : r.ndp)' = Count(f, LAMBDA r : r.ndp)
      BY <3>1 DEF Count
    <3>3. UNCHANGED <<ndp_var[f], which_request[f], Len(reqs[f])>>
      BY <3>1
    <3> QED
      BY <3>2, <3>3, GeneratorStutters
  <2> QED
    BY <2>1, <2>2
<1>3. ASSUME NEW g \in Functions, NEW i \in DOMAIN reqs[g], RequestTask(g, i)
      PROVE  [Gen(f)!Next]_(Gen(f)!genVars)
  <2>1. PICK st : reqs' = [reqs EXCEPT ![g][i].st = st]
    BY <1>3 DEF RequestTask, Send, Receive, Fail, SetRequest
  <2>2. UNCHANGED <<ndp_var, which_request>>
    BY <1>3 DEF RequestTask, Send, Receive, Fail
  <2>3. reqs[g] \in Seq(Request) /\ reqs[g][i] \in Request
    BY <1>a, <1>3
  <2>4. PICK s : s = [reqs[g] EXCEPT ![i] = [reqs[g][i] EXCEPT !.st = st]]
    OBVIOUS
  <2>5. /\ DOMAIN s = DOMAIN reqs[g] /\ Len(s) = Len(reqs[g])
        /\ \A j \in DOMAIN reqs[g] : s[j].ndp = reqs[g][j].ndp
    <3>1. DOMAIN s = DOMAIN reqs[g] /\ DOMAIN reqs[g] = 1..Len(reqs[g]) /\ Len(reqs[g]) \in Nat
      BY <2>3, <2>4
    <3>2. Len(s) = Len(reqs[g])
      BY <3>1
    <3>3. [reqs[g][i] EXCEPT !.st = st].ndp = reqs[g][i].ndp
      BY <2>3 DEF Request
    <3> QED
      BY <2>3, <2>4, <3>1, <3>2, <3>3
  <2>6. reqs' = [reqs EXCEPT ![g] = s]
    BY <2>1, <2>4
  <2>7. /\ DOMAIN reqs'[f] = DOMAIN reqs[f] /\ Len(reqs'[f]) = Len(reqs[f])
        /\ \A j \in DOMAIN reqs[f] : reqs'[f][j].ndp = reqs[f][j].ndp
    BY <2>5, <2>6, <1>a
  <2>8. {j \in DOMAIN reqs'[f] : reqs'[f][j].ndp} = {j \in DOMAIN reqs[f] : reqs[f][j].ndp}
    BY <2>7
  <2>9. Count(f, LAMBDA r : r.ndp)' = Count(f, LAMBDA r : r.ndp)
    BY <2>8 DEF Count
  <2>10. UNCHANGED <<ndp_var[f], which_request[f], Len(reqs[f])>>
    BY <2>2, <2>7
  <2> QED
    BY <2>9, <2>10, GeneratorStutters
<1>4. CASE UNCHANGED vars
  BY <1>4, <1>1 DEF vars
<1>5. CASE Main
  BY <1>5, <1>1 DEF Main, Connect, AwaitTests, TestsDone, BeginMonitoring,
     MonitoringStarted, AwaitTotals, SpawnProgress, RequestsFinished, EndMonitoring,
     ReadLine, QuitMonitoring, AwaitTasks, Report
<1>6. CASE Progress
  BY <1>6, <1>1 DEF Progress, ProgressCheck, ProgressTotal, ProgressSent, ProgressRecv,
     ProgressPrint
<1>7. CASE \E g \in Functions : RunFunction(g) /\ ~Generate(g)
  BY <1>7, <1>1 DEF RunFunction, TestRequest, AwaitMonitoring, RefuseTime, AddTotal,
     RefuseRate, StartSending, StartJoining, Join, AwaitFinish, Return
<1> QED
  BY <1>2, <1>3, <1>4, <1>5, <1>6, <1>7 DEF Next, Terminated

\* Whatever the interleaving, each function sends what its generator prescribes:
\* the load generator implements RequestGenerator once per function.
THEOREM GeneratorsAreRefined == Spec => GeneratorsRefined
<1>1. Init => \A f \in Functions : Gen(f)!Init
  BY GeneratorInit
<1>2. IInv /\ [Next]_vars => [\A f \in Functions : [Gen(f)!Next]_(Gen(f)!genVars)]_vars
  BY EveryStepRefines
<1>3. Init => IInv
  BY InitIInv
<1>4. IInv /\ [Next]_vars => IInv'
  BY StepIInv
<1> QED
  BY <1>1, <1>2, <1>3, <1>4, PTL DEF Spec, GeneratorsRefined

==============================================================================
