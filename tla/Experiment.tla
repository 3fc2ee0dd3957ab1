------------------------------ MODULE Experiment ------------------------------
(***************************************************************************)
(* An experiment: faasmspeed (FaasmSpeed) measures functions on a host     *)
(* that runs statmon (StatMon), over one TCP connection.  The steps of     *)
(* async_main that use the connection are steps of both: what may fail in  *)
(* FaasmSpeed fails here only for a reason that statmon gives.  The        *)
(* network delivers; the daemon may refuse the connection while it starts, *)
(* end it, or die.  A request that was sent is executed on the host, maybe *)
(* after its sender has given up on it, and its work shows in the host's   *)
(* counters.  Other clients use the daemon at the same time.               *)
(***************************************************************************)
EXTENDS FaasmSpeed

CONSTANTS
    Others,      \* other clients of statmon
    Word, Closed, NDisks, NCpus, MaxBytes, MaxWork, MaxSamples, MaxFails   \* of StatMon

VARIABLES
    server, st, kern, conn, alive, inbox, sent, reply, fails, span,   \* of StatMon
    executed,    \* [function -> indices of its requests that the host has executed]
    early        \* history: how many of them before statmon took '['

Clients == {"load"} \cup Others
Mon == INSTANCE StatMon

loadVars == vars
monVars == <<server, st, kern, conn, alive, inbox, sent, reply, fails, span>>
hostVars == <<executed, early>>
allVars == <<loadVars, monVars, hostVars>>

ASSUME ExperimentAssumption ==
    /\ Mon!WordAssumption /\ Mon!StatMonAssumption
    /\ NHosts = 1
    /\ "load" \notin Others
    /\ MaxBytes["load"] = 3        \* '[', ']' and 'q'
    /\ SumFunctionOnSet(Total, Functions) < MaxWork   \* the host's work is the load

ExperimentInit ==
    /\ Init
    /\ opts = [oneshot |-> FALSE, dry_run |-> FALSE, time |-> "positive", idle |-> {}]
    /\ Mon!Init
    /\ executed = [f \in Functions |-> {}]
    /\ early = 0

------------------------------------------------------------------------------
(* faasmspeed's side of the connection *)

Failed == exit' = "err"
Linked == server = "up" /\ conn["load"] = "open"

\* TcpStream::connect succeeds when the daemon listens.
Linking ==
    /\ Failed <=> server # "up"
    /\ conn' = [conn EXCEPT !["load"] = IF Failed THEN @ ELSE "open"]
    /\ UNCHANGED <<inbox, sent>>

\* write_u8 fails only on a connection that has ended; there it may also still
\* succeed, and the byte is lost.
Writing(b) ==
    /\ Failed => ~Linked
    /\ inbox' = [inbox EXCEPT !["load"] = IF Linked THEN Append(@, b) ELSE @]
    /\ sent' = [sent EXCEPT !["load"] = IF Linked THEN @ + 1 ELSE @]
    /\ UNCHANGED conn

\* read_line waits for a packet or for the end of the connection, which is the
\* end of the stream or an error.
ReadingLine ==
    /\ mlink'[1] = "line" <=> reply["load"] # Mon!NoReply
    /\ mlink'[1] # "line" => ~Linked
    /\ UNCHANGED <<conn, inbox, sent>>

LoadMain ==
    /\ exit = "running"
    /\ \/ Connect /\ Linking
       \/ BeginMonitoring /\ Writing("[")
       \/ EndMonitoring /\ Writing("]")
       \/ ReadLine /\ ReadingLine
       \/ QuitMonitoring /\ Writing("q")
       \/ /\ \/ AwaitTests \/ TestsDone \/ MonitoringStarted \/ AwaitTotals
             \/ SpawnProgress \/ RequestsFinished \/ AwaitTasks \/ Report
          /\ UNCHANGED <<conn, inbox, sent>>
    /\ UNCHANGED <<server, st, kern, alive, reply, fails, span, hostVars>>

\* Steps of the other tasks, which do not use the connection; a request is
\* answered after it was executed.
LoadTask(step) ==
    /\ exit = "running"
    /\ step
    /\ UNCHANGED <<server, st, kern, conn, alive, inbox, sent, reply, fails, span, hostVars>>

LoadFunction(f) == LoadTask(RunFunction(f))
LoadRequest(f, i) ==
    LoadTask(RequestTask(f, i) /\ (reqs'[f][i].st = "ok" => i \in executed[f]))
\* Of the progress task only its end matters here.
LoadProgress == done /\ LoadTask(ProgressCheck)

------------------------------------------------------------------------------
(* The host *)

Pending(b) == \E k \in DOMAIN inbox["load"] : inbox["load"][k] = b

\* The host executes a request: a unit of work, on one of its disks and CPUs.
Execute(f, i) ==
    /\ exit = "running"
    /\ reqs[f][i].st \in {"sent", "err"} /\ i \notin executed[f]
    /\ executed' = [executed EXCEPT ![f] = @ \cup {i}]
    /\ early' = IF Pending("[") THEN early + 1 ELSE early
    /\ Mon!Work
    /\ UNCHANGED <<loadVars, server, st, conn, alive, inbox, sent, reply, fails, span>>

\* Everything else the daemon and its other clients do; of these, only what moves
\* the range matters to the load generator.  The host has no work but the load,
\* which other work could hide in the sums.
MonStep ==
    /\ exit = "running"
    /\ \/ Mon!Boot \/ Mon!Tick
       \/ \E c \in Clients : Mon!Handle(c)
       \/ \E c \in Others : Mon!Connect(c)
       \/ \E c \in Others : Mon!ClientSend(c) /\ inbox'[c] \in Seq({"[", "]"})
    /\ UNCHANGED <<loadVars, hostVars>>

\* What the daemon does after the load generator has ended is not followed.
ExperimentOver == exit # "running" /\ UNCHANGED allVars

ExperimentNext ==
    \/ LoadMain
    \/ \E f \in Functions : LoadFunction(f)
    \/ \E f \in Functions : \E i \in DOMAIN reqs[f] : LoadRequest(f, i) \/ Execute(f, i)
    \/ LoadProgress
    \/ MonStep
    \/ ExperimentOver

\* The runtimes of both processes run what is ready, if in any order; a request
\* needs no fairness of the host, since its timeout ends it.  Nothing is assumed
\* of the host's work, the timer and the other clients.
SystemStep ==
    \/ LoadMain
    \/ \E f \in Functions : LoadFunction(f)
    \/ \E f \in Functions : \E i \in DOMAIN reqs[f] : LoadRequest(f, i)
    \/ LoadProgress
    \/ \E c \in Clients : Mon!Handle(c) /\ UNCHANGED <<loadVars, hostVars>>

ExperimentSpec == ExperimentInit /\ [][ExperimentNext]_allVars /\ WF_allVars(SystemStep)

------------------------------------------------------------------------------
(* Properties *)

Answered ==
    SumFunctionOnSet([f \in Functions |-> Count(f, LAMBDA r : r.st = "ok")], Functions)

\* The line faasmspeed prints of a host accounts for its load: unless another
\* client moved the range or a reading was lost in a failed update, the traffic
\* summed up between '[' and ']' contains every request that was answered, but
\* for those the host executed before statmon got round to '['.  Their I/O is
\* what the last disk did, their events those of the CPUs before the first one
\* without a counter (faasmspeed main.rs:347-393 with statmon main.rs:40-53,
\* iostat.rs:49-64 and eventstat.rs:52-73).
LoadAccountedFor ==
    LET r == reply["load"]
    IN  (mlink[1] = "line" /\ r.kind = "measured")
          => /\ "net" \notin r.lost => r.packet.sum["net"] + early >= Answered
             /\ "io" \notin r.lost => r.packet.sum["io"] = r.io
             /\ r.packet.now["event"] = r.event

\* The connection never costs an experiment its results while statmon is well:
\* faasmspeed gives up, or records an empty line for the host, only if the
\* daemon was not listening when it connected or one of its updates failed
\* (main.rs:336, 348, 387-395).
LostOnlyByFailure ==
    (exit = "err" \/ mlink[1] = "eof") => mlink[1] = "none" \/ fails > 0

\* Requests are only executed once the monitoring runs: that is what
\* run_function waits for at its second barrier.
MonitoredFromStart == early = 0

\* The experiment ends: faasmspeed reads a line without a timeout, so this rests
\* on statmon answering every ']' or ending the connection.
ExperimentEnds == <>(exit # "running")
==============================================================================
