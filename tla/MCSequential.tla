---------------------------- MODULE MCSequential ----------------------------
(* The two parts of faasmspeed that run in one task: the request loop of a    *)
(* function, and the report on the answers to a function's requests.  They    *)
(* share no variable, so a behaviour follows one of them and leaves the other *)
(* at its start.  The report is on up to five answers of three kinds, whose   *)
(* fields order them differently and two of which start at the same time, and *)
(* on errors with two texts.                                                  *)
EXTENDS RequestGenerator, Report

VARIABLE part   \* the part that is followed

Sample(s, r, t, b) ==
    [start_time |-> s, us_request |-> r, us_status |-> t, num_bytes |-> b]

MCSamples == {Sample(1, 5, 2, 0), Sample(1, 0, 0, 3), Sample(4, 3, 1, 3)}

MCInit ==
    /\ part \in {"generator", "report"}
    /\ Init /\ ReportInit
    /\ part = "generator" => outcome = <<>>

MCNext ==
    \/ part = "generator" /\ Next /\ UNCHANGED <<part, reportVars>>
    \/ part = "report" /\ ReportNext /\ UNCHANGED <<part, genVars>>

MCSpec == MCInit /\ [][MCNext]_<<part, genVars, reportVars>>
==============================================================================
