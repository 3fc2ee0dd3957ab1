----------------------------- MODULE MCExperiment -----------------------------
(* One request, measured by a daemon that another client uses, too.           *)
EXTENDS Experiment

MCTotal == [f \in Functions |-> 1]
MCNum == [f \in Functions |-> 1]
MCPoolSize == [f \in Functions |-> 1]
MCMaxBytes == [c \in Clients |-> IF c = "load" THEN 3 ELSE 1]
==============================================================================
