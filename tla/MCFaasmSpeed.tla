----------------------------- MODULE MCFaasmSpeed -----------------------------
(* A small run of the load generator: two functions with a different number of *)
(* requests, different offloading fractions and a pool that wraps.             *)
EXTENDS FaasmSpeed

MCFunctions == {"f1", "f2"}
MCTotal == [f \in MCFunctions |-> IF f = "f1" THEN 2 ELSE 1]
MCNum == [f \in MCFunctions |-> IF f = "f1" THEN 1 ELSE 3]
MCPoolSize == [f \in MCFunctions |-> IF f = "f1" THEN 2 ELSE 1]
==============================================================================
