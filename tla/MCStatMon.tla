------------------------------ MODULE MCStatMon ------------------------------
(* Two clients that send any commands in any order; the second one only       *)
(* enough to disturb the first one's range.                                   *)
EXTENDS StatMon

MCClients == {"a", "b"}
MCMaxBytes == [c \in MCClients |-> IF c = "a" THEN 2 ELSE 1]
==============================================================================
