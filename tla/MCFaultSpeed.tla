---------------------------- MODULE MCFaultSpeed ----------------------------
(* Every benchmark, with two threads, two workers and two iterations: the  *)
(* second starts from the memory the first left behind.  The UFFD ones run *)
(* after one another in one process: with the same handler, with the other *)
(* kind after it, and without the benchmark that registers the signal      *)
(* handler.                                                                *)
EXTENDS FaultSpeed

MCSuites ==
    {<<"NoProtection">>, <<"FullNewMapping">>, <<"ReuseMapping">>,
     <<"ReuseAndDontneed_0", "ReuseAndDontneed_1">>,
     <<"UFFD_Lazy", "UFFD_SIGBUS_Eager", "UFFD_SIGBUS_Lazy">>,
     <<"UFFD_Eager", "UFFD_Lazy", "UFFD_SIGBUS_Lazy">>}

MCLazySuites == {<<"UFFD_Lazy">>}
=============================================================================
