---------------------------- MODULE MCPluginJobs ----------------------------
(* One job and its requests, at three densities: many requests in a time   *)
(* that has one run of an interval job; fewer over two; and one request,   *)
(* with time for several runs, that scans may all miss.                    *)
EXTENDS PluginJobs

MCPlans ==
    {[time |-> 3, requests |-> 3, dispatches |-> 2],
     [time |-> 5, requests |-> 2, dispatches |-> 2],
     [time |-> 6, requests |-> 1, dispatches |-> 3]}
=============================================================================
