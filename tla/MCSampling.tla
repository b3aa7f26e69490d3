----------------------------- MODULE MCSampling -----------------------------
EXTENDS Sampling

\* Neither interval is a multiple of the synchronisation interval.
Base == [detailed |-> 4, fastforward |-> 5, sync |-> 3, warmup |-> 2, detailedWarmup |-> 0, quantum |-> 2,
         detailedSync |-> TRUE, uncoordinated |-> FALSE, oneipc |-> FALSE, intervals |-> 2,
         manager |-> FALSE, sleeps |-> 1, latency |-> {0}, aim |-> Never]
MCSetting ==
    {Base,
     [Base EXCEPT !.detailedWarmup = 2, !.detailedSync = FALSE],
     [Base EXCEPT !.uncoordinated = TRUE, !.oneipc = TRUE],
     [Base EXCEPT !.aim = 10],
     [Base EXCEPT !.latency = {0, 2}, !.sleeps = 0],
     [Base EXCEPT !.manager = TRUE]}
=============================================================================
