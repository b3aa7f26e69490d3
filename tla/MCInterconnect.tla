--------------------------- MODULE MCInterconnect ---------------------------
(* Small meshes, a ring, a concentrated mesh, a bus, with each queue model.   *)
(* Three threads on each host object, in the shapes that race: two waiters    *)
(* and a signaller, a producer and a consumer (the queue is made for one of   *)
(* each), rounds of a barrier, and sharers that upgrade against each other.   *)
(* Two contexts of one SMT core with two threads, which also move away.       *)
EXTENDS Interconnect, TLC

CONSTANTS t1, t2, t3

Cores == t1 :> 0 @@ t2 :> 1 @@ t3 :> 2
Prog(a, b, c) == t1 :> a @@ t2 :> b @@ t3 :> c
Of(kind, size, prog) ==
    [kind |-> kind, size |-> size, prog |-> prog, core |-> Cores, interrupts |-> kind # "barrier"]

Races ==
    {Of("semaphore", 1, Prog(<<"wait", "wait">>, <<"wait">>, <<"signal", s, "signal">>)) :
        s \in {"signal", "broadcast"}}
    \cup {Of("semaphore", 1, Prog(<<"wait", "signal">>, <<"wait", "signal">>, <<"signal">>))}
    \cup {Of("queue", n, Prog(<<"push", "push", "push", "push">>,
                             <<"pop", "pop", "pop", "pop">>, <<>>)) : n \in 1 .. 3}
    \cup {Of("barrier", 1, Prog(<<"wait", "wait", "wait">>, <<"wait", "wait", "wait">>,
                               <<"wait", "wait", "wait">>))}
    \cup {Of("setlock", 1, Prog(<<a, "exclusive">>, <<b>>, <<c, "shared">>)) :
            a, b, c \in {"shared", "exclusive", "upgrade"}}

Queue(kind) == [kind |-> kind, min |-> 1, max |-> 3, analytical |-> TRUE, window |-> 0, global |-> 0]

\* Three application cores and one more per configuration unless said otherwise;
\* traffic: sender, destination, requester.
Mesh ==
    [model |-> "emesh_hop_by_hop", cores |-> 5, apps |-> 4, concentration |-> 1, width |-> 2,
     wrap |-> FALSE, hop |-> 2, queueing |-> TRUE, queue |-> Queue("history_list"),
     ignoreLocal |-> FALSE, roi |-> TRUE, toggles |-> FALSE, times |-> {0, 1}, sizes |-> {1},
     threads |-> {"user"}, traffic |-> {<<0, 3, 0>>, <<1, 3, 1>>}]

MCConfigs ==
    {[Mesh EXCEPT !.threads = {"user", "sim"}, !.times = {0}],
     [Mesh EXCEPT !.queue = [Queue("basic") EXCEPT !.max = 1], !.sizes = {1, 2}, !.times = {0}],
     [Mesh EXCEPT !.queue = Queue("contention"), !.times = {1, 2}, !.sizes = {2},
                  !.traffic = {<<0, 3, 0>>, <<1, 3, 1>>, <<2, 4, 2>>}],
     [Mesh EXCEPT !.queueing = FALSE, !.width = 4, !.wrap = TRUE, !.toggles = TRUE, !.times = {0},
                  !.traffic = {<<0, 3, 0>>, <<0, 2, 0>>, <<3, 1, 3>>}],
     [Mesh EXCEPT !.concentration = 2, !.width = 2, !.times = {0},
                  !.traffic = {<<0, 3, 0>>, <<1, 2, 1>>, <<0, 2, 0>>, <<2, 1, 4>>}],
     [Mesh EXCEPT !.cores = 3, !.apps = 2, !.width = 2, !.times = {0}, !.threads = {"user", "sim"},
                  !.traffic = {<<0, Broadcast, 0>>, <<1, 0, 1>>}],
     [Mesh EXCEPT !.model = "bus", !.cores = 3, !.apps = 2, !.ignoreLocal = TRUE, !.sizes = {2},
                  !.queue = [Queue("history_list") EXCEPT !.min = 2, !.max = 2], !.times = {0, 1, 5},
                  !.traffic = {<<0, 1, 0>>, <<1, Broadcast, 1>>, <<1, 1, 1>>}],
     [Mesh EXCEPT !.model = "bus", !.cores = 2, !.apps = 2, !.sizes = {1, 2}, !.times = {1, 2, 4},
                  !.threads = {"user", "sim"}, !.traffic = {<<0, 1, 0>>}],
     [Mesh EXCEPT !.model = "bus", !.cores = 2, !.apps = 2, !.queue = [Queue("windowed_mg1") EXCEPT
                  !.window = 2, !.global = 12], !.times = {20, 21}, !.traffic = {<<0, 1, 0>>, <<1, 0, 1>>}],
     [Mesh EXCEPT !.model = "bus", !.cores = 2, !.apps = 2, !.queue = [Queue("basic") EXCEPT !.window = 2],
                  !.traffic = {<<0, 1, 0>>, <<1, 0, 1>>}],
     [Mesh EXCEPT !.model = "emesh_hop_counter", !.cores = 3, !.apps = 3, !.width = 3, !.times = {0},
                  !.traffic = {<<0, Broadcast, 0>>, <<2, 0, 2>>}],
     [Mesh EXCEPT !.model = "magic", !.cores = 2, !.apps = 2, !.times = {0},
                  !.traffic = {<<0, Broadcast, 0>>, <<1, 0, 1>>}]}
=============================================================================
