---------------------------- MODULE TraceFrontend ----------------------------
(***************************************************************************)
(* The trace front-end: an application under the Pin recorder               *)
(* (sift/recorder), one pair of SIFT pipes per application thread, and the  *)
(* TraceThreads and the TraceManager that feed the simulator                *)
(* (common/trace_frontend).  A thread is named by its FIFO: the application *)
(* and the thread's number in it.  `proc' is the recorder's state of an     *)
(* application process, `rec' that of one of its threads, `trc' the         *)
(* TraceThread at the other end, `sim' the simulator's shared state.        *)
(*                                                                         *)
(* The application is the environment: every basic block, system call and   *)
(* magic instruction it may execute is a choice, config.blocks of them per  *)
(* thread.  A handler is one step, except where it gives way: a futex wait  *)
(* reads the futex word through the recorder while it holds the thread      *)
(* manager's lock, and endApplication takes the trace manager's lock anew   *)
(* for every thread.                                                       *)
(***************************************************************************)
EXTENDS Sift

CONSTANTS Config,    \* the instances explored, see MCTraceFrontend
          MaxApps,   \* bound on the applications ever created
          MaxThreads \* bound on the threads of one application

ASSUME FrontendAssumption == MaxApps \in Nat /\ MaxThreads \in Nat \ {0}

VARIABLES config, proc, rec, trc, sim, out, resp
vars == <<config, proc, rec, trc, sim, out, resp>>

Apps == 0 .. (MaxApps - 1)
Key == Apps \X (0 .. (MaxThreads - 1))
NoKey == <<MaxApps, 0>>
MaxRuns == 2         \* num_runs is only compared with 1, and stays at this bound
NoWord == 0          \* tid_ptr == NULL
Idle == [type |-> "None"]

Threads(app) == {k \in Key : k[1] = app}

-----------------------------------------------------------------------------
(* Initial state *)

\* thread_data_t of a thread that runs, and of one that was never started.
NewRecorder(word, tid) ==
    [state |-> "run", writer |-> NewWriter, todo |-> <<>>, wait |-> Idle,
     reported |-> 0, icount |-> 0, tid |-> tid, word |-> word,
     info |-> tid # NoWord, left |-> config.blocks]
NoRecorder == [NewRecorder(NoWord, NoWord) EXCEPT !.state = "none"]

\* A TraceThread as its constructor leaves it; expect and faithful compare
\* what it reads with what the application executed.
NewTraceThread ==
    [state |-> "start", reader |-> NewReader, first |-> FALSE, stop |-> FALSE,
     stopped |-> FALSE, blocked |-> FALSE, ending |-> {}, futex |-> NoWord,
     faithful |-> TRUE, protocol |-> TRUE, expect |-> <<>>]
NoTraceThread == [NewTraceThread EXCEPT !.state = "none"]

Header == [type |-> "Header"]
File == <<Header, [type |-> "InstructionExt", addr |-> 0, size |-> 1,
                   mem |-> <<>>, branch |-> FALSE, predicate |-> FALSE,
                   executed |-> TRUE], [type |-> "End"]>>
FileInstruction == [ins |-> [addr |-> 0, size |-> 1, mem |-> <<>>, branch |-> FALSE,
                             predicate |-> FALSE, executed |-> TRUE],
                    present |-> {}]

FirstMode == IF config.roi THEN "Icount" ELSE "Detailed"

Init ==
    /\ config \in Config
    /\ proc = [a \in Apps |->
                 [mode |-> FirstMode, roi |-> ~config.roi, tidptrs |-> <<>>,
                  words |-> {}, cloned |-> {}, clones |-> 0, threads |-> 1]]
    /\ rec = [k \in Key |-> IF k[1] < config.apps /\ k[2] = 0 /\ ~config.files
                            THEN NewRecorder(NoWord, NoWord) ELSE NoRecorder]
    /\ trc = [k \in Key |-> IF k[1] < config.apps /\ k[2] = 0
                            THEN [NewTraceThread EXCEPT !.expect =
                                    IF config.files THEN <<FileInstruction>>
                                    ELSE <<>>]
                            ELSE NoTraceThread]
    /\ sim = [mode |-> FirstMode, performance |-> FALSE, done |-> FALSE,
              numApps |-> config.apps, nonfinish |-> config.apps,
              app |-> [a \in Apps |-> [threads |-> IF a < config.apps THEN 1 ELSE 0,
                                       count |-> IF a < config.apps THEN 1 ELSE 0,
                                       runs |-> 0]],
              lock |-> NoKey]
    /\ out = [k \in Key |-> IF k[1] < config.apps /\ k[2] = 0
                            THEN IF config.files THEN File ELSE <<Header>>
                            ELSE <<>>]
    /\ resp = [k \in Key |-> <<>>]

-----------------------------------------------------------------------------
(* The recorder: what the application's threads do *)

Running(k) == /\ rec[k].state = "run"
              /\ rec[k].todo = <<>>
              /\ rec[k].wait = Idle

Count(n) == [type |-> "InstructionCount", count |-> n, apply |-> TRUE]
Sync == [type |-> "Sync", apply |-> TRUE]
Syscall(kind, word) == [type |-> "Syscall", kind |-> kind, word |-> word]

\* countInsns: instructions that are only counted, reported to the simulator
\* when there are more than KnobFlowControlFF of them.
CountInsns(k) ==
    /\ Running(k)
    /\ rec[k].left > 0
    /\ proc[k[1]].mode = "Icount"
    /\ LET n == rec[k].reported + 1 IN
       rec' = [rec EXCEPT ![k].left = @ - 1,
                          ![k].reported = IF n > config.ff THEN 0 ELSE n,
                          ![k].todo = IF n > config.ff THEN <<Count(n)>> ELSE <<>>]
    /\ UNCHANGED <<config, proc, trc, sim, out, resp>>

\* sendInstruction: the instruction goes into the pipe; every KnobFlowControl
\* instructions the recorder waits for the simulator.  present: the pages that are in
\* physical memory at this moment.
SendInstruction(k, ins, present) ==
    /\ Running(k)
    /\ rec[k].left > 0
    /\ proc[k[1]].mode = "Detailed"
    /\ LET n == rec[k].icount + 1 IN
       rec' = [rec EXCEPT ![k].left = @ - 1,
                          ![k].icount = IF n > config.flow THEN 0 ELSE n,
                          ![k].writer = AfterInstruction(@, ins, config, present),
                          ![k].todo = IF n > config.flow THEN <<Sync>> ELSE <<>>]
    /\ out' = [out EXCEPT ![k] = @ \o InstructionRecords(rec[k].writer, ins, config, present)]
    /\ trc' = [trc EXCEPT ![k].expect = Append(@, [ins |-> ins, present |-> present])]
    /\ UNCHANGED <<config, proc, sim, resp>>

\* sendCacheOnly.
SendCacheOnly(k) ==
    /\ Running(k)
    /\ rec[k].left > 0
    /\ proc[k[1]].mode = "Memory"
    /\ LET n == rec[k].reported + 1 IN
       rec' = [rec EXCEPT ![k].left = @ - 1,
                          ![k].reported = IF n > config.ff THEN 0 ELSE n,
                          ![k].todo = IF n > config.ff THEN <<Sync>> ELSE <<>>]
    /\ out' = [out EXCEPT ![k] = Append(@, [type |-> "CacheOnly"])]
    /\ UNCHANGED <<config, proc, trc, sim, resp>>

\* emulateSyscallFunc: the thread's tid once, then the instructions counted
\* so far (the mode that comes back is not looked at), then the call.
EmulateSyscall(k, requests) ==
    (IF rec[k].info THEN <<[type |-> "Emu"]>> ELSE <<>>)
    \o (IF rec[k].reported > 0
        THEN <<[Count(rec[k].reported) EXCEPT !.apply = FALSE]>> ELSE <<>>)
    \o requests
SystemCall(k, requests) ==
    /\ Running(k)
    /\ rec[k].left > 0
    /\ rec' = [rec EXCEPT ![k].left = @ - 1,
                          ![k].reported = 0,
                          ![k].info = FALSE,
                          ![k].todo = EmulateSyscall(k, requests)]
    /\ UNCHANGED <<config, proc, trc, sim, out, resp>>

\* SYS_read and SYS_wait4 may block; SYS_write also mirrors its output.
BlockingCall(k) == "read" \in config.ops /\ SystemCall(k, <<Syscall("read", NoWord)>>)
WriteCall(k) == /\ "write" \in config.ops
                /\ SystemCall(k, <<[type |-> "Output"], Syscall("write", NoWord)>>)
\* SYS_clone with CLONE_THREAD.  Unless config says otherwise the
\* application creates a thread when the one before has started.
Clone(k) == /\ proc[k[1]].clones < config.clones
            /\ config.racing \/ (k[2] = 0 /\ proc[k[1]].clones = proc[k[1]].threads - 1)
            /\ SystemCall(k, <<[type |-> "NewThread"]>>)
\* pthread_join: a futex wait on the thread's tid word, while it is set.
Join(k, word) ==
    /\ k[2] = 0
    /\ word \in proc[k[1]].words \ proc[k[1]].cloned
    /\ SystemCall(k, <<Syscall("futex_wait", word)>>)
\* A fork: forkBefore asks the simulator for an application id.
Fork(k) == /\ "fork" \in config.ops
           /\ sim.numApps < MaxApps
           /\ SystemCall(k, <<[type |-> "Fork"]>>)
\* handleMagic.
Magic(k, cmd) == /\ cmd \in config.ops
                 /\ Running(k)
                 /\ rec[k].left > 0
                 /\ rec' = [rec EXCEPT ![k].left = @ - 1,
                                       ![k].todo = <<[type |-> "Magic", cmd |-> cmd]>>]
                 /\ UNCHANGED <<config, proc, trc, sim, out, resp>>
\* exit_group, by the main thread or, where config says so, by any.
ExitGroup(k) ==
    /\ Running(k)
    /\ k[2] = 0 \/ config.anyExit
    /\ rec' = [rec EXCEPT ![k].reported = 0,
                          ![k].info = FALSE,
                          ![k].todo = EmulateSyscall(k, <<Syscall("exit_group", NoWord)>>)]
    /\ UNCHANGED <<config, proc, trc, sim, out, resp>>
\* threadFinishHelper: the tid word is cleared and its waiter woken.
FinishRequests(k) ==
    (IF rec[k].tid = NoWord THEN <<>> ELSE <<Syscall("futex_wake", rec[k].tid)>>)
    \o <<[type |-> "End"]>>
\* A thread returns (threadFinish).
Finish(k) ==
    /\ Running(k)
    /\ k[2] # 0
    /\ rec' = [rec EXCEPT ![k].state = "finish",
                          ![k].todo = EmulateSyscall(k, <<>>) \o FinishRequests(k)]
    /\ UNCHANGED <<config, proc, trc, sim, out, resp>>

\* Mutant of threadStart: the tid pointer is left in the list.
ThreadStartKeepsPointer(app, word) ==
    LET k == <<app, proc[app].threads>> IN
    /\ word \in proc[app].cloned
    /\ rec' = [rec EXCEPT ![k] = NewRecorder(word, Head(proc[app].tidptrs))]
    /\ proc' = [proc EXCEPT ![app].cloned = @ \ {word},
                            ![app].threads = @ + 1]
    /\ out' = [out EXCEPT ![k] = <<Header>>]
    /\ UNCHANGED <<config, trc, sim, resp>>
\* threadStart of a thread that was cloned: it takes the oldest tid pointer
\* and the next thread number.
ThreadStart(app, word) ==
    LET k == <<app, proc[app].threads>> IN
    /\ word \in proc[app].cloned
    /\ rec' = [rec EXCEPT ![k] = NewRecorder(word, Head(proc[app].tidptrs))]
    /\ proc' = [proc EXCEPT ![app].cloned = @ \ {word},
                            ![app].tidptrs = Tail(@),
                            ![app].threads = @ + 1]
    /\ out' = [out EXCEPT ![k] = <<Header>>]
    /\ UNCHANGED <<config, trc, sim, resp>>

\* One record of a request sequence goes into the pipe.  A clone's tid
\* pointer is remembered before the request, a finished thread's word is
\* cleared before its wake.
Awaited == {"InstructionCount", "Sync", "Syscall", "NewThread", "Fork", "Magic", "Emu"}
Write(k) ==
    /\ rec[k].todo # <<>>
    /\ rec[k].wait = Idle
    /\ LET app == k[1]
           word == proc[app].clones + 1
           h == Head(rec[k].todo)
           r == IF h.type = "NewThread" THEN [type |-> "NewThread", word |-> word] ELSE h
       IN  /\ out' = [out EXCEPT ![k] = Append(@, r)]
           /\ rec' = [rec EXCEPT ![k].todo = Tail(@),
                                 ![k].wait = IF r.type \in Awaited THEN r ELSE @,
                                 ![k].state = IF r.type = "End" THEN "ended" ELSE @]
           /\ proc' = CASE r.type = "NewThread" ->
                             [proc EXCEPT ![app].tidptrs = Append(@, word),
                                          ![app].words = @ \cup {word},
                                          ![app].clones = word]
                        [] r.type = "Syscall" /\ r.kind = "futex_wake" ->
                             [proc EXCEPT ![app].words = @ \ {r.word}]
                        [] OTHER -> proc
    /\ UNCHANGED <<config, trc, sim, resp>>

-----------------------------------------------------------------------------
(* The recorder: answers *)

\* setInstrumentationMode of the recorder.
SetMode(p, mode) == IF mode = "Unknown" THEN p ELSE [p EXCEPT !.mode = mode]

\* beginROI and endROI, run when the magic instruction has been answered.
AfterMagic(k, cmd) ==
    CASE cmd = "roi_start" /\ config.roi /\ ~proc[k[1]].roi ->
           [proc |-> [proc[k[1]] EXCEPT !.roi = TRUE, !.mode = "Detailed"],
            rec |-> [rec[k] EXCEPT !.wait = Idle, !.reported = 0,
                       !.todo = IF rec[k].reported > 0
                                THEN <<[Count(rec[k].reported) EXCEPT !.apply = FALSE]>>
                                ELSE <<>>]]
      [] cmd = "roi_end" /\ config.roi /\ proc[k[1]].roi ->
           [proc |-> [proc[k[1]] EXCEPT !.roi = FALSE, !.mode = "Icount"],
            rec |-> [rec[k] EXCEPT !.wait = Idle, !.state = "finish",
                       !.todo = <<Syscall("exit_group", NoWord), [type |-> "End"]>>]]
      [] OTHER -> [proc |-> proc[k[1]], rec |-> [rec[k] EXCEPT !.wait = Idle]]

\* The process exits: Fini closes the pipes of the threads still there, and
\* threadFinish of the first thread sends another exit_group.
ProcessExit(k, r) ==
    [j \in Key |->
       CASE j = k -> [r EXCEPT !.state = "finish",
                               !.todo = (IF k[2] = 0 THEN <<Syscall("exit", NoWord)>>
                                         ELSE <<>>) \o <<[type |-> "End"]>>]
         [] j # k /\ j[1] = k[1] /\ rec[j].state = "run" ->
              [rec[j] EXCEPT !.state = "finish", !.wait = Idle,
                 !.todo = (IF j[2] = 0 /\ rec[j].wait = Idle
                           THEN <<Syscall("exit", NoWord)>> ELSE <<>>)
                          \o <<[type |-> "End"]>>]
         [] OTHER -> rec[j]]

\* forkAfterInChild: the child is the first thread of a new application and
\* keeps the mode it inherits.
Forked(k, child, r) ==
    [rec EXCEPT ![k] = r,
                ![<<child, 0>>] = [NewRecorder(NoWord, NoWord) EXCEPT !.left = rec[k].left]]

Answer(k) == Head(resp[k])
\* A MemoryRequest, served while the recorder waits for something else
\* (handleMemoryRequest).
ServeMemory(k) ==
    /\ resp[k] # <<>>
    /\ Answer(k).type = "MemoryRequest"
    /\ rec[k].wait.type \in {"Syscall", "Sync", "Magic", "Emu"}
    /\ out' = [out EXCEPT ![k] = Append(@, [type |-> "MemoryResponse",
                                            word |-> Answer(k).word,
                                            set |-> Answer(k).word \in proc[k[1]].words])]
    /\ resp' = [resp EXCEPT ![k] = Tail(@)]
    /\ UNCHANGED <<config, proc, rec, trc, sim>>

\* The answer itself: the request returns and the thread goes on.
ReceiveAnswer(k) ==
    /\ resp[k] # <<>>
    /\ Answer(k).type = rec[k].wait.type
    /\ LET a == Answer(k)
           app == k[1]
           w == rec[k].wait
           r == [rec[k] EXCEPT !.wait = Idle]
       IN  CASE w.type \in {"InstructionCount", "Sync"} /\ w.apply ->
                  /\ rec' = [rec EXCEPT ![k] = r]
                  /\ proc' = [proc EXCEPT ![app] = SetMode(@, a.mode)]
                  /\ UNCHANGED out
             [] w.type = "NewThread" ->
                  /\ rec' = [rec EXCEPT ![k] = r]
                  /\ proc' = [proc EXCEPT ![app].cloned = @ \cup {w.word}]
                  /\ UNCHANGED out
             [] w.type = "Fork" ->
                  /\ rec' = Forked(k, a.app, r)
                  /\ proc' = [proc EXCEPT ![a.app].mode = proc[app].mode,
                                          ![a.app].roi = proc[app].roi]
                  /\ out' = [out EXCEPT ![<<a.app, 0>>] = <<Header>>]
             [] w.type = "Magic" ->
                  /\ rec' = [rec EXCEPT ![k] = AfterMagic(k, w.cmd).rec]
                  /\ proc' = [proc EXCEPT ![app] = AfterMagic(k, w.cmd).proc]
                  /\ UNCHANGED out
             [] w.type = "Syscall" /\ w.kind = "exit_group" /\ rec[k].state = "run" ->
                  /\ rec' = ProcessExit(k, r)
                  /\ UNCHANGED <<proc, out>>
             [] OTHER -> rec' = [rec EXCEPT ![k] = r] /\ UNCHANGED <<proc, out>>
    /\ resp' = [resp EXCEPT ![k] = Tail(@)]
    /\ UNCHANGED <<config, trc, sim>>

-----------------------------------------------------------------------------
(* The trace manager *)

\* newThread, with the trace manager's lock held.
NewThread(s, app, first) ==
    IF first THEN [s EXCEPT !.app[app].threads = 1, !.app[app].count = 1]
    ELSE [s EXCEPT !.app[app].threads = @ + 1, !.app[app].count = @ + 1]

\* stop: every thread is asked to stop and the simulation is over.
Stop(s) == [s EXCEPT !.done = TRUE]

\* signalDone's counts.
SignalDone(s, k, aborted) ==
    IF trc[k].stopped THEN s ELSE [s EXCEPT !.app[k[1]].threads = @ - 1]
\* The application ended with this thread: it is counted once, and the
\* simulation stops or the application starts again.
AppEnds(k, aborted) ==
    ~trc[k].stopped /\ ~aborted /\ SignalDone(sim, k, aborted).app[k[1]].threads = 0
Counted(s, app) ==
    [s EXCEPT !.app[app].runs = IF @ < MaxRuns THEN @ + 1 ELSE @,
              !.nonfinish = IF s.app[app].runs = 0 THEN @ - 1 ELSE @]
StopsNow(s) == config.stopFirst \/ s.nonfinish = 0
Restarts(s) == ~StopsNow(s) /\ config.restart
SimAfter(k, aborted) ==
    LET s == SignalDone(sim, k, aborted)
        c == Counted(s, k[1])
    IN  IF ~AppEnds(k, aborted) THEN s
        ELSE IF StopsNow(c) THEN Stop(c)
        ELSE IF Restarts(c) THEN NewThread(c, k[1], TRUE)
        ELSE c

\* The end of TraceThread::run: onThreadExit, then signalDone.
ThreadDone(k) ==
    LET aborted == trc[k].stop
        restarted == AppEnds(k, aborted)
                     /\ Restarts(Counted(SignalDone(sim, k, aborted), k[1]))
    IN
    /\ trc[k].state = "exit"
    /\ sim.lock = NoKey
    /\ sim' = SimAfter(k, aborted)
    /\ trc' = [j \in Key |->
                 IF j = k /\ restarted
                 THEN [NewTraceThread EXCEPT !.expect = <<FileInstruction>>]
                 ELSE IF j = k THEN [trc[k] EXCEPT !.state = "done", !.stopped = TRUE]
                 ELSE [trc[j] EXCEPT !.stop = @ \/ sim'.done]]
    /\ out' = IF restarted THEN [out EXCEPT ![k] = File] ELSE out
    /\ UNCHANGED <<config, proc, rec, resp>>

-----------------------------------------------------------------------------
(* TraceThread *)

\* run, up to the first read: onThreadStart, then initStream, which waits
\* for the recorder to open the pipe.
InitStream(k) ==
    /\ trc[k].state = "start"
    /\ sim.lock = NoKey
    /\ out[k] # <<>>
    /\ trc' = [trc EXCEPT ![k].state = "read"]
    /\ out' = [out EXCEPT ![k] = Tail(@)]
    /\ UNCHANGED <<config, proc, rec, sim, resp>>

Reads(k, types) == /\ trc[k].state = "read"
                   /\ out[k] # <<>>
                   /\ Head(out[k]).type \in types
Consume(k) == out' = [out EXCEPT ![k] = Tail(@)]
Reply(k, r) == resp' = IF config.files THEN resp ELSE [resp EXCEPT ![k] = Append(@, r)]

\* unblock: the blocking system call the thread was in has returned.  It
\* takes the thread manager's lock.
MayUnblock(k) == trc[k].blocked => sim.lock = NoKey

\* Records that only fill the reader's caches, and those without effect on
\* this state (cache warm-up and output).
ReadCaches(k) ==
    /\ Reads(k, {"Icache", "Logical2Physical", "CacheOnly", "Output"})
    /\ trc' = [trc EXCEPT ![k].reader =
                 IF IsCacheRecord(Head(out[k])) THEN ReadCacheRecord(@, Head(out[k])) ELSE @]
    /\ Consume(k)
    /\ UNCHANGED <<config, proc, rec, sim, resp>>

\* The loop in run stops when asked, after the instruction at hand; the
\* first instruction is only kept for the next round.
StopsAfter(k) == trc[k].first /\ trc[k].stop
\* An instruction is read: the one before it is simulated.
ReadOne(k) ==
    /\ Reads(k, {"Instruction", "InstructionExt"})
    /\ MayUnblock(k)
    /\ LET r == ReadInstruction(trc[k].reader, Head(out[k]))
           ins == Delivered(r, Head(out[k]))
           right == /\ trc[k].expect # <<>>
                    /\ ins = Head(trc[k].expect).ins
                    /\ r.sinst.decoded \/ config.files
                    /\ config.pa => Unmapped(r, ins) \cap Head(trc[k].expect).present = {}
       IN  trc' = [trc EXCEPT ![k].reader = r,
                              ![k].first = TRUE,
                              ![k].blocked = IF trc[k].first THEN FALSE ELSE @,
                              ![k].faithful = @ /\ right,
                              ![k].expect = IF @ = <<>> THEN @ ELSE Tail(@),
                              ![k].state = IF StopsAfter(k) THEN "exit" ELSE @]
    /\ Consume(k)
    /\ UNCHANGED <<config, proc, rec, sim, resp>>

ReadEnd(k) ==
    /\ Reads(k, {"End"})
    /\ trc' = [trc EXCEPT ![k].state = "exit"]
    /\ Consume(k)
    /\ UNCHANGED <<config, proc, rec, sim, resp>>

\* handleInstructionCountFunc, for InstructionCount and Sync: the answer is
\* the simulator's mode.
ReadCount(k) ==
    /\ Reads(k, {"InstructionCount", "Sync"})
    /\ MayUnblock(k)
    /\ trc' = [trc EXCEPT ![k].blocked = FALSE]
    /\ Reply(k, [type |-> Head(out[k]).type, mode |-> sim.mode])
    /\ Consume(k)
    /\ UNCHANGED <<config, proc, rec, sim>>

\* handleNewThreadFunc and handleForkFunc.
ReadNewThread(k) ==
    LET new == <<k[1], sim.app[k[1]].count>> IN
    /\ Reads(k, {"NewThread"})
    /\ sim.lock = NoKey
    /\ sim' = NewThread(sim, k[1], FALSE)
    /\ trc' = [trc EXCEPT ![new] = NewTraceThread]
    /\ Reply(k, [type |-> "NewThread"])
    /\ Consume(k)
    /\ UNCHANGED <<config, proc, rec>>
ReadFork(k) ==
    LET app == sim.numApps IN
    /\ Reads(k, {"Fork"})
    /\ sim.lock = NoKey
    /\ app < MaxApps
    /\ sim' = NewThread([sim EXCEPT !.numApps = @ + 1, !.nonfinish = @ + 1], app, TRUE)
    /\ trc' = [trc EXCEPT ![<<app, 0>>] = NewTraceThread]
    /\ Reply(k, [type |-> "Fork", app |-> app])
    /\ Consume(k)
    /\ UNCHANGED <<config, proc, rec>>

\* handleMagicFunc: setPerformance does nothing when the models are as asked for.
SetPerformance(s, enabled) ==
    IF s.performance = enabled THEN s
    ELSE [s EXCEPT !.performance = enabled, !.mode = IF enabled THEN "Detailed" ELSE "Icount"]
MagicMode(s, cmd) ==
    CASE cmd \in {"roi_start", "roi_end"} /\ config.roi -> SetPerformance(s, cmd = "roi_start")
      [] cmd = "warmup" -> [s EXCEPT !.mode = "Memory"]
      [] OTHER -> s
ReadMagic(k) ==
    /\ Reads(k, {"Magic"})
    /\ sim.lock = NoKey
    /\ sim' = MagicMode(sim, Head(out[k]).cmd)
    /\ Reply(k, [type |-> "Magic"])
    /\ Consume(k)
    /\ UNCHANGED <<config, proc, rec, trc>>

\* handleEmuFunc.
ReadEmu(k) ==
    /\ Reads(k, {"Emu"})
    /\ MayUnblock(k)
    /\ trc' = [trc EXCEPT ![k].blocked = FALSE]
    /\ Reply(k, [type |-> "Emu"])
    /\ Consume(k)
    /\ UNCHANGED <<config, proc, rec, sim>>

\* handleSyscallFunc.
IsCall(k, kinds) == /\ Reads(k, {"Syscall"})
                    /\ Head(out[k]).kind \in kinds
                    /\ sim.lock = NoKey
Answered == [type |-> "Syscall"]
ReadSyscall(k) ==
    /\ IsCall(k, {"read", "write"})
    /\ trc' = [trc EXCEPT ![k].blocked = Head(out[k]).kind = "read"]
    /\ Reply(k, Answered)
    /\ Consume(k)
    /\ UNCHANGED <<config, proc, rec, sim>>
\* FUTEX_WAIT: the lock is taken and the futex word asked for...
ReadFutexWait(k) ==
    /\ IsCall(k, {"futex_wait"})
    /\ sim' = [sim EXCEPT !.lock = k]
    /\ trc' = [trc EXCEPT ![k].state = "memory", ![k].blocked = FALSE,
                          ![k].futex = Head(out[k]).word]
    /\ Reply(k, [type |-> "MemoryRequest", word |-> Head(out[k]).word])
    /\ Consume(k)
    /\ UNCHANGED <<config, proc, rec>>
\* Mutant: the thread sleeps without looking at the word.
FutexSleepsAlways(m) == TRUE
FutexSleeps(m) == m.set
\* ... and the answer (AccessMemory) decides whether the thread sleeps.
ReadMemoryResponse(k) ==
    /\ trc[k].state = "memory"
    /\ out[k] # <<>>
    /\ LET m == Head(out[k])
           expected == m.type = "MemoryResponse" /\ m.word = trc[k].futex
           sleeps == expected /\ FutexSleeps(m)
       IN  /\ trc' = [trc EXCEPT ![k].protocol = @ /\ expected,
                                 ![k].state = IF sleeps THEN "stalled" ELSE "read",
                                 ![k].futex = IF sleeps THEN @ ELSE NoWord]
           /\ IF sleeps THEN UNCHANGED resp ELSE Reply(k, Answered)
    /\ sim' = [sim EXCEPT !.lock = NoKey]
    /\ Consume(k)
    /\ UNCHANGED <<config, proc, rec>>
\* FUTEX_WAKE of one waiter: the waiter's own call returns as well.
ReadFutexWake(k) ==
    /\ IsCall(k, {"futex_wake"})
    /\ LET woken == {j \in Threads(k[1]) : trc[j].state = "stalled"
                                            /\ trc[j].futex = Head(out[k]).word}
       IN  /\ trc' = [j \in Key |-> IF j \in woken
                                     THEN [trc[j] EXCEPT !.state = "read", !.futex = NoWord]
                                     ELSE [trc[j] EXCEPT !.blocked = IF j = k THEN FALSE ELSE @]]
           /\ resp' = [j \in Key |-> IF j \in woken \cup {k} THEN Append(resp[j], Answered)
                                      ELSE resp[j]]
    /\ Consume(k)
    /\ UNCHANGED <<config, proc, rec, sim>>
\* exit_group: endApplication goes through the other threads one by one.
ReadExitGroup(k) ==
    /\ IsCall(k, {"exit_group", "exit"})
    /\ trc' = [trc EXCEPT ![k].state = "ending", ![k].blocked = FALSE,
                 ![k].ending = {j \in Threads(k[1]) \ {k} : trc[j].state # "none"}]
    /\ Consume(k)
    /\ UNCHANGED <<config, proc, rec, sim, resp>>
EndApplication(k, j) ==
    /\ trc[k].state = "ending"
    /\ j \in trc[k].ending
    /\ trc' = [trc EXCEPT ![j].stop = TRUE, ![j].stopped = TRUE,
                          ![k].ending = @ \ {j}]
    /\ sim' = SignalDone(sim, j, TRUE)
    /\ UNCHANGED <<config, proc, rec, out, resp>>
ApplicationEnded(k) ==
    /\ trc[k].state = "ending"
    /\ trc[k].ending = {}
    /\ trc' = [trc EXCEPT ![k].state = "read"]
    /\ Reply(k, Answered)
    /\ UNCHANGED <<config, proc, rec, sim, out>>

-----------------------------------------------------------------------------
Presences(ins) == IF config.pa THEN SUBSET TouchedPages(ins) ELSE {{}}
SendOne(k) ==
    \E ins \in config.program : \E present \in Presences(ins) : SendInstruction(k, ins, present)
RecorderStep(k) ==
    \/ CountInsns(k) \/ SendCacheOnly(k) \/ SendOne(k)
    \/ BlockingCall(k) \/ WriteCall(k) \/ Clone(k) \/ Fork(k)
    \/ \E word \in 1 .. MaxThreads : Join(k, word)
    \/ \E cmd \in {"roi_start", "roi_end", "warmup"} : Magic(k, cmd)
    \/ ExitGroup(k) \/ Finish(k)
    \/ Write(k) \/ ServeMemory(k) \/ ReceiveAnswer(k)
Simulate(k) ==
    \/ InitStream(k) \/ ReadCaches(k) \/ ReadOne(k) \/ ReadEnd(k) \/ ReadCount(k)
    \/ ReadNewThread(k) \/ ReadFork(k) \/ ReadMagic(k) \/ ReadEmu(k) \/ ReadSyscall(k)
    \/ ReadFutexWait(k) \/ ReadMemoryResponse(k) \/ ReadFutexWake(k) \/ ReadExitGroup(k)
    \/ \E j \in Key : EndApplication(k, j)
    \/ ApplicationEnded(k) \/ ThreadDone(k)
Start(app) == \E word \in 1 .. MaxThreads : ThreadStart(app, word)

\* Reader::AccessMemory: "assert(rec.Other.type == RecOtherMemoryResponse)" has not failed.
\* It does when the process exits during the request, and ends the simulator.
AccessMemoryAnswered == \A k \in Key : trc[k].protocol
Over == sim.done \/ ~AccessMemoryAnswered

\* When the simulation is over the simulator tears itself down.
Next == /\ ~Over
        /\ \/ \E k \in Key : RecorderStep(k) \/ Simulate(k)
           \/ \E app \in Apps : Start(app)

Spec == Init /\ [][Next]_vars
\* The host schedules the application's threads and the trace threads fairly.
FairSpec == /\ Spec
            /\ \A k \in Key : WF_vars(~Over /\ RecorderStep(k))
            /\ \A k \in Key : WF_vars(~Over /\ Simulate(k))
            /\ \A app \in Apps : WF_vars(~Over /\ Start(app))

-----------------------------------------------------------------------------
(* Properties *)

\* The simulator sees the instructions the application executed: the short
\* records, the code pages sent once and the link from one static
\* instruction to the next all rebuild the right instruction, decoded from
\* bytes that have arrived and with the mapping of every page it touches that
\* was in physical memory when the instruction was recorded.
StreamIsFaithful == \A k \in Key : trc[k].faithful

\* Requests and answers pair up on both pipes: what a waiting recorder
\* finds is its answer or a memory request it serves, and what
\* Reader::AccessMemory finds is the answer to its own request (the
\* assertions of sift_writer.cc and of AccessMemory), as long as no exit_group
\* of a sibling has ended the thread that was to answer.
ProtocolHolds ==
    \A k \in Key :
        /\ trc[k].protocol \/ rec[k].state # "run"
        /\ rec[k].state \in {"run", "finish"} /\ rec[k].wait # Idle /\ resp[k] # <<>> =>
             \/ Answer(k).type = rec[k].wait.type
             \/ Answer(k).type = "MemoryRequest"
                /\ rec[k].wait.type \in {"Syscall", "Sync", "Magic", "Emu"}

\* What passes the pipes between recorder and simulator arrives as it was meant: the
\* instructions rebuilt, the requests and answers paired.
ChannelsAreFaithful == StreamIsFaithful /\ ProtocolHolds

\* A tid word is cleared by the thread it belongs to: a thread that still
\* runs is not taken for ended by pthread_join (SYS_clone in
\* emulateSyscallFunc, threadStart, threadFinishHelper).
TidWordMeansAlive ==
    \A k \in Key : rec[k].state = "run" /\ rec[k].word # NoWord
                   => rec[k].word \in proc[k[1]].words

\* When its applications have ended the simulation ends, however their
\* threads were created, joined, blocked or aborted (or its assertion fails).
\* Threads of an application that each called exit_group are all aborted by each other;
\* nobody counts the application then.
EndedByEachOther(app) ==
    LET started == {k \in Threads(app) : trc[k].state # "none"}
    IN  started # {} /\ \A k \in started : trc[k].stop
SimulationEnds == <>(Over \/ \E app \in Apps : EndedByEachOther(app))
=============================================================================
