----------------------- MODULE BarrierSyncServerProofs -----------------------
(***************************************************************************)
(* Proofs about BarrierSyncServer, for every number of cores and host      *)
(* cores, every interval, step and cost, and everything threads may do.    *)
(***************************************************************************)
EXTENDS BarrierSyncServer, TLAPS

\* The threads picked to be restarted have left the barrier, and are behind the
\* next one: it is not reached before they come back.
ReleasedAreBehind ==
    /\ acquired \cap toRelease = {}
    /\ \A c \in toRelease : localClock[c] < nextBarrier

\* barrierRelease starts, and goes round its loop, with m_to_release empty.
RestartedFirst == Releasing => toRelease = {}

\* The inductive invariant.
IInv ==
    /\ TypeOK
    /\ AssertionsHold
    /\ NoLostWakeup
    /\ ReleasedAreBehind
    /\ RestartedFirst

-----------------------------------------------------------------------------
(* The operators the actions are built from.                                *)

\* doRelease restarts only threads that wait to be restarted.
LEMMA DoReleaseSubset ==
    ASSUME NEW waiting, NEW n, NEW S \in DoRelease(waiting, n)
    PROVE  S \subseteq waiting
BY DEF DoRelease

\* The client's next synchronization is a time.
LEMMA NextSyncType ==
    ASSUME NEW t \in Nat
    PROVE  NextSync(t) \in Nat
<1>1. Interval \in Nat /\ Interval > 0
  BY BarrierAssumption
<1>2. t \div Interval \in Nat
  BY <1>1
<1>3. (t \div Interval) * Interval \in Nat
  BY <1>1, <1>2
<1> QED
  BY <1>1, <1>3 DEF NextSync

\* Restarting threads gives every thread a place.
LEMMA RestartType ==
    ASSUME NEW S, NEW places \in [Core -> Place]
    PROVE  Restart(S, places) \in [Core -> Place]
BY DEF Restart, Place

\* Resuming threads leaves statuses, clocks and wakeup times well typed.
LEMMA ResumeThreadsType ==
    ASSUME TypeOK, NEW S, NEW t \in Nat, NEW st \in [Core -> Status],
           ResumeThreads(S, t, st)
    PROVE  /\ status' \in [Core -> Status]
           /\ clock' \in [Core -> Nat]
           /\ wakeup' \in [Core -> Nat]
BY DEF TypeOK, ResumeThreads, Later, Status

\* The hooks of a stall or an exit keep the invariant: a barrier that is reached
\* when c stops running finds every thread restarted, because the threads in
\* m_to_release run and are behind it.
LEMMA StopRunningInv ==
    ASSUME IInv,
           NEW c \in Core, NEW places \in [Core -> Place],
           NEW doing \in {"stall", "syscall", "exit"},
           NEW next \in {Free, Test(c)},
           \A d \in Core : places[d] = "barrier" <=> at[d] = "barrier",
           \A d \in Core : at[d] = "barrier" => status'[d] = "RUNNING",
           status' \in [Core -> Status],
           clock' \in [Core -> Nat],
           wakeup' \in [Core -> Nat],
           StopRunning(c, places, doing, next)
    PROVE  IInv'
<1> USE DEF IInv
<1>1. PICK S \in DoRelease(toRelease, 1) :
        /\ toRelease' = toRelease \ S
        /\ at' = Restart(S, places)
        /\ IF ~disabled /\ IsBarrierReached(status', localClock)
           THEN /\ busy' = [doing |-> doing, core |-> c]
                /\ failed' = failed \cup AllRestarted(toRelease')
           ELSE /\ busy' = next
                /\ UNCHANGED failed
        /\ UNCHANGED <<nextSync, localClock, acquired, nextBarrier, globalTime,
                       disabled>>
  BY DEF StopRunning
<1>2. S \subseteq toRelease
  BY <1>1, DoReleaseSubset
<1>3. IsBarrierReached(status', localClock) => toRelease' = {}
  <2> SUFFICES ASSUME IsBarrierReached(status', localClock), NEW d \in toRelease'
               PROVE  FALSE
    OBVIOUS
  <2>1. d \in Core /\ d \in toRelease
    BY <1>1 DEF TypeOK
  <2>2. at[d] = "barrier"
    BY <2>1 DEF NoLostWakeup
  <2>3. status'[d] = "RUNNING"
    BY <2>1, <2>2
  <2>4. localClock[d] >= nextBarrier
    BY <2>1, <2>3 DEF IsBarrierReached
  <2>5. localClock[d] < nextBarrier
    BY <2>1 DEF ReleasedAreBehind
  <2> QED
    BY <2>1, <2>4, <2>5 DEF TypeOK
<1>4. failed' = failed
  BY <1>1, <1>3 DEF AllRestarted, Check
<1>5. TypeOK'
  <2>1. at' \in [Core -> Place]
    BY <1>1, RestartType
  <2>2. busy' \in Busy
    BY <1>1, BarrierAssumption DEF Busy, Free, Test, Core
  <2> QED
    BY <1>1, <1>4, <2>1, <2>2 DEF TypeOK
<1>6. AssertionsHold'
  BY <1>4 DEF AssertionsHold
<1>7. NoLostWakeup'
  BY <1>1, <1>2 DEF NoLostWakeup, Restart, ReleasedAreBehind, TypeOK
<1>8. ReleasedAreBehind'
  BY <1>1 DEF ReleasedAreBehind
<1>9. RestartedFirst'
  BY <1>1, <1>3 DEF RestartedFirst, Releasing, Free, Test
<1> QED
  BY <1>5, <1>6, <1>7, <1>8, <1>9

-----------------------------------------------------------------------------
(* The invariant is inductive.                                              *)

\* Every initial state satisfies the invariant.
LEMMA InitInv == Init => IInv
<1> SUFFICES ASSUME Init PROVE IInv
  OBVIOUS
<1>1. TypeOK
  <2>1. status \in [Core -> Status]
    BY DEF Init, Status
  <2>2. busy \in Busy
    BY BarrierAssumption DEF Init, Busy, Free, Core
  <2>3. at \in [Core -> Place] /\ failed \subseteq Assertions
    BY DEF Init, Place
  <2>4. Interval \in Nat
    BY BarrierAssumption
  <2> QED
    BY <2>1, <2>2, <2>3, <2>4 DEF Init, TypeOK
<1> QED
  BY <1>1 DEF Init, IInv, AssertionsHold, NoLostWakeup, ReleasedAreBehind,
              RestartedFirst, Releasing, Free

\* synchronize keeps the invariant: a thread that executes is not in the barrier,
\* and a barrier that is reached finds every thread restarted.
LEMMA SynchronizeInv ==
    ASSUME IInv, NEW c \in Core, Synchronize(c)
    PROVE  IInv'
<1> USE DEF IInv
<1>1. at[c] = "run" /\ status[c] = "RUNNING" /\ busy = Free
  BY DEF Synchronize, Executing
<1>2. c \notin acquired /\ c \notin toRelease
  BY <1>1 DEF NoLostWakeup
<1>3. nextSync' \in [Core -> Nat]
  <2>1. NextSync(clock[c]) \in Nat
    BY NextSyncType DEF TypeOK
  <2> QED
    BY <2>1 DEF Synchronize, TypeOK
<1>4. CASE disabled \/ clock[c] < nextBarrier
  <2>1. /\ failed' = failed
        /\ UNCHANGED <<at, localClock, acquired, toRelease, busy, status, clock,
                       wakeup, nextBarrier, globalTime, disabled>>
    BY <1>2, <1>4 DEF Synchronize, Check
  <2> QED
    BY <1>3, <2>1 DEF TypeOK, AssertionsHold, NoLostWakeup, ReleasedAreBehind,
                      RestartedFirst, Releasing
<1>5. CASE ~(disabled \/ clock[c] < nextBarrier)
  <2>1. PICK S \in DoRelease(toRelease, 1) :
          /\ toRelease' = toRelease \ S
          /\ localClock' = [localClock EXCEPT ![c] = clock[c]]
          /\ acquired' = acquired \cup {c}
          /\ at' = Restart(S, [at EXCEPT ![c] = "barrier"])
          /\ IF IsBarrierReached(status, localClock')
             THEN /\ busy' = [doing |-> "synchronize", core |-> c]
                  /\ failed' = failed \cup AllRestarted(toRelease')
             ELSE failed' = failed /\ UNCHANGED busy
          /\ UNCHANGED <<status, clock, wakeup, nextBarrier, globalTime,
                         disabled>>
    BY <1>2, <1>5 DEF Synchronize, Check
  <2>2. S \subseteq toRelease
    BY <2>1, DoReleaseSubset
  <2>3. IsBarrierReached(status, localClock') => toRelease' = {}
    <3> SUFFICES ASSUME IsBarrierReached(status, localClock'), NEW d \in toRelease'
                 PROVE  FALSE
      OBVIOUS
    <3>1. d \in Core /\ d \in toRelease /\ d # c
      BY <1>2, <2>1 DEF TypeOK
    <3>2. status[d] = "RUNNING"
      BY <3>1 DEF NoLostWakeup
    <3>3. localClock'[d] = localClock[d]
      BY <2>1, <3>1 DEF TypeOK
    <3>4. localClock[d] >= nextBarrier
      BY <3>1, <3>2, <3>3 DEF IsBarrierReached
    <3>5. localClock[d] < nextBarrier
      BY <3>1 DEF ReleasedAreBehind
    <3> QED
      BY <3>1, <3>4, <3>5 DEF TypeOK
  <2>4. failed' = failed
    BY <2>1, <2>3 DEF AllRestarted, Check
  <2>5. TypeOK'
    <3>1. [at EXCEPT ![c] = "barrier"] \in [Core -> Place]
      BY DEF TypeOK, Place
    <3>2. at' \in [Core -> Place]
      BY <2>1, <3>1, RestartType
    <3>3. busy' \in Busy
      BY <2>1 DEF TypeOK, Busy
    <3> QED
      BY <1>3, <2>1, <2>4, <3>2, <3>3 DEF TypeOK
  <2>6. AssertionsHold'
    BY <2>4 DEF AssertionsHold
  <2>7. NoLostWakeup'
    BY <1>1, <1>2, <2>1, <2>2 DEF NoLostWakeup, Restart, ReleasedAreBehind, TypeOK
  <2>8. ReleasedAreBehind'
    BY <1>2, <2>1 DEF ReleasedAreBehind, TypeOK
  <2>9. RestartedFirst'
    BY <1>1, <2>1, <2>3 DEF RestartedFirst, Releasing, Free
  <2> QED
    BY <2>5, <2>6, <2>7, <2>8, <2>9
<1> QED
  BY <1>4, <1>5

\* One turn of barrierRelease keeps the invariant: the cores that leave the
\* barrier are restarted, or put in m_to_release behind the new barrier.
LEMMA ReleaseTurnInv ==
    ASSUME IInv, ReleaseTurn
    PROVE  IInv'
<1> USE DEF IInv
<1>1. toRelease = {} /\ Releasing /\ globalTime' = nextBarrier
      /\ UNCHANGED <<nextSync, localClock>>
  BY DEF ReleaseTurn, RestartedFirst
<1>2. PICK W \in Woken, off \in Switch :
        LET woke == busy.doing = "advance" /\ W # {}
            waiting == IF off THEN {} ELSE acquired
            places == Restart(W \cup (acquired \ waiting), at)
        IN  /\ ResumeThreads(W, nextBarrier, status)
            /\ disabled' = off
            /\ failed' = failed \cup
                  Check(\/ busy.doing # "advance"
                        \/ \E c \in Core : at[c] = "sleep",
                        "Application has deadlocked")
            /\ IF woke \/ off
               THEN acquired' = waiting /\ ReturnEarly(places)
               ELSE FreeCores(places, waiting)
  BY DEF ReleaseTurn
<1> DEFINE woke == busy.doing = "advance" /\ W # {}
           waiting == IF off THEN {} ELSE acquired
           places == Restart(W \cup (acquired \ waiting), at)
<1>3. \A c \in W : c \in Core /\ at[c] = "sleep"
  BY DEF Woken, Due
<1>4. off \in BOOLEAN
  BY DEF Switch, TypeOK
<1>5. /\ status' \in [Core -> Status]
      /\ clock' \in [Core -> Nat]
      /\ wakeup' \in [Core -> Nat]
  BY <1>2, ResumeThreadsType DEF TypeOK
<1>6. \A c \in Core : at[c] = "barrier" => status'[c] = "RUNNING"
  BY <1>2 DEF ResumeThreads, NoLostWakeup
<1>7. /\ failed' \subseteq Assertions
      /\ AssertionsHold'
  <2>1. \A holds : Check(holds, "Application has deadlocked")
                      \subseteq {"Application has deadlocked"}
    BY DEF Check
  <2>2. failed' \subseteq failed \cup {"Application has deadlocked"}
    BY <1>2, <2>1
  <2>3. failed' \subseteq {"Application has deadlocked"}
    BY <2>2 DEF AssertionsHold
  <2> QED
    BY <2>3 DEF AssertionsHold, Assertions
<1>8. places \in [Core -> Place]
  BY RestartType DEF TypeOK
<1>9. AfterRelease \in Busy /\ AfterRelease.doing \in {"test", "nothing"}
  BY BarrierAssumption DEF AfterRelease, Test, Free, Busy, TypeOK, Core
<1>10. CASE woke \/ off
  <2>1. /\ acquired' = waiting
        /\ at' = Restart(Caller, places)
        /\ busy' = AfterRelease
        /\ UNCHANGED <<toRelease, nextBarrier>>
    BY <1>2, <1>10 DEF ReturnEarly
  <2>2. TypeOK'
    <3>1. at' \in [Core -> Place]
      BY <1>8, <2>1, RestartType
    <3> QED
      BY <1>1, <1>2, <1>4, <1>5, <1>7, <1>9, <2>1, <3>1 DEF TypeOK
  <2>3. NoLostWakeup'
    <3>1. CASE off
      BY <1>1, <1>6, <2>1, <3>1 DEF NoLostWakeup, Restart
    <3>2. CASE ~off
      <4>1. Caller = {}
        BY <1>10, <3>2 DEF Caller
      <4> QED
        BY <1>1, <1>3, <1>6, <2>1, <3>2, <4>1 DEF NoLostWakeup, Restart
    <3> QED
      BY <3>1, <3>2
  <2>4. ReleasedAreBehind' /\ RestartedFirst'
    BY <1>1, <1>9, <2>1 DEF ReleasedAreBehind, RestartedFirst, Releasing
  <2> QED
    BY <1>7, <2>2, <2>3, <2>4
<1>11. CASE ~(woke \/ off)
  <2> DEFINE next == nextBarrier + Interval
             freed == {c \in waiting : localClock[c] < next}
  <2>1. /\ nextBarrier' = next
        /\ acquired' = waiting \ freed
        /\ busy' = IF freed = {} THEN busy ELSE AfterRelease
        /\ \E S \in DoRelease(freed \ Caller, NumHostCores) :
             /\ toRelease' = (freed \ Caller) \ S
             /\ at' = Restart(S \cup (freed \cap Caller), places)
    BY <1>2, <1>11 DEF FreeCores
  <2>2. PICK S \in DoRelease(freed \ Caller, NumHostCores) :
             /\ toRelease' = (freed \ Caller) \ S
             /\ at' = Restart(S \cup (freed \cap Caller), places)
    BY <2>1
  <2>3. S \subseteq freed \ Caller
    BY <2>2, DoReleaseSubset
  <2>4. waiting = acquired /\ ~off
    BY <1>11
  <2> HIDE DEF freed, waiting, next
  <2>5. TypeOK'
    <3>1. at' \in [Core -> Place]
      BY <1>8, <2>2, RestartType
    <3>2. busy' \in Busy
      BY <1>9, <2>1 DEF TypeOK
    <3>3. freed \subseteq Core
      BY <2>4 DEF freed, TypeOK
    <3>4. next \in Nat
      BY BarrierAssumption DEF next, TypeOK
    <3> QED
      BY <1>1, <1>2, <1>4, <1>5, <1>7, <2>1, <2>2, <2>4, <3>1, <3>2, <3>3, <3>4
         DEF TypeOK
  <2>6. NoLostWakeup'
    <3> SUFFICES ASSUME NEW c \in Core
                 PROVE  /\ at'[c] = "barrier" <=> c \in acquired' \cup toRelease'
                        /\ at'[c] = "barrier" => status'[c] = "RUNNING"
      BY DEF NoLostWakeup
    <3>1. at[c] = "barrier" <=> c \in acquired
      BY <1>1 DEF NoLostWakeup
    <3>2. places[c] = "barrier" <=> at[c] = "barrier"
      BY <1>3, <2>4 DEF Restart
    <3>3. at'[c] = "barrier" <=> /\ c \in acquired
                                 /\ c \notin S
                                 /\ c \notin freed \cap Caller
      BY <2>2, <3>1, <3>2 DEF Restart
    <3>4. freed \subseteq acquired
      BY <2>4 DEF freed
    <3>5. at'[c] = "barrier" <=> c \in acquired' \cup toRelease'
      BY <2>1, <2>2, <2>3, <2>4, <3>3, <3>4
    <3> QED
      BY <1>6, <3>1, <3>3, <3>5
  <2>7. ReleasedAreBehind'
    BY <1>1, <2>1, <2>2 DEF ReleasedAreBehind, freed
  <2>8. RestartedFirst'
    BY <1>9, <2>1, <2>2 DEF RestartedFirst, Releasing
  <2> QED
    BY <1>7, <2>5, <2>6, <2>7, <2>8
<1> QED
  BY <1>10, <1>11

\* Every step keeps the invariant.
LEMMA NextInv == IInv /\ [Next]_vars => IInv'
<1> SUFFICES ASSUME IInv, [Next]_vars PROVE IInv'
  OBVIOUS
<1> USE DEF IInv
<1>1. ASSUME NEW c \in Core, Execute(c) PROVE IInv'
  <2>1. clock' \in [Core -> Nat]
    BY <1>1, BarrierAssumption DEF Execute, TypeOK
  <2> QED
    BY <1>1, <2>1 DEF Execute, barrierVars, TypeOK, AssertionsHold, NoLostWakeup,
                      ReleasedAreBehind, RestartedFirst, Releasing
<1>2. ASSUME NEW c \in Core, Synchronize(c) PROVE IInv'
  BY <1>2, SynchronizeInv
<1>3. ASSUME NEW c \in Core, SyscallExit(c) PROVE IInv'
  <2>1. at[c] = "return" /\ at' = [at EXCEPT ![c] = "run"]
        /\ ResumeThreads({c}, wakeup[c], status)
        /\ UNCHANGED <<nextSync, barrierVars, busy, failed>>
    BY <1>3 DEF SyscallExit
  <2>2. TypeOK'
    BY <2>1, ResumeThreadsType DEF TypeOK, Place, barrierVars
  <2> QED
    BY <2>1, <2>2 DEF ResumeThreads, barrierVars, AssertionsHold, NoLostWakeup,
                      ReleasedAreBehind, RestartedFirst, Releasing, TypeOK
<1>4. ASSUME NEW c \in Core, Start(c) PROVE IInv'
  <2>1. PICK S \in DoRelease(toRelease, 1) :
          toRelease' = toRelease \ S /\ at' = Restart(S, at)
    BY <1>4 DEF Start
  <2>2. S \subseteq toRelease
    BY <2>1, DoReleaseSubset
  <2>3. /\ ResumeThreads({c}, wakeup[c], status)
        /\ UNCHANGED <<nextSync, localClock, acquired, nextBarrier, globalTime,
                       disabled, busy, failed>>
        /\ busy = Free
    BY <1>4 DEF Start
  <2>4. TypeOK'
    BY <2>1, <2>3, ResumeThreadsType, RestartType DEF TypeOK
  <2>5. NoLostWakeup'
    BY <2>1, <2>2, <2>3 DEF NoLostWakeup, Restart, ResumeThreads,
                            ReleasedAreBehind, TypeOK
  <2> QED
    BY <2>1, <2>3, <2>4, <2>5 DEF AssertionsHold, ReleasedAreBehind,
                                  RestartedFirst, Releasing, Free
<1>5. ASSUME NEW c \in Core, Wait(c) PROVE IInv'
  <2> DEFINE places == [at EXCEPT ![c] = "wait"]
  <2>1. /\ at[c] = "run"
        /\ status' = [status EXCEPT ![c] = "STALLED"]
        /\ UNCHANGED <<clock, wakeup>>
        /\ StopRunning(c, places, "stall", Test(c))
    BY <1>5 DEF Wait, Ready, Synced, Executing
  <2>2. /\ places \in [Core -> Place]
        /\ status' \in [Core -> Status]
        /\ clock' \in [Core -> Nat]
        /\ wakeup' \in [Core -> Nat]
    BY <2>1 DEF TypeOK, Place, Status
  <2>3. \A d \in Core : /\ places[d] = "barrier" <=> at[d] = "barrier"
                        /\ at[d] = "barrier" => status'[d] = "RUNNING"
    BY <2>1 DEF TypeOK, NoLostWakeup
  <2> HIDE DEF places
  <2> QED
    BY <2>1, <2>2, <2>3, StopRunningInv
<1>6. ASSUME NEW c \in Core, Sleep(c) PROVE IInv'
  <2> DEFINE places == [at EXCEPT ![c] = "sleep"]
  <2>1. /\ at[c] = "run"
        /\ status' = [status EXCEPT ![c] = "STALLED"]
        /\ \E d \in 1 .. MaxStep : wakeup' = [wakeup EXCEPT ![c] = clock[c] + d]
        /\ UNCHANGED clock
        /\ StopRunning(c, places, "stall", Test(c))
    BY <1>6 DEF Sleep, Ready, Synced, Executing
  <2>2. /\ places \in [Core -> Place]
        /\ status' \in [Core -> Status]
        /\ clock' \in [Core -> Nat]
    BY <2>1 DEF TypeOK, Place, Status
  <2>3. wakeup' \in [Core -> Nat]
    BY <2>1, BarrierAssumption DEF TypeOK
  <2>4. \A d \in Core : /\ places[d] = "barrier" <=> at[d] = "barrier"
                        /\ at[d] = "barrier" => status'[d] = "RUNNING"
    BY <2>1 DEF TypeOK, NoLostWakeup
  <2> HIDE DEF places
  <2> QED
    BY <2>1, <2>2, <2>3, <2>4, StopRunningInv
<1>7. ASSUME NEW c \in Core, SyscallEnter(c) PROVE IInv'
  <2> DEFINE places == [at EXCEPT ![c] = "syscall"]
  <2>1. /\ at[c] = "run"
        /\ status' = [status EXCEPT ![c] = "STALLED"]
        /\ UNCHANGED <<clock, wakeup>>
        /\ StopRunning(c, places, "syscall", Free)
    BY <1>7 DEF SyscallEnter, Ready, Synced, Executing
  <2>2. /\ places \in [Core -> Place]
        /\ status' \in [Core -> Status]
        /\ clock' \in [Core -> Nat]
        /\ wakeup' \in [Core -> Nat]
    BY <2>1 DEF TypeOK, Place, Status
  <2>3. \A d \in Core : /\ places[d] = "barrier" <=> at[d] = "barrier"
                        /\ at[d] = "barrier" => status'[d] = "RUNNING"
    BY <2>1 DEF TypeOK, NoLostWakeup
  <2> HIDE DEF places
  <2> QED
    BY <2>1, <2>2, <2>3, StopRunningInv
<1>8. ASSUME NEW c \in Core, SyscallReturn(c) PROVE IInv'
  BY <1>8 DEF SyscallReturn, barrierVars, TypeOK, Place, AssertionsHold,
              NoLostWakeup, ReleasedAreBehind, RestartedFirst, Releasing
<1>9. ASSUME NEW c \in Core, Exit(c) PROVE IInv'
  <2> DEFINE st == [status EXCEPT ![c] = "IDLE"]
  <2>1. at[c] = "run"
    BY <1>9 DEF Exit, Synced, Executing
  <2>2. PICK S \in SUBSET Stalled, cost \in Costs :
          /\ ResumeThreads(S, clock[c] + cost, st)
          /\ StopRunning(c, Restart(S, at), "exit", Free)
    BY <1>9 DEF Exit
  <2>3. st \in [Core -> Status] /\ clock[c] + cost \in Nat
    BY BarrierAssumption DEF TypeOK, Status, Costs
  <2>4. /\ status' \in [Core -> Status]
        /\ clock' \in [Core -> Nat]
        /\ wakeup' \in [Core -> Nat]
    BY <2>2, <2>3, ResumeThreadsType
  <2>5. \A d \in Core : /\ Restart(S, at)[d] = "barrier" <=> at[d] = "barrier"
                        /\ at[d] = "barrier" => status'[d] = "RUNNING"
    BY <2>1, <2>2 DEF Restart, Stalled, ResumeThreads, NoLostWakeup, TypeOK
  <2>6. Restart(S, at) \in [Core -> Place]
    BY RestartType DEF TypeOK
  <2> QED
    BY <2>2, <2>4, <2>5, <2>6, StopRunningInv
<1>10. ASSUME NEW c \in Core, SetDisable(c) PROVE IInv'
  <2>1. /\ at' = Restart(acquired, at) \/ at' = at
        /\ disabled' = ~disabled
    BY <1>10 DEF SetDisable
  <2>2. TypeOK'
    BY <1>10, <2>1, RestartType DEF SetDisable, TypeOK
  <2>3. NoLostWakeup'
    BY <1>10 DEF SetDisable, NoLostWakeup, Restart, ReleasedAreBehind
  <2> QED
    BY <1>10, <2>2, <2>3 DEF SetDisable, AssertionsHold, ReleasedAreBehind,
                             RestartedFirst, Releasing
<1>11. ASSUME NEW c \in Core, NEW by \in Core, Resume(c, by) PROVE IInv'
  <2>1. PICK cost \in Costs : ResumeThreads({c}, clock[by] + cost, status)
    BY <1>11 DEF Resume
  <2>2. /\ at[c] \in {"wait", "sleep"}
        /\ at' = [at EXCEPT ![c] = "run"]
        /\ UNCHANGED <<nextSync, barrierVars, busy, failed>>
    BY <1>11 DEF Resume, Stalled
  <2>3. clock[by] + cost \in Nat
    BY BarrierAssumption DEF TypeOK, Costs
  <2>4. TypeOK'
    BY <2>1, <2>2, <2>3, ResumeThreadsType DEF TypeOK, Place, barrierVars
  <2> QED
    BY <2>1, <2>2, <2>4 DEF ResumeThreads, barrierVars, AssertionsHold,
            NoLostWakeup, ReleasedAreBehind, RestartedFirst, Releasing, TypeOK
<1>12. ASSUME NEW c \in Core, NEW by \in Core, Spawn(c, by) PROVE IInv'
  BY <1>12 DEF Spawn, barrierVars, TypeOK, Status, AssertionsHold, NoLostWakeup,
               ReleasedAreBehind, RestartedFirst, Releasing
<1>13. ASSUME ReleaseTurn PROVE IInv'
  BY <1>13, ReleaseTurnInv
<1>14. ASSUME StallTest PROVE IInv'
  <2>1. AnyThreadRunning(status) \/ toRelease = {}
    BY DEF AnyThreadRunning, NoLostWakeup, TypeOK
  <2>2. failed' = failed /\ UNCHANGED <<threadVars, barrierVars>>
    BY <1>14, <2>1 DEF StallTest, AllRestarted, Check
  <2>3. busy' \in Busy
    BY <1>14, BarrierAssumption DEF StallTest, Busy, Free, TypeOK, Core
  <2>4. RestartedFirst'
    BY <1>14, <2>1, <2>2 DEF StallTest, RestartedFirst, Releasing, Free,
                             barrierVars
  <2> QED
    BY <2>2, <2>3, <2>4 DEF threadVars, barrierVars, TypeOK, AssertionsHold,
                            NoLostWakeup, ReleasedAreBehind
<1>15. CASE UNCHANGED vars
  BY <1>15 DEF vars, threadVars, barrierVars, TypeOK, AssertionsHold,
               NoLostWakeup, ReleasedAreBehind, RestartedFirst, Releasing
<1> QED
  BY <1>1, <1>2, <1>3, <1>4, <1>5, <1>6, <1>7, <1>8, <1>9, <1>10, <1>11, <1>12,
     <1>13, <1>14, <1>15 DEF Next, LockHolder, Thread, Program

-----------------------------------------------------------------------------
(* The results.                                                             *)

\* The state of the barrier and its threads keeps its types, in all that
\* synchronize, the hooks and barrierRelease do.
THEOREM TypeCorrect == Spec => []TypeOK
<1>1. IInv => TypeOK
  BY DEF IInv
<1> QED
  BY <1>1, InitInv, NextInv, PTL DEF Spec

\* The assertions of synchronize and barrierRelease hold: no thread is in the
\* barrier twice, and the barrier is never reached while threads of the previous
\* one wait to be restarted, whatever threads do and in whatever order.
THEOREM AssertionsAlwaysHold == Spec => []AssertionsHold
<1>1. IInv => AssertionsHold
  BY DEF IInv
<1> QED
  BY <1>1, InitInv, NextInv, PTL DEF Spec

\* No wakeup is lost: a thread waits on m_core_cond exactly when the barrier's
\* list or m_to_release will have it signalled.
THEOREM NoWakeupLost == Spec => []NoLostWakeup
<1>1. IInv => NoLostWakeup
  BY DEF IInv
<1> QED
  BY <1>1, InitInv, NextInv, PTL DEF Spec

-----------------------------------------------------------------------------
(***************************************************************************)
(* The clock skew is bounded by the quantum, for every number of cores,    *)
(* interval, step and reschedule cost, when threads compute and wait for   *)
(* each other and do nothing else.                                         *)
(***************************************************************************)

\* Threads only run, wait in the barrier or wait for each other.
OnlyWaits ==
    /\ ~disabled
    /\ \A c \in Core : /\ status[c] \in {"RUNNING", "STALLED", "IDLE"}
                       /\ at[c] \in {"run", "barrier", "wait"}

\* Barriers are at multiples of the interval.
OnGrid == \E k \in Nat : nextBarrier = k * Interval

\* What a core brought to the barrier: its time, which is past the barrier.
InBarrier ==
    \A c \in acquired : /\ clock[c] = localClock[c]
                        /\ nextSync[c] = NextSync(clock[c])
                        /\ localClock[c] >= nextBarrier

\* Every other core will synchronize at the next barrier, and is not counted as
\* having reached it.
OutsideBarrier ==
    \A c \in Core \ acquired : /\ localClock[c] < nextBarrier
                               /\ nextSync[c] <= nextBarrier
                               /\ clock[c] < nextBarrier + MaxStep

\* Threads that execute, or are about to, have passed the previous barrier.
NotBehind ==
    \A c \in Core : c \in toRelease \/ Executing(c) =>
        clock[c] >= nextBarrier - Interval

\* Nobody executes while the barrier is released.
NobodyExecutes == Releasing => \A c \in Core : ~Executing(c)

SkewInv ==
    /\ OnlyWaits
    /\ OnGrid
    /\ InBarrier
    /\ OutsideBarrier
    /\ NotBehind
    /\ NobodyExecutes

-----------------------------------------------------------------------------
(* Arithmetic.                                                              *)

\* Multiplication is monotonic.
LEMMA TimesMonotonic ==
    ASSUME NEW a \in Nat, NEW b \in Nat, NEW m \in Nat, a <= b
    PROVE  a * m <= b * m
<1>1. PICK d \in Nat : b = a + d
  <2>1. b - a \in Nat /\ b = a + (b - a)
    OBVIOUS
  <2> QED
    BY <2>1
<1>2. b * m = a * m + d * m
  BY <1>1
<1>3. d * m \in Nat /\ a * m \in Nat
  OBVIOUS
<1> QED
  BY <1>2, <1>3

\* A core that leaves the barrier before time k * Interval synchronizes again at
\* that time, if not earlier.
LEMMA NextSyncOnGrid ==
    ASSUME NEW t \in Nat, NEW k \in Nat, t < k * Interval
    PROVE  NextSync(t) <= k * Interval
<1> DEFINE q == t \div Interval
<1>1. Interval \in Nat /\ Interval > 0
  BY BarrierAssumption
<1>2. q \in Nat /\ q * Interval <= t
  BY <1>1
<1>3. q < k
  <2> SUFFICES ASSUME q >= k PROVE FALSE
    BY <1>2
  <2>1. k * Interval <= q * Interval
    BY <1>1, <1>2, TimesMonotonic
  <2> QED
    BY <1>1, <1>2, <2>1
<1>4. (q + 1) * Interval <= k * Interval
  BY <1>1, <1>2, <1>3, TimesMonotonic
<1>5. (q + 1) * Interval = q * Interval + Interval
  BY <1>1, <1>2
<1> QED
  BY <1>4, <1>5 DEF NextSync

-----------------------------------------------------------------------------
(* The invariant is inductive.                                              *)

\* Every initial state satisfies the invariant.
LEMMA SkewInit ==
    ASSUME Env \subseteq {"wait"}, Init
    PROVE  SkewInv
<1>1. "spawn" \notin Env
  OBVIOUS
<1>2. /\ Interval \in Nat /\ Interval > 0
      /\ MaxStep \in Nat /\ MaxStep > 0
  BY BarrierAssumption
<1>3. OnlyWaits
  BY <1>1 DEF Init, OnlyWaits
<1>4. OnGrid
  <2>1. nextBarrier = 1 * Interval
    BY <1>2 DEF Init
  <2> QED
    BY <2>1 DEF OnGrid
<1>5. InBarrier /\ OutsideBarrier /\ NotBehind
  BY <1>2 DEF Init, InBarrier, OutsideBarrier, NotBehind
<1>6. NobodyExecutes
  BY DEF Init, NobodyExecutes, Releasing, Free
<1> QED
  BY <1>3, <1>4, <1>5, <1>6 DEF SkewInv

\* A barrier that a step reaches holds every thread that runs: the time last
\* recorded for any other is before the barrier.
LEMMA ReachedByAll ==
    ASSUME IInv', OutsideBarrier', IsBarrierReached(status, localClock)',
           NEW c \in Core
    PROVE  ~Executing(c)'
<1> SUFFICES ASSUME Executing(c)' PROVE FALSE
  OBVIOUS
<1>1. c \notin acquired'
  BY DEF IInv, NoLostWakeup, Executing
<1>2. localClock'[c] < nextBarrier'
  BY <1>1 DEF OutsideBarrier
<1>3. localClock'[c] >= nextBarrier'
  BY DEF IsBarrierReached, Executing
<1> QED
  BY <1>2, <1>3 DEF IInv, TypeOK

\* A thread that stops running, and those it resumes, keep the invariant.
LEMMA StopRunningSkew ==
    ASSUME IInv, IInv', SkewInv,
           NEW c \in Core,
           NEW places \in [Core -> {"run", "barrier", "wait"}],
           NEW doing \in {"stall", "exit"},
           NEW next \in {Free, Test(c)},
           StopRunning(c, places, doing, next),
           \A d \in Core : status'[d] \in {"RUNNING", "STALLED", "IDLE"},
           \A d \in Core : status'[d] = "RUNNING" /\ places[d] = "run" =>
                              clock'[d] >= nextBarrier - Interval,
           \A d \in acquired \cup toRelease : clock'[d] = clock[d],
           \A d \in Core \ acquired : clock'[d] < nextBarrier + MaxStep
    PROVE  SkewInv'
<1> USE DEF SkewInv, IInv
<1>1. PICK S \in DoRelease(toRelease, 1) :
        /\ toRelease' = toRelease \ S
        /\ at' = Restart(S, places)
        /\ IF ~disabled /\ IsBarrierReached(status', localClock)
           THEN busy' = [doing |-> doing, core |-> c]
           ELSE busy' = next
        /\ UNCHANGED <<nextSync, localClock, acquired, nextBarrier, globalTime,
                       disabled>>
  BY DEF StopRunning
<1>2. S \subseteq toRelease
  BY <1>1, DoReleaseSubset
<1>3. OnlyWaits'
  BY <1>1 DEF OnlyWaits, Restart
<1>4. OnGrid'
  BY <1>1 DEF OnGrid
<1>5. InBarrier' /\ OutsideBarrier'
  BY <1>1 DEF InBarrier, OutsideBarrier
<1>6. NotBehind'
  <2> SUFFICES ASSUME NEW d \in Core, d \in toRelease' \/ Executing(d)'
               PROVE  clock'[d] >= nextBarrier - Interval
    BY <1>1 DEF NotBehind
  <2>1. CASE d \in toRelease
    BY <2>1 DEF NotBehind
  <2>2. CASE d \notin toRelease
    <3>1. status'[d] = "RUNNING" /\ at'[d] = "run"
      BY <1>1, <2>2 DEF Executing
    <3>2. at'[d] = places[d]
      BY <1>1, <1>2, <2>2 DEF Restart
    <3> QED
      BY <3>1, <3>2
  <2> QED
    BY <2>1, <2>2
<1>7. NobodyExecutes'
  <2> SUFFICES ASSUME Releasing', NEW d \in Core PROVE ~Executing(d)'
    BY DEF NobodyExecutes
  <2>1. IsBarrierReached(status', localClock)
    BY <1>1 DEF Releasing, Free, Test
  <2>2. IsBarrierReached(status, localClock)'
    BY <1>1, <2>1 DEF IsBarrierReached
  <2> QED
    BY <1>5, <2>2, ReachedByAll
<1> QED
  BY <1>3, <1>4, <1>5, <1>6, <1>7

\* synchronize keeps the invariant.
LEMMA SynchronizeSkew ==
    ASSUME IInv, IInv', SkewInv, NEW c \in Core, Synchronize(c)
    PROVE  SkewInv'
<1> USE DEF SkewInv, IInv
<1>1. /\ at[c] = "run" /\ status[c] = "RUNNING" /\ busy = Free /\ ~disabled
      /\ nextSync' = [nextSync EXCEPT ![c] = NextSync(clock[c])]
      /\ UNCHANGED <<status, clock, wakeup, nextBarrier, globalTime, disabled>>
  BY DEF Synchronize, Executing, OnlyWaits
<1>2. c \notin acquired /\ c \notin toRelease
  BY <1>1 DEF NoLostWakeup
<1>3. clock[c] \in Nat
  BY DEF TypeOK
<1>4. CASE clock[c] < nextBarrier
  <2>1. UNCHANGED <<at, localClock, acquired, toRelease, busy>>
    BY <1>4 DEF Synchronize
  <2>2. NextSync(clock[c]) <= nextBarrier
    BY <1>3, <1>4, NextSyncOnGrid DEF OnGrid
  <2>3. OutsideBarrier'
    BY <1>1, <1>2, <2>1, <2>2 DEF OutsideBarrier, TypeOK
  <2>4. InBarrier'
    BY <1>1, <1>2, <2>1 DEF InBarrier, TypeOK
  <2> QED
    BY <1>1, <2>1, <2>3, <2>4 DEF OnlyWaits, OnGrid, NotBehind, NobodyExecutes,
                                  Releasing, Executing
<1>5. CASE ~(clock[c] < nextBarrier)
  <2>1. PICK S \in DoRelease(toRelease, 1) :
          /\ toRelease' = toRelease \ S
          /\ localClock' = [localClock EXCEPT ![c] = clock[c]]
          /\ acquired' = acquired \cup {c}
          /\ at' = Restart(S, [at EXCEPT ![c] = "barrier"])
          /\ IF IsBarrierReached(status, localClock')
             THEN busy' = [doing |-> "synchronize", core |-> c]
             ELSE UNCHANGED busy
    BY <1>1, <1>5 DEF Synchronize
  <2>2. S \subseteq toRelease
    BY <2>1, DoReleaseSubset
  <2>3. OnlyWaits' /\ OnGrid'
    BY <1>1, <2>1 DEF OnlyWaits, OnGrid, Restart
  <2>4. clock[c] >= nextBarrier
    BY <1>3, <1>5 DEF TypeOK
  <2>5. InBarrier' /\ OutsideBarrier'
    BY <1>1, <1>2, <2>1, <2>4 DEF InBarrier, OutsideBarrier, TypeOK
  <2>6. NotBehind'
    BY <1>1, <2>1, <2>2 DEF NotBehind, Executing, Restart, TypeOK, NoLostWakeup
  <2>7. NobodyExecutes'
    <3> SUFFICES ASSUME Releasing', NEW d \in Core PROVE ~Executing(d)'
      BY DEF NobodyExecutes
    <3>1. IsBarrierReached(status, localClock)'
      BY <1>1, <2>1 DEF Releasing, Free, IsBarrierReached
    <3> QED
      BY <2>5, <3>1, ReachedByAll
  <2> QED
    BY <2>3, <2>5, <2>6, <2>7
<1> QED
  BY <1>4, <1>5

\* One turn of barrierRelease keeps the invariant: the cores it lets go have
\* passed the barrier that was, and not the one that is next.
LEMMA ReleaseTurnSkew ==
    ASSUME Env \subseteq {"wait"}, IInv, IInv', SkewInv, ReleaseTurn
    PROVE  SkewInv'
<1> USE DEF SkewInv, IInv
<1> DEFINE next == nextBarrier + Interval
           freed == {c \in acquired : localClock[c] < next}
<1>1. Due = {} /\ Woken = {{}}
  BY DEF Due, Woken, OnlyWaits
<1>2. Switch = {FALSE}
  BY DEF Switch, OnlyWaits, TypeOK
<1>3. /\ ResumeThreads({}, nextBarrier, status)
      /\ disabled' = FALSE
      /\ FreeCores(Restart({}, at), acquired)
      /\ UNCHANGED <<nextSync, localClock>>
      /\ Releasing
  <2>1. {} \cup (acquired \ acquired) = {}
    OBVIOUS
  <2> QED
    BY <1>1, <1>2, <2>1 DEF ReleaseTurn
<1>4. Restart({}, at) = at /\ status' = status /\ clock' = clock
  BY <1>3 DEF Restart, ResumeThreads, TypeOK
<1>5. PICK S \in DoRelease(freed \ Caller, NumHostCores) :
        /\ nextBarrier' = next
        /\ acquired' = acquired \ freed
        /\ busy' = IF freed = {} THEN busy ELSE AfterRelease
        /\ toRelease' = (freed \ Caller) \ S
        /\ at' = Restart(S \cup (freed \cap Caller), at)
  BY <1>3, <1>4 DEF FreeCores
<1>6. S \subseteq freed
  BY <1>5, DoReleaseSubset
<1>7. /\ Interval \in Nat /\ Interval > 0 /\ MaxStep \in Nat /\ MaxStep > 0
      /\ nextBarrier \in Nat
  BY BarrierAssumption DEF TypeOK
<1> HIDE DEF freed
<1>8. OnlyWaits'
  BY <1>3, <1>4, <1>5 DEF OnlyWaits, Restart
<1>9. OnGrid'
  <2>1. PICK k \in Nat : nextBarrier = k * Interval
    BY DEF OnGrid
  <2>2. nextBarrier' = (k + 1) * Interval
    BY <1>5, <1>7, <2>1
  <2> QED
    BY <2>2 DEF OnGrid
<1>10. InBarrier'
  BY <1>3, <1>4, <1>5, <1>7 DEF InBarrier, freed, TypeOK
<1>11. OutsideBarrier'
  <2> SUFFICES ASSUME NEW c \in Core \ acquired'
               PROVE  /\ localClock[c] < next
                      /\ nextSync[c] <= next
                      /\ clock[c] < next + MaxStep
    BY <1>3, <1>4, <1>5 DEF OutsideBarrier
  <2>1. clock[c] \in Nat /\ localClock[c] \in Nat /\ nextSync[c] \in Nat
    BY DEF TypeOK
  <2>2. CASE c \in freed
    <3>1. clock[c] = localClock[c] /\ nextSync[c] = NextSync(clock[c])
          /\ localClock[c] < next
      BY <2>2 DEF freed, InBarrier
    <3>2. NextSync(clock[c]) <= next
      BY <1>5, <1>9, <2>1, <3>1, NextSyncOnGrid DEF OnGrid
    <3> QED
      BY <1>7, <2>1, <3>1, <3>2
  <2>3. CASE c \notin freed
    <3>1. c \in Core \ acquired
      BY <1>5, <2>3
    <3>2. /\ localClock[c] < nextBarrier
          /\ nextSync[c] <= nextBarrier
          /\ clock[c] < nextBarrier + MaxStep
      BY <3>1 DEF OutsideBarrier
    <3> QED
      BY <1>7, <2>1, <3>2
  <2> QED
    BY <2>2, <2>3
<1>12. NotBehind'
  <2> SUFFICES ASSUME NEW c \in Core, c \in toRelease' \/ Executing(c)'
               PROVE  clock[c] >= next - Interval
    BY <1>4, <1>5 DEF NotBehind
  <2>1. c \in freed
    BY <1>3, <1>4, <1>5, <1>6 DEF NobodyExecutes, Executing, Restart
  <2>2. clock[c] = localClock[c] /\ localClock[c] >= nextBarrier
    BY <2>1 DEF freed, InBarrier
  <2> QED
    BY <1>7, <2>2 DEF TypeOK
<1>13. NobodyExecutes'
  <2>1. CASE freed = {}
    <3>1. at' = at
      BY <1>4, <1>5, <1>6, <2>1 DEF Restart, TypeOK
    <3> QED
      BY <1>3, <1>4, <3>1 DEF NobodyExecutes, Executing
  <2>2. CASE freed # {}
    <3>1. busy' = AfterRelease
      BY <1>5, <2>2
    <3> QED
      BY <3>1 DEF NobodyExecutes, Releasing, AfterRelease, Test, Free
  <2> QED
    BY <2>1, <2>2
<1> QED
  BY <1>8, <1>9, <1>10, <1>11, <1>12, <1>13

\* Every step keeps the invariant.
LEMMA SkewNext ==
    ASSUME Env \subseteq {"wait"}, IInv, IInv', SkewInv, [Next]_vars
    PROVE  SkewInv'
<1> USE DEF SkewInv
<1>1. /\ \A c \in Core : clock[c] \in Nat /\ nextSync[c] \in Nat
      /\ nextBarrier \in Nat
      /\ Interval \in Nat /\ MaxStep \in Nat
      /\ \A cost \in Costs : cost \in Nat /\ cost <= MaxStep
  BY BarrierAssumption DEF IInv, TypeOK, Costs
\* What a thread between two instructions, and a thread it resumes, can have on
\* their clocks.
<1>2. ASSUME NEW c \in Core, Synced(c)
      PROVE  /\ c \notin acquired \cup toRelease
             /\ clock[c] >= nextBarrier - Interval
             /\ clock[c] < nextBarrier
  <2>1. c \notin acquired \cup toRelease
    BY <1>2 DEF Synced, Executing, IInv, NoLostWakeup
  <2>2. nextSync[c] <= nextBarrier /\ clock[c] < nextSync[c]
    BY <1>2, <2>1 DEF Synced, OutsideBarrier
  <2> QED
    BY <1>1, <1>2, <2>1, <2>2 DEF Synced, NotBehind
<1>3. ASSUME NEW c \in Core, NEW d \in Stalled, NEW cost \in Costs, Synced(c)
      PROVE  /\ Later(clock[d], clock[c] + cost) >= nextBarrier - Interval
             /\ Later(clock[d], clock[c] + cost) < nextBarrier + MaxStep
  <2>1. d \in Core \ acquired
    BY DEF Stalled, IInv, NoLostWakeup
  <2>2. clock[d] < nextBarrier + MaxStep
    BY <2>1 DEF OutsideBarrier
  <2> QED
    BY <1>1, <1>2, <1>3, <2>1, <2>2 DEF Later
<1>4. ASSUME NEW c \in Core, Execute(c) PROVE SkewInv'
  <2>1. PICK d \in 1 .. MaxStep : clock' = [clock EXCEPT ![c] = @ + d]
    BY <1>4 DEF Execute
  <2>2. Synced(c) /\ UNCHANGED <<status, at, wakeup, nextSync, barrierVars, busy>>
    BY <1>4 DEF Execute, Ready
  <2>3. /\ clock'[c] = clock[c] + d
        /\ \A e \in Core : e # c => clock'[e] = clock[e]
    BY <2>1 DEF IInv, TypeOK
  <2>4. /\ clock'[c] >= nextBarrier - Interval
        /\ clock'[c] < nextBarrier + MaxStep
    BY <1>1, <1>2, <2>2, <2>3
  <2>5. InBarrier'
    BY <1>2, <2>2, <2>3 DEF InBarrier, barrierVars, IInv, TypeOK
  <2>6. OutsideBarrier' /\ NotBehind'
    BY <2>2, <2>3, <2>4 DEF OutsideBarrier, NotBehind, Executing, barrierVars
  <2> QED
    BY <2>2, <2>5, <2>6 DEF OnlyWaits, OnGrid, NobodyExecutes, Releasing,
                            Executing, barrierVars
<1>5. ASSUME NEW c \in Core, Synchronize(c) PROVE SkewInv'
  BY <1>5, SynchronizeSkew
<1>6. ASSUME NEW c \in Core, Wait(c) PROVE SkewInv'
  <2> DEFINE places == [at EXCEPT ![c] = "wait"]
  <2>1. /\ Synced(c)
        /\ status' = [status EXCEPT ![c] = "STALLED"]
        /\ clock' = clock
        /\ StopRunning(c, places, "stall", Test(c))
    BY <1>6 DEF Wait, Ready
  <2>2. places \in [Core -> {"run", "barrier", "wait"}]
    BY DEF OnlyWaits, IInv, TypeOK
  <2>3. \A d \in Core : status'[d] \in {"RUNNING", "STALLED", "IDLE"}
    BY <2>1 DEF OnlyWaits, IInv, TypeOK
  <2>4. \A d \in Core : status'[d] = "RUNNING" /\ places[d] = "run" =>
                           clock'[d] >= nextBarrier - Interval
    BY <2>1 DEF NotBehind, Executing, IInv, TypeOK
  <2>5. \A d \in Core \ acquired : clock'[d] < nextBarrier + MaxStep
    BY <2>1 DEF OutsideBarrier
  <2> HIDE DEF places
  <2> QED
    BY <2>1, <2>2, <2>3, <2>4, <2>5, StopRunningSkew
<1>7. ASSUME NEW c \in Core, Exit(c) PROVE SkewInv'
  <2> DEFINE st == [status EXCEPT ![c] = "IDLE"]
  <2>1. Synced(c)
    BY <1>7 DEF Exit
  <2>2. PICK S \in SUBSET Stalled, cost \in Costs :
          /\ ResumeThreads(S, clock[c] + cost, st)
          /\ StopRunning(c, Restart(S, at), "exit", Free)
    BY <1>7 DEF Exit
  <2>3. Restart(S, at) \in [Core -> {"run", "barrier", "wait"}]
    BY DEF OnlyWaits, Restart
  <2>4. \A d \in Core : status'[d] \in {"RUNNING", "STALLED", "IDLE"}
    BY <2>2 DEF OnlyWaits, ResumeThreads, IInv, TypeOK
  <2>5. \A d \in Core : IF d \in S
                        THEN clock'[d] = Later(clock[d], clock[c] + cost)
                        ELSE clock'[d] = clock[d]
    BY <2>2 DEF ResumeThreads
  <2>6. \A d \in Core : status'[d] = "RUNNING" /\ Restart(S, at)[d] = "run" =>
                           clock'[d] >= nextBarrier - Interval
    <3> SUFFICES ASSUME NEW d \in Core, status'[d] = "RUNNING",
                        Restart(S, at)[d] = "run"
                 PROVE  clock'[d] >= nextBarrier - Interval
      OBVIOUS
    <3>1. CASE d \in S
      BY <1>3, <2>1, <2>5, <3>1
    <3>2. CASE d \notin S
      <4>1. Executing(d)
        BY <2>2, <3>2 DEF ResumeThreads, Restart, Executing, IInv, TypeOK
      <4> QED
        BY <2>5, <3>2, <4>1 DEF NotBehind
    <3> QED
      BY <3>1, <3>2
  <2>7. \A d \in acquired \cup toRelease : clock'[d] = clock[d]
    BY <2>2, <2>5 DEF Stalled, IInv, TypeOK, NoLostWakeup
  <2>8. \A d \in Core \ acquired : clock'[d] < nextBarrier + MaxStep
    BY <1>3, <2>1, <2>2, <2>5 DEF OutsideBarrier
  <2> QED
    BY <2>2, <2>3, <2>4, <2>6, <2>7, <2>8, StopRunningSkew
<1>8. ASSUME NEW c \in Core, NEW by \in Core, Resume(c, by) PROVE SkewInv'
  <2>1. PICK cost \in Costs : ResumeThreads({c}, clock[by] + cost, status)
    BY <1>8 DEF Resume
  <2>2. /\ c \in Stalled /\ Synced(by)
        /\ at' = [at EXCEPT ![c] = "run"]
        /\ busy = Free
        /\ UNCHANGED <<nextSync, barrierVars, busy>>
    BY <1>8 DEF Resume, Ready, Synced
  <2>3. c \notin acquired /\ c \notin toRelease
    BY <2>2 DEF Stalled, IInv, NoLostWakeup
  <2>4. /\ \A d \in Core : d # c => clock'[d] = clock[d] /\ status'[d] = status[d]
        /\ status'[c] = "RUNNING"
        /\ clock'[c] >= nextBarrier - Interval
        /\ clock'[c] < nextBarrier + MaxStep
    BY <1>3, <2>1, <2>2 DEF ResumeThreads
  <2>5. OnlyWaits' /\ OnGrid'
    BY <2>2, <2>4 DEF OnlyWaits, OnGrid, barrierVars, IInv, TypeOK
  <2>6. InBarrier' /\ OutsideBarrier'
    BY <2>2, <2>3, <2>4 DEF InBarrier, OutsideBarrier, barrierVars, IInv, TypeOK
  <2>7. NotBehind'
    BY <2>2, <2>4 DEF NotBehind, Executing, barrierVars, IInv, TypeOK
  <2>8. NobodyExecutes'
    BY <2>2 DEF NobodyExecutes, Releasing, Free
  <2> QED
    BY <2>5, <2>6, <2>7, <2>8
<1>9. ASSUME ReleaseTurn PROVE SkewInv'
  BY <1>9, ReleaseTurnSkew
<1>10. ASSUME StallTest PROVE SkewInv'
  <2>1. UNCHANGED <<threadVars, barrierVars>>
    BY <1>10 DEF StallTest
  <2>2. NobodyExecutes'
    BY <1>10, <2>1 DEF StallTest, NobodyExecutes, Releasing, Free, Executing,
                       AnyThreadRunning, threadVars
  <2> QED
    BY <2>1, <2>2 DEF threadVars, barrierVars, OnlyWaits, OnGrid, InBarrier,
                      OutsideBarrier, NotBehind, Executing
\* The other actions are of threads that do more than wait.
<1>11. ASSUME NEW c \in Core
       PROVE  /\ ~SyscallExit(c) /\ ~Start(c) /\ ~Sleep(c) /\ ~SyscallEnter(c)
              /\ ~SyscallReturn(c) /\ ~SetDisable(c)
              /\ \A by \in Core : ~Spawn(c, by)
  BY DEF SyscallExit, Start, Sleep, SyscallEnter, SyscallReturn, SetDisable,
         Spawn, OnlyWaits
<1>12. CASE UNCHANGED vars
  BY <1>12 DEF vars, threadVars, barrierVars, OnlyWaits, OnGrid, InBarrier,
               OutsideBarrier, NotBehind, NobodyExecutes, Releasing, Executing
<1> QED
  BY <1>4, <1>5, <1>6, <1>7, <1>8, <1>9, <1>10, <1>11, <1>12
     DEF Next, LockHolder, Thread, Program

-----------------------------------------------------------------------------
\* The quantum bounds the clock skew: when threads compute and wait for each
\* other, each executes between one interval before and less than one step after
\* the next barrier, whatever the host's scheduling.
THEOREM SkewIsBounded ==
    ASSUME Env \subseteq {"wait"}
    PROVE  Spec => []SkewBounded
<1>1. IInv /\ SkewInv => SkewBounded
  <2> SUFFICES ASSUME IInv, SkewInv, NEW c \in Core, Executing(c)
               PROVE  /\ clock[c] >= nextBarrier - Interval
                      /\ clock[c] < nextBarrier + MaxStep
    BY DEF SkewBounded
  <2>1. c \notin acquired
    BY DEF IInv, NoLostWakeup, Executing
  <2> QED
    BY <2>1 DEF SkewInv, NotBehind, OutsideBarrier
<1>2. Init => IInv /\ SkewInv
  BY InitInv, SkewInit
<1>3. IInv /\ SkewInv /\ [Next]_vars => (IInv /\ SkewInv)'
  BY NextInv, SkewNext
<1> QED
  BY <1>1, <1>2, <1>3, PTL DEF Spec
=============================================================================
