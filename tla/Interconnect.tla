---------------------------- MODULE Interconnect ----------------------------
(***************************************************************************)
(* The network with its transport, the host synchronisation objects that  *)
(* it and the servers of the simulator are made of, and the barrier of an  *)
(* SMT core, which is made of one lock and a condition variable per        *)
(* context.  Network takes a transport queue (SmNode: a Lock and a         *)
(* ConditionVariable) as a sequence that a receiver pulls from, and        *)
(* SmtTimer takes a wait and a signal as steps; HostSync shows what the    *)
(* objects promise for that.  A behaviour is one of the network, of an     *)
(* object or of a group of contexts; the other parts stay as they were     *)
(* initialised.                                                            *)
(***************************************************************************)
EXTENDS Network

CONSTANTS Thread, Workload, NoThread,
          NumContexts, SmtThread, Enough, Limit, MaxSurplus, NoContext

VARIABLES part, workload, thread, obj, pushed, popped, context, surplus, timer, host

Host == INSTANCE HostSync WITH config <- workload
ASSUME HostAssumption == Host!HostConstants
hostVars == <<workload, thread, obj, pushed, popped>>

Group == INSTANCE SmtTimer WITH Thread <- SmtThread
ASSUME GroupAssumption == Group!SmtConstants
groupVars == <<context, surplus, timer, host>>

PartsInit ==
    /\ Init /\ Host!Init /\ Group!Init /\ part \in {"network", "object", "group"}
    /\ part # "object" => workload = CHOOSE w \in Workload : TRUE
    /\ part # "network" => config = CHOOSE c \in Config : TRUE
NetworkStep == part = "network" /\ Next /\ UNCHANGED <<part, hostVars, groupVars>>
ObjectStep(A) == part = "object" /\ A /\ UNCHANGED <<part, vars, groupVars>>
GroupStep(A) == part = "group" /\ A /\ UNCHANGED <<part, vars, hostVars>>
PartsNext == NetworkStep \/ ObjectStep(Host!Next) \/ GroupStep(Group!Next)
partsVars == <<part, vars, hostVars, groupVars>>

\* The host runs every thread of an object or of a group that can run.
Fairness ==
    /\ \A t \in Thread : WF_partsVars(ObjectStep(Host!Step(t)))
    /\ \A t \in SmtThread : SF_partsVars(GroupStep(Group!HostStep(t)))
PartsSpec == PartsInit /\ [][PartsNext]_partsVars /\ Fairness

-----------------------------------------------------------------------------
\* The host objects keep their promises: a SetLock held exclusively is held by nobody
\* else, a queue gives back what was put in, in order, and nobody leaves a barrier that
\* not all have reached.
HostObjectsAreSafe == Host!ExclusiveIsAlone /\ Host!QueueIsFifo /\ Host!BarrierLeavesTogether

\* Every call on a host object returns: no wake-up is lost between the release of the Lock
\* and FUTEX_WAIT, no thread sleeps while what it waits for is there, and no order of
\* upgrades and exclusive requests blocks for ever.
EveryCallReturns == part = "object" => Host!EveryCallReturns

\* The barrier of a group of hardware contexts is sound: whom it releases waits there, and
\* it lets one thread at a time into the global barrier.
GroupBarrierIsSound == Group!GroupBarrierIsSound

\* The group never stops with threads in the barrier: when someone waits there, someone
\* comes to execute, or all leave, unless one of the two preemptions that SmtTimer's lost
\* records has happened, or the simulator is in the endless loop or has failed the
\* assertion that hung and failed record.
GroupGoesOn == part = "group" => Group!GroupGoesOn
=============================================================================
