----------------------------- MODULE CoreModels -----------------------------
(***************************************************************************)
(* A core from outside and inside: the scheduler that gives it threads,    *)
(* the feed of a thread's instructions, the branch predictor, and one of   *)
(* the timing models of PerformanceModel::create: the reorder-buffer       *)
(* timers of RobTimer, or the interval or one-IPC model of                 *)
(* MicroOpPerformanceModel.  Each sees of the others only what is an input  *)
(* here: which thread it runs, the instructions, whether a branch was       *)
(* mispredicted.  A behaviour is one of a part; what is not chosen stays    *)
(* as it was initialised.                                                  *)
(***************************************************************************)
EXTENDS RobTimer, MicroOpPerformanceModel, BranchPredictor, InstructionFeed

CONSTANTS NoThread, NoCore, SchedulerConfig, Tick

VARIABLES model,   \* the part
          schedulerConfig, tables, lastPeriodic, unscheduledFor

Scheduling == INSTANCE Scheduler WITH Configs <- SchedulerConfig, cfg <- schedulerConfig,
                  s <- tables, now <- lastPeriodic, waited <- unscheduledFor

ASSUME SchedulerAssumption == SchedulerConfig \subseteq Scheduling!ConfigType

schedulerVars == <<schedulerConfig, tables, lastPeriodic, unscheduledFor>>
modelVars == <<model, vars, coreVars, bpVars, feedVars, schedulerVars>>

Unused(S) == CHOOSE x \in S : TRUE

Create ==
    /\ Init /\ CoreInit /\ BranchInit /\ FeedInit /\ Scheduling!Init
    /\ model \in {"rob", "interval or oneipc", "branch predictor", "feed", "scheduler"}
    /\ model # "rob" => config = Unused(Config)
    /\ model # "interval or oneipc" => prm = Unused(CoreConfig)
    /\ model # "branch predictor" => bp.config = Unused(BranchConfig)
    /\ model # "feed" => fd.config = Unused(FeedConfig)
    /\ model # "scheduler" => schedulerConfig = Unused(SchedulerConfig)

CoreStep ==
    \/ model = "rob" /\ Next /\ UNCHANGED <<model, coreVars, bpVars, feedVars, schedulerVars>>
    \/ /\ model = "interval or oneipc" /\ CoreNext
       /\ UNCHANGED <<model, vars, bpVars, feedVars, schedulerVars>>
    \/ /\ model = "branch predictor" /\ AccessBranchPredictor
       /\ UNCHANGED <<model, vars, coreVars, feedVars, schedulerVars>>
    \/ model = "feed" /\ FeedNext /\ UNCHANGED <<model, vars, coreVars, bpVars, schedulerVars>>
    \/ /\ model = "scheduler" /\ Scheduling!Next
       /\ UNCHANGED <<model, vars, coreVars, bpVars, feedVars>>

CoreSpec == Create /\ [][CoreStep]_modelVars

-----------------------------------------------------------------------------
\* The scheduler, the threads and the cores agree on who is where and who runs, through
\* every stall, resume, exit, yield, change of affinity and periodic call.
PlacementIsConsistent == Scheduling!TablesAgree /\ Scheduling!CoreStateIsThreads

\* A ready thread gets a core before every other thread has used up its quantum twice
\* over, as long as nobody changes affinities.
NoStarvation == Scheduling!NoStarvation

\* A ready thread and a core it may use do not both wait across a periodic call
\* (SchedulerPinnedBase::periodic).
IdleCoresAreUsed == Scheduling!IdleCoresAreUsed

\* A change of affinity has taken effect when the next periodic call is over.
AffinityHonoured == Scheduling!AffinityHonoured
=============================================================================
