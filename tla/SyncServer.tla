----------------------------- MODULE SyncServer -----------------------------
(***************************************************************************)
(* The simulated pthread primitives: SimMutex, SimCond and SimBarrier of   *)
(* system/sync_server.cc, called through system/sync_client.cc by the      *)
(* threads of the simulated program.                                       *)
(***************************************************************************)
EXTENDS ThreadManager

CONSTANTS Mutex, Cond, Barrier,  \* the objects the program uses
          BarrierCount           \* m_count of the barriers

ASSUME SyncAssumption == BarrierCount \in Nat \ {0}

VARIABLES
    owner,     \* m_owner of each mutex, NoThread for NO_OWNER
    mWaiting,  \* m_waiting of each mutex
    cWaiting,  \* m_waiting of each condition: threads with their mutex
    bWaiting,  \* m_waiting of each barrier
    held       \* the mutexes each thread's program holds, by its calls' returns

syncVars == <<owner, mWaiting, cWaiting, bWaiting, held>>

SyncInit ==
    /\ owner = [m \in Mutex |-> NoThread]
    /\ mWaiting = [m \in Mutex |-> <<>>]
    /\ cWaiting = [c \in Cond |-> <<>>]
    /\ bWaiting = [b \in Barrier |-> <<>>]
    /\ held = [t \in Thread |-> {}]

-----------------------------------------------------------------------------
(* Mutexes.                                                                 *)

\* SimMutex::isLocked: not for its owner.
IsLocked(m, t) == owner[m] \notin {NoThread, t}

\* SimMutex::lock.
Lock(t, m) ==
    /\ IF owner[m] = NoThread
       THEN /\ owner' = [owner EXCEPT ![m] = t]
            /\ held' = [held EXCEPT ![t] = @ \cup {m}]
            /\ UNCHANGED mWaiting
            /\ NoStall
       ELSE /\ mWaiting' = [mWaiting EXCEPT ![m] = Append(@, t)]
            /\ StallThread(t, Call("MUTEX", m), {})
            /\ UNCHANGED <<owner, held>>
    /\ UNCHANGED <<cWaiting, bWaiting>>

\* SyncServer::mutexLock.  Programs do not lock a mutex they hold; they may try
\* to, if they use "try_owned".
MutexLock(t, m) ==
    /\ Executing(t)
    /\ Uses("mutex")
    /\ m \notin held[t]
    /\ Lock(t, m)

MutexTrylock(t, m) ==
    /\ Executing(t)
    /\ Uses("trylock")
    /\ m \in held[t] => Uses("try_owned")
    /\ IF IsLocked(m, t) THEN NoStall /\ UNCHANGED syncVars ELSE Lock(t, m)

\* SimMutex::unlock: the first waiter becomes the owner.
UnlockedOwner(m) == IF mWaiting[m] = <<>> THEN NoThread ELSE Head(mWaiting[m])
UnlockedQueue(m) == IF mWaiting[m] = <<>> THEN <<>> ELSE Tail(mWaiting[m])
UnlockWakes(m) == {UnlockedOwner(m)} \ {NoThread}

MutexUnlockLast(t, m) ==
    /\ Executing(t)
    /\ m \in held[t]
    /\ LET next == IF mWaiting[m] = <<>> THEN NoThread ELSE Last(mWaiting[m])
       IN  /\ owner' = [owner EXCEPT ![m] = next]
           /\ ResumeThreads({next} \ {NoThread})
    /\ mWaiting' = [mWaiting EXCEPT ![m] = IF @ = <<>> THEN @ ELSE Front(@)]
    /\ held' = [held EXCEPT ![t] = @ \ {m}]
    /\ UNCHANGED <<cWaiting, bWaiting>>

\* SyncServer::mutexUnlock; the assertion of SimMutex::unlock is part of
\* HeldIsOwned.
MutexUnlock(t, m) ==
    /\ Executing(t)
    /\ m \in held[t]
    /\ owner' = [owner EXCEPT ![m] = UnlockedOwner(m)]
    /\ mWaiting' = [mWaiting EXCEPT ![m] = UnlockedQueue(m)]
    /\ held' = [held EXCEPT ![t] = @ \ {m}]
    /\ ResumeThreads(UnlockWakes(m))
    /\ UNCHANGED <<cWaiting, bWaiting>>

-----------------------------------------------------------------------------
(* Condition variables.                                                     *)

\* SimCond::wait.
CondWait(t, c, m) ==
    /\ Executing(t)
    /\ Uses("cond")
    /\ m \in held[t]
    /\ owner' = [owner EXCEPT ![m] = UnlockedOwner(m)]
    /\ mWaiting' = [mWaiting EXCEPT ![m] = UnlockedQueue(m)]
    /\ held' = [held EXCEPT ![t] = @ \ {m}]
    /\ cWaiting' = [cWaiting EXCEPT ![c] = Append(@, [thread |-> t, mutex |-> m])]
    /\ StallThread(t, Call("COND", m), UnlockWakes(m))
    /\ UNCHANGED bWaiting

\* SimMutex::lock_async for the condition's waiters ws, one after the other: the
\* first of them on a free mutex gets it, the others queue for it.
WokenThreads(ws, m) ==
    LET I == {i \in DOMAIN ws : ws[i].mutex = m}
        Nth(k) == CHOOSE i \in I : Cardinality({j \in I : j <= i}) = k
    IN  [k \in 1 .. Cardinality(I) |-> ws[Nth(k)].thread]

Freed(ws) == {m \in Mutex : owner[m] = NoThread /\ WokenThreads(ws, m) # <<>>}
FirstWoken(ws) == {Head(WokenThreads(ws, m)) : m \in Freed(ws)}

\* Mutant: a waiter that finds the mutex taken is dropped.
LockAsyncDrops(ws) ==
    /\ owner' = [m \in Mutex |-> IF m \in Freed(ws) THEN Head(WokenThreads(ws, m))
                                                   ELSE owner[m]]
    /\ ResumeThreads(FirstWoken(ws))
    /\ UNCHANGED mWaiting

LockAsync(ws) ==
    /\ owner' = [m \in Mutex |-> IF m \in Freed(ws) THEN Head(WokenThreads(ws, m))
                                                   ELSE owner[m]]
    /\ mWaiting' = [m \in Mutex |->
          mWaiting[m] \o IF m \in Freed(ws) THEN Tail(WokenThreads(ws, m))
                                            ELSE WokenThreads(ws, m)]
    /\ ResumeThreads(FirstWoken(ws))

\* SimCond::signal and SimCond::broadcast.
CondSignal(t, c) ==
    /\ Executing(t)
    /\ Uses("cond")
    /\ cWaiting[c] # <<>>
    /\ cWaiting' = [cWaiting EXCEPT ![c] = Tail(@)]
    /\ LockAsync(SubSeq(cWaiting[c], 1, 1))
    /\ UNCHANGED <<bWaiting, held>>

CondBroadcast(t, c) ==
    /\ Executing(t)
    /\ Uses("cond")
    /\ cWaiting[c] # <<>>
    /\ cWaiting' = [cWaiting EXCEPT ![c] = <<>>]
    /\ LockAsync(cWaiting[c])
    /\ UNCHANGED <<bWaiting, held>>

-----------------------------------------------------------------------------
(* Barriers.                                                                *)

\* SimBarrier::wait.
BarrierWait(t, b) ==
    /\ Executing(t)
    /\ Uses("barrier")
    /\ IF Len(bWaiting[b]) = BarrierCount - 1
       THEN /\ bWaiting' = [bWaiting EXCEPT ![b] = <<>>]
            /\ ResumeThreads(ToSet(bWaiting[b]))
       ELSE /\ bWaiting' = [bWaiting EXCEPT ![b] = Append(@, t)]
            /\ StallThread(t, Call("BARRIER", b), {})
    /\ UNCHANGED <<owner, mWaiting, cWaiting, held>>

-----------------------------------------------------------------------------
\* pthread_mutex_lock and pthread_cond_wait return: the program now holds the
\* mutex.
ReturnHolding(t) ==
    /\ ReturnFromCall(t)
    /\ held' = [held EXCEPT ![t] = @ \cup
                  IF pending[t].reason \in {"MUTEX", "COND"} THEN {pending[t].object}
                                                            ELSE {}]
    /\ UNCHANGED <<owner, mWaiting, cWaiting, bWaiting>>

-----------------------------------------------------------------------------
\* No thread stands in a queue of the server twice.
SyncOnce ==
    /\ \A m \in Mutex : IsInjective(mWaiting[m])
    /\ \A c \in Cond : OnceEach(cWaiting[c])
    /\ \A b \in Barrier : IsInjective(bWaiting[b])
=============================================================================
