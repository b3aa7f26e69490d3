--------------------------- MODULE SyscallServer ----------------------------
(***************************************************************************)
(* Futexes and nanosleep (system/syscall_server.cc), called by the threads *)
(* through core/syscall_model.cc.                                          *)
(*                                                                         *)
(* A futex word is in the simulated memory: programs store to it without   *)
(* the thread manager's lock.  Every wake matches every waiter, as the     *)
(* code passes FUTEX_BITSET_MATCH_ANY for both kinds of wake, so masks are *)
(* left out.                                                               *)
(***************************************************************************)
EXTENDS ThreadManager

CONSTANTS Futex,      \* addresses of futex words
          MaxTime     \* bound: timeouts lie in 1 .. MaxTime, time stops there


VARIABLES
    waiting,   \* m_waiting of each futex: threads with their timeout
    sleeping,  \* m_sleeping
    word,      \* the futex words: 0 until the program stores 1
    owes,      \* the futex a thread has stored to and has not yet woken
    msg,       \* Thread::m_wakeup_msg
    now        \* the time of the last HOOK_PERIODIC

futexVars == <<waiting, sleeping, word, owes, msg, now>>

Never == MaxTime + 1   \* SubsecondTime::MaxTime()
NoFutex == "no futex"

ASSUME SyscallAssumption == MaxTime \in Nat \ {0} /\ NoFutex \notin Futex

SyscallInit ==
    /\ waiting = [f \in Futex |-> <<>>]
    /\ sleeping = <<>>
    /\ word = [f \in Futex |-> 0]
    /\ owes = [t \in Thread |-> NoFutex]
    /\ msg = [t \in Thread |-> TRUE]
    /\ now = 0

\* moved: the waiter has been requeued.
Waiter(t, timeout) == [thread |-> t, timeout |-> timeout, moved |-> FALSE]
Moved(q) == [i \in DOMAIN q |-> [q[i] EXCEPT !.moved = TRUE]]

-----------------------------------------------------------------------------
\* SimFutex::dequeueWaiter, n times or until nobody waits.
Woken(f, n) == {waiting[f][i].thread : i \in DOMAIN waiting[f] \cap 1 .. n}
Left(f, n) == SubSeq(waiting[f], n + 1, Len(waiting[f]))
All == Cardinality(Thread)   \* INT_MAX

Told(S, b) == [t \in Thread |-> IF t \in S THEN b ELSE msg[t]]

\* The program sets a futex word, and then has to wake the waiters.
Store(t, f) ==
    /\ Executing(t)
    /\ Uses("futex")
    /\ owes[t] = NoFutex
    /\ word[f] = 0
    /\ word' = [word EXCEPT ![f] = 1]
    /\ owes' = [owes EXCEPT ![t] = f]
    /\ NoStall
    /\ UNCHANGED <<waiting, sleeping, msg, now>>

\* Mutant: the value is not compared.
FutexWaitUnconditionally(t, f, timeout) ==
    /\ Executing(t)
    /\ Uses("futex")
    /\ owes[t] = NoFutex
    /\ waiting' = [waiting EXCEPT ![f] = Append(@, Waiter(t, timeout))]
    /\ StallThread(t, Call("FUTEX", timeout), {})
    /\ UNCHANGED <<sleeping, word, owes, msg, now>>

\* futexWait by a program that waits for the word to become 1.  If it already is,
\* futexWait returns -EWOULDBLOCK and nothing happens.
FutexWait(t, f, timeout) ==
    /\ Executing(t)
    /\ Uses("futex")
    /\ owes[t] = NoFutex
    /\ word[f] = 0
    /\ waiting' = [waiting EXCEPT ![f] = Append(@, Waiter(t, timeout))]
    /\ StallThread(t, Call("FUTEX", timeout), {})
    /\ UNCHANGED <<sleeping, word, owes, msg, now>>

\* futexWake.
FutexWake(t, f, n) ==
    /\ Executing(t)
    /\ Uses("futex")
    /\ owes[t] # NoFutex => owes[t] = f /\ n = All
    /\ waiting' = [waiting EXCEPT ![f] = Left(f, n)]
    /\ msg' = Told(Woken(f, n), TRUE)
    /\ owes' = [owes EXCEPT ![t] = NoFutex]
    /\ ResumeThreads(Woken(f, n))
    /\ UNCHANGED <<sleeping, word, now>>

\* futexWakeOp: the word at g is changed, then one waiter at f and, if the old
\* value compares as asked, all waiters at g are woken.
FutexWakeOp(t, f, g, compares) ==
    /\ Executing(t)
    /\ Uses("wake_op")
    /\ owes[t] = NoFutex
    /\ f # g
    /\ word[g] = 0
    /\ word' = [word EXCEPT ![g] = 1]
    /\ LET wake == Woken(f, 1) \cup IF compares THEN Woken(g, All) ELSE {}
       IN  msg' = Told(wake, TRUE) /\ ResumeThreads(wake)
    /\ waiting' = [waiting EXCEPT ![f] = Left(f, 1), ![g] = IF compares THEN <<>> ELSE @]
    /\ owes' = [owes EXCEPT ![t] = IF compares THEN NoFutex ELSE g]
    /\ UNCHANGED <<sleeping, now>>

\* futexCmpRequeue, when the word still has the value the caller saw: one waiter
\* is woken, the others are moved to g.
FutexCmpRequeue(t, f, g) ==
    /\ Executing(t)
    /\ Uses("requeue")
    /\ owes[t] \in {NoFutex, f}
    /\ f # g
    /\ msg' = Told(Woken(f, 1), TRUE)
    /\ ResumeThreads(Woken(f, 1))
    /\ waiting' = [waiting EXCEPT ![f] = <<>>, ![g] = @ \o Moved(Left(f, 1))]
    /\ owes' = [owes EXCEPT ![t] = NoFutex]
    /\ UNCHANGED <<sleeping, word, now>>

\* handleSleepCall.
HandleSleepCall(t, wake) ==
    /\ Executing(t)
    /\ Uses("sleep")
    /\ owes[t] = NoFutex
    /\ sleeping' = Append(sleeping, Waiter(t, wake))
    /\ StallThread(t, Call("SLEEP", wake), {})
    /\ UNCHANGED <<waiting, word, owes, msg, now>>

-----------------------------------------------------------------------------
(* Time.                                                                    *)

FirstOverdue(q, time) == SelectInSeq(q, LAMBDA w : w.timeout < time)

\* futexPeriodic, SimFutex::wakeTimedOut: in each queue only the first waiter
\* that is due is woken, the others at the next barriers.
FirstDue(q, time) == SelectInSeq(q, LAMBDA w : w.timeout <= time)
DueThread(q, time) == IF FirstDue(q, time) = 0 THEN {} ELSE {q[FirstDue(q, time)].thread}
WithoutDue(q, time) == IF FirstDue(q, time) = 0 THEN q ELSE RemoveAt(q, FirstDue(q, time))

\* Mutant: the last waiter counts even if it has no timeout.
LastTimeout(q) == IF q = <<>> THEN Never ELSE Last(q).timeout

\* getNextTimeout: of each queue the last timeout, of those the smallest.
LastFinite(q) ==
    LET i == SelectLastInSeq(q, LAMBDA w : w.timeout < Never)
    IN  IF i = 0 THEN Never ELSE q[i].timeout

GetNextTimeout(time) ==
    Min({LastFinite(sleeping)} \cup {LastFinite(waiting[f]) : f \in Futex})

\* HOOK_PERIODIC at the next barrier: either running threads reach it, or the
\* thread in stallThread's loop calls advance().
FutexPeriodic ==
    /\ advancing \/ \E t \in Thread : status[t] = "RUNNING"
    /\ now' = IF now < MaxTime THEN now + 1 ELSE now
    /\ LET wake == DueThread(sleeping, now') \cup
                   UNION {DueThread(waiting[f], now') : f \in Futex}
           errors == Check(advancing /\ wake = {} => GetNextTimeout(now') < Never,
                           "Application has deadlocked")
       IN  IF errors # {}
           THEN /\ failed' = failed \cup errors
                /\ UNCHANGED <<status, waiter, blocked, advancing, profile, pending,
                               waiting, sleeping, msg>>
           ELSE /\ ResumeThreads(wake)
                /\ msg' = Told(wake, FALSE)
                /\ sleeping' = WithoutDue(sleeping, now')
                /\ waiting' = [f \in Futex |-> WithoutDue(waiting[f], now')]
    /\ UNCHANGED <<word, owes>>

-----------------------------------------------------------------------------
\* No thread stands in a queue of the server twice.
FutexOnce == (\A f \in Futex : OnceEach(waiting[f])) /\ OnceEach(sleeping)
=============================================================================
