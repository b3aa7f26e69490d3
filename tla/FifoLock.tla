------------------------------ MODULE FifoLock ------------------------------
(***************************************************************************)
(* What a program may rely on when it uses a simulated mutex: callers      *)
(* stand in a line in the order in which they asked, and only the head of  *)
(* the line is let inside.                                                 *)
(***************************************************************************)
EXTENDS Sequences, SequencesExt

CONSTANTS Thread, Mutex
VARIABLES line,     \* for each mutex, the threads that have asked for it
          inside    \* for each mutex, the threads that believe they hold it

lockVars == <<line, inside>>

Init == line = [m \in Mutex |-> <<>>] /\ inside = [m \in Mutex |-> {}]

\* Threads join the lines: one that locks a mutex, or those that a condition
\* variable wakes.
Ask ==
    /\ line' \in [Mutex -> Seq(Thread)]
    /\ \A m \in Mutex : IsInjective(line'[m]) /\ IsPrefix(line[m], line'[m])
    /\ UNCHANGED inside

\* The head of the line learns that it holds the lock.
Admit(m) ==
    /\ line[m] # <<>>
    /\ inside[m] = {}
    /\ inside' = [inside EXCEPT ![m] = {Head(line[m])}]
    /\ UNCHANGED line

\* The holder gives the lock back.
Leave(m) ==
    /\ inside[m] # {}
    /\ line' = [line EXCEPT ![m] = Tail(@)]
    /\ inside' = [inside EXCEPT ![m] = {}]

\* An uncontended lock is taken at once.
Take(m, t) ==
    /\ line[m] = <<>>
    /\ line' = [line EXCEPT ![m] = <<t>>]
    /\ inside' = [inside EXCEPT ![m] = {t}]

Next ==
    \/ Ask
    \/ \E m \in Mutex : Admit(m) \/ Leave(m) \/ \E t \in Thread : Take(m, t)

Safety == Init /\ [][Next]_lockVars

\* Whoever comes to the head of the line is let in.
Spec == Safety /\ \A m \in Mutex : WF_lockVars(Admit(m))
=============================================================================
