------------------------------ MODULE MCThreads ------------------------------
\* A program uses some of the primitives together.
EXTENDS Threads

CONSTANTS f1, f2

MCProfiles == {{"mutex", "trylock", "cond", "barrier", "join", "exit"},
               {"mutex", "trylock"},
               {"futex", "timeout", "sleep", f1},
               {"futex", "exit", f1},
               {"futex", "wake_op", "requeue", f1, f2}}
=============================================================================
