---------------------------- MODULE MCTraceFrontend ----------------------------
EXTENDS TraceFrontend

\* Three instructions: a fall-through chain over a page boundary, and a
\* predicated one that was not executed.
Instr(a, n, m, p) == [addr |-> a, size |-> n, mem |-> m, branch |-> FALSE,
                      predicate |-> p, executed |-> ~p]
Nop == Instr(0, 1, <<>>, FALSE)

Base == [apps |-> 1, files |-> FALSE, roi |-> FALSE, stopFirst |-> FALSE,
         restart |-> FALSE, blocks |-> 2, clones |-> 0, racing |-> FALSE, anyExit |-> FALSE,
         ops |-> {}, program |-> {Nop}, perInsn |-> FALSE, pa |-> FALSE,
         flow |-> 1, ff |-> 1]
MCConfig ==
    { \* the stream itself
      [Base EXCEPT !.blocks = 3, !.pa = TRUE, !.flow = 5,
         !.program = {Instr(0, 1, <<>>, FALSE), Instr(1, 2, <<6>>, FALSE),
                      Instr(3, 1, <<>>, TRUE)}],
      [Base EXCEPT !.blocks = 4, !.perInsn = TRUE, !.flow = 5,
         !.program = {Instr(0, 1, <<>>, FALSE), Instr(1, 2, <<6>>, FALSE),
                      Instr(3, 1, <<>>, TRUE)}],
      \* two threads, with join
      [Base EXCEPT !.blocks = 3, !.clones = 1],
      [Base EXCEPT !.blocks = 2, !.clones = 2, !.flow = 9],
      [Base EXCEPT !.blocks = 3, !.clones = 1, !.roi = TRUE, !.ops = {"roi_start", "read"}],
      \* two threads, each of which may end the process
      [Base EXCEPT !.blocks = 2, !.clones = 1, !.anyExit = TRUE],
      \* a region of interest, warm-up, blocking calls
      [Base EXCEPT !.blocks = 4, !.roi = TRUE,
         !.ops = {"roi_start", "roi_end", "warmup", "read", "write"}],
      \* a fork
      [Base EXCEPT !.blocks = 3, !.ops = {"fork"}],
      \* two applications, from recorded files, restarted
      [Base EXCEPT !.apps = 2, !.files = TRUE, !.restart = TRUE],
      [Base EXCEPT !.apps = 2, !.stopFirst = TRUE] }

\* Two threads created without waiting for the first to start.
RacingConfig == {[Base EXCEPT !.blocks = 2, !.clones = 2, !.flow = 9, !.racing = TRUE]}
=============================================================================
