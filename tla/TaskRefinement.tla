--------------------------- MODULE TaskRefinement ---------------------------
(* The executor with healthy storage implements the task lifecycle. *)
EXTENDS TaskExecutor

StatusOf == [t \in Tasks |-> exec[t].status]
BegunOf  == [t \in Tasks |-> exec[t].started]

L == INSTANCE TaskLifecycle WITH status <- StatusOf, begun <- BegunOf

\* Every step of the executor, API threads, worker, crash and recovery alike,
\* is a legal move of each task or leaves it where it is: a report is written
\* once, work never begins after it, and a row only closes on its report.
ImplementsLifecycle == L!Init /\ [][L!Next]_(L!vars)
=============================================================================
