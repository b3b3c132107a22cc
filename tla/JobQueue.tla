------------------------------ MODULE JobQueue ------------------------------
(***************************************************************************)
(* What the coordinator promises its clients: a single server with a       *)
(* bounded first-in first-out queue.  An accepted job is begun in its turn, *)
(* at most once and never skipped; the next one begins after it has ended. *)
(* A crash forgets everything.  There is no code for this module: it is    *)
(* the specification that Coordinator implements when IDs are distinct.    *)
(***************************************************************************)
EXTENDS Naturals, Sequences

CONSTANTS Jobs, NoJob, Capacity

VARIABLES
    waiting,   \* accepted jobs, in the order they were accepted
    running,   \* the job being executed, or NoJob
    ended      \* jobs that have been executed

jobVars == <<waiting, running, ended>>

JobInit ==
    /\ waiting = <<>>
    /\ running = NoJob
    /\ ended = {}

Accept(j) ==
    /\ Len(waiting) < Capacity
    /\ j \notin ended /\ j # running /\ \A k \in 1..Len(waiting) : waiting[k] # j
    /\ waiting' = Append(waiting, j)
    /\ UNCHANGED <<running, ended>>

Begin ==
    /\ running = NoJob
    /\ waiting # <<>>
    /\ running' = Head(waiting)
    /\ waiting' = Tail(waiting)
    /\ UNCHANGED ended

End ==
    /\ running # NoJob
    /\ ended' = ended \cup {running}
    /\ running' = NoJob
    /\ UNCHANGED waiting

Crash ==
    /\ waiting' = <<>>
    /\ running' = NoJob
    /\ ended' = {}

JobNext == (\E j \in Jobs : Accept(j)) \/ Begin \/ End \/ Crash

JobSpec == JobInit /\ [][JobNext]_jobVars
=============================================================================
