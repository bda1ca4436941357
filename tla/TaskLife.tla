------------------------------ MODULE TaskLife ------------------------------
(***************************************************************************)
(* What the task queues promise of each task, whatever lists, queues and   *)
(* players come and go: a task is in one place at a time, it starts only   *)
(* from a queue or a read, it stops only by suspending, reading or ending, *)
(* and one that is queued is forgotten only because MOO code kills it.  A  *)
(* checkpoint saves every forked or suspended task, and after a crash each *)
(* task of the last checkpoint waits again.                                *)
(***************************************************************************)
CONSTANT Id

VARIABLES
    life,   \* where each task is
    busy,   \* is MOO code running?
    saved   \* the tasks of the last checkpoint

Pending == {"waiting", "ready", "external", "reading"}

LifeInit == life = [id \in Id |-> "none"] /\ busy = FALSE /\ saved = {}

Moves(id, from, to) ==
    life[id] \in from /\ life' = [life EXCEPT ![id] = to] /\ UNCHANGED saved

\* MOO code forks a task, suspends the running one, or has it read.  (A task
\* is given its name when it first needs one.)
Enqueue(id, place) == busy /\ Moves(id, {"none", "running"}, place) /\ busy' \in BOOLEAN

\* Its time has come, resume() was called, or the extension has its answer.
MakeReady(id) == Moves(id, {"waiting", "external"}, "ready") /\ UNCHANGED busy

StartTask(id) == ~busy /\ Moves(id, {"ready", "reading"}, "running") /\ busy' = TRUE

Kill(id) == busy /\ Moves(id, Pending, "none") /\ UNCHANGED busy

Finish(id) == ~busy /\ Moves(id, {"running"}, "none") /\ UNCHANGED busy

\* A verb with no task of its own among Id starts or stops.
Switch == busy' = ~busy /\ UNCHANGED <<life, saved>>

Checkpoint ==
    /\ ~busy
    /\ saved' = {id \in Id : life[id] \in {"waiting", "ready"}}
    /\ UNCHANGED <<life, busy>>

Crash ==
    /\ life' = [id \in Id |-> IF id \in saved THEN "waiting" ELSE "none"]
    /\ busy' = FALSE
    /\ UNCHANGED saved

LifeNext ==
    \/ \E id \in Id : \/ \E place \in {"waiting", "external", "reading"} : Enqueue(id, place)
                      \/ MakeReady(id) \/ StartTask(id) \/ Kill(id) \/ Finish(id)
    \/ Switch \/ Checkpoint \/ Crash

LifeSpec == LifeInit /\ [][LifeNext]_<<life, busy, saved>>
=============================================================================
