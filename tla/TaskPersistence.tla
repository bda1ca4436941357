-------------------------- MODULE TaskPersistence --------------------------
(***************************************************************************)
(* The task queues with checkpoints, crashes and restarts: what            *)
(* write_task_queue() finds to write and what read_task_queue() makes of   *)
(* it.  That a checkpoint's file is good is the business of Checkpoint.    *)
(***************************************************************************)
EXTENDS TaskQueues

VARIABLE disk   \* the tasks in the last checkpoint, in the order written

pvars == <<vars, disk>>

\* The tasks of one kind, in their order.
Only(kind, tasks) ==
    LET upto[n \in 0..Len(tasks)] ==
            IF n = 0 THEN <<>>
            ELSE IF tasks[n].kind = kind THEN Append(upto[n - 1], tasks[n])
            ELSE upto[n - 1]
    IN  upto[Len(tasks)]

\* The ready tasks of active_tqueues, queue by queue.
ReadyTasks ==
    LET upto[n \in 0..Len(queues.active)] ==
            IF n = 0 THEN <<>> ELSE upto[n - 1] \o queues.at[queues.active[n]].bg
    IN  upto[Len(queues.active)]

\* write_task_queue(): forked tasks, then suspended ones; of each kind the
\* waiting ones first.  Idle queues are not looked at.
Written_WaitingOnly == Only("forked", waiting) \o Only("suspended", waiting)
Written ==
    (Only("forked", waiting) \o Only("forked", ReadyTasks))
        \o (Only("suspended", waiting) \o Only("suspended", ReadyTasks))

Dump ==
    /\ pc = "io" /\ disk' = Written
    /\ UNCHANGED vars

\* read_task_queue(): every task waits again, until the time it was given.
NoQueues == [at |-> [q \in Queue |-> NewTQueue(NOTHING)], idle |-> {}, active |-> <<>>]
Loaded(r, t) == [q |-> CountIn(r.q, t.progr), w |-> InsertWaiting(r.w, t)]
Reload(tasks) ==
    LET upto[n \in 0..Len(tasks)] ==
            IF n = 0 THEN [q |-> NoQueues, w |-> <<>>]
            ELSE Loaded(upto[n - 1], tasks[n])
    IN  upto[Len(tasks)]

\* The server dies at any point and starts again from the last checkpoint.
CrashRestart ==
    /\ queues' = Reload(disk).q /\ waiting' = Reload(disk).w
    /\ ext' = <<>> /\ pc' = "io" /\ cur' = NoRun
    /\ UNCHANGED <<now, start, disk>>

PInit == Init /\ disk = <<>>
PNext == (Next /\ UNCHANGED disk) \/ Dump \/ CrashRestart

(***************************************************************************)
(* The main loop calls run_ready_tasks() in every round, after a bounded   *)
(* amount of network work; run_ready_tasks() and the server's own verbs    *)
(* proceed once started; MOO code ends, for it runs out of ticks.  Nothing *)
(* is assumed of clients, verbs, the clock or crashes, so what a queue is  *)
(* promised depends on the time the others take: see Outranked.            *)
(***************************************************************************)
Fairness ==
    /\ SF_pvars(RunReadyTasks /\ UNCHANGED disk)
    /\ WF_pvars(LoopStep /\ UNCHANGED disk)
    /\ WF_pvars(EndTask /\ UNCHANGED disk)

PSpec == PInit /\ [][PNext]_pvars /\ Fairness

-----------------------------------------------------------------------------
(***************************************************************************)
(* The refinement of TaskLife.  A task in two places at once would map to  *)
(* "lost", which TaskLife has no step to.                                  *)
(***************************************************************************)
InPlace(id, place) ==
    CASE place = "waiting" -> \E i \in DOMAIN waiting : waiting[i].id = id
      [] place = "ready" -> \E t \in BgTasks(queues) : t.id = id
      [] place = "external" -> \E i \in DOMAIN ext : ext[i].id = id
      [] place = "reading" -> id \in Readers(queues)
      [] OTHER -> cur.id = id
LifeOf(id) ==
    LET places == {place \in {"waiting", "ready", "external", "reading", "running"} :
                      InPlace(id, place)}
    IN  IF places = {} THEN "none"
        ELSE IF Cardinality(places) = 1 THEN CHOOSE place \in places : TRUE
        ELSE "lost"
Life == INSTANCE TaskLife WITH
            life <- [id \in Id |-> LifeOf(id)],
            busy <- (pc = "run"),
            saved <- {disk[i].id : i \in DOMAIN disk}

\* The queues keep TaskLife's promise: each task is in one place, none that
\* is queued or reading disappears but by kill_task(), each checkpoint has
\* every forked or suspended task, and a restart brings all of it back.
EachTaskKept == Life!LifeSpec

\* Another queue with less usage is served first (activate_tqueue()).  A queue
\* that was charged for a second waits behind it for as long as it has work
\* that takes no time, so nothing more than the following can be promised.
Outranked(q) ==
    \E r \in Range(queues.active) : queues.at[r].usage < queues.at[q].usage

\* "Activate this queue to ensure that the pending read()ing task will
\* eventually get resumed" (free_task_queue()): no task reads forever from a
\* connection that is gone, though other queues always have work: unless from
\* some time on there is always a queue that has used less.
ReaderResumed ==
    \A q \in Queue : []<>~Outranked(q) =>
        \A id \in Id : (queues.at[q].reading = id /\ ~queues.at[q].connected)
                          ~> (queues.at[q].reading # id)

\* A ready task runs, unless its own queue has input lines to put before it or
\* there is always a queue that has used less.
ReadyTaskServed ==
    \A q \in Queue : []<>~Outranked(q) =>
        \A id \in Id :
            (\E i \in DOMAIN queues.at[q].bg : queues.at[q].bg[i].id = id)
                ~> (TakesInput(queues.at[q])
                      \/ ~\E i \in DOMAIN queues.at[q].bg : queues.at[q].bg[i].id = id)

\* "If an unconnected queue becomes empty, it is destroyed" (tqueue): one with
\* no connection, no line and no task, ready or waiting, does not last, unless
\* there is always a queue that has used less.
Deserted(q) ==
    /\ q \in Alloc(queues) /\ IsOutOfInput(queues.at[q]) /\ queues.at[q].bg = <<>>
    /\ WaitingOf(queues.at[q].player) = {}
EmptyQueueDestroyed ==
    \A q \in Queue : []<>~Outranked(q) => (Deserted(q) ~> ~Deserted(q))
=============================================================================
