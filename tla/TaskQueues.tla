----------------------------- MODULE TaskQueues -----------------------------
(***************************************************************************)
(* The task queues of the server (tasks.c).  The server is one thread: a   *)
(* main loop takes input lines from the network, then run_ready_tasks()    *)
(* runs at most one task.  What interleaves is MOO code: while a task (or  *)
(* a notifier verb) runs, its built-ins call back into this component and  *)
(* change the very queues that run_ready_tasks() is in the middle of.      *)
(* "pc" says where the thread is, and a running task is any number of      *)
(* built-in calls between the step that starts it and the one that ends it.*)
(*                                                                         *)
(* A definition named X_Y is a deliberate fault, a wrong X: replacing X by *)
(* it must make TLC report the property that PROJECT.json pairs it with.   *)
(***************************************************************************)
EXTENDS Integers, Sequences, FiniteSets, SequencesExt

CONSTANTS
    Queue,          \* the storage for tqueue structures
    User,           \* object numbers of players (non-negative)
    Guest,          \* object numbers of connections not logged in (negative)
    Id,             \* task identifiers
    Line,           \* the kinds of input line: blank, oob, cmd
    Delay,          \* arguments of fork and suspend()
    Programmer,     \* whose permissions tasks may run with
    Builtins,       \* the built-ins that the MOO code of an instance calls
    HiWat,          \* INPUT_HIWAT
    Limit,          \* queued_task_limit
    MaxLines,       \* bound on the lines a queue holds
    MaxDrift,       \* bound on the error in num_bg_tasks (ResumeExternal)
    MaxTime,        \* bound on the clock
    NoTask, NoQueue

NOTHING == -1
NO_USAGE == -1
LoWat == HiWat \div 2
Player == User \cup Guest

ASSUME PlayersAssumption ==
    /\ User \subseteq Nat
    /\ Guest \subseteq Int /\ \A g \in Guest : g < NOTHING
    /\ Programmer \subseteq Player
ASSUME DomainsAssumption ==
    /\ Line \subseteq {"blank", "oob", "cmd"} /\ "blank" \in Line
    /\ IsFiniteSet(Queue) /\ NoQueue \notin Queue /\ NoTask \notin Id
    /\ Builtins \subseteq {"fork", "suspend", "kill_task", "resume", "read", "force_input",
                          "flush_input", "set_connection_option", "reconnect_player",
                          "read_stdin"}
ASSUME BoundsAssumption ==
    /\ HiWat \in Nat \ {0, 1} /\ Limit \in Nat /\ MaxLines \in Nat
    /\ MaxTime \in Nat /\ MaxDrift \in Nat /\ Delay \subseteq Nat

VARIABLES
    queues,   \* every tqueue, idle_tqueues and active_tqueues
    waiting,  \* waiting_tasks, by start time
    ext,      \* waiters of extensions.c, the last to come first
    pc,       \* where the server's only thread is
    cur,      \* the run in progress
    now,      \* time(0)
    start     \* run_ready_tasks()'s local "start"

vars == <<queues, waiting, ext, pc, cur, now, start>>

Task == [id : Id, kind : {"forked", "suspended"}, progr : Player, start : Nat]

TQueue ==
    [player : Player \cup {NOTHING}, connected : BOOLEAN, input : Seq(Line),
     input_suspended : BOOLEAN, bg : Seq(Task), usage : Int, num_bg : Int,
     hold_input : BOOLEAN, reading : Id \cup {NoTask}]

Run == [q : Queue \cup {NoQueue}, closing : Queue \cup {NoQueue},
        login : BOOLEAN, id : Id \cup {NoTask}]

NoRun == [q |-> NoQueue, closing |-> NoQueue, login |-> FALSE, id |-> NoTask]

(***************************************************************************)
(* tqueue structures.  S is a value of the variable queues.                *)
(***************************************************************************)

\* The tqueues that exist are those on one of the two lists.
Alloc(S) == S.idle \cup Range(S.active)
Held(S, p) == {q \in Alloc(S) : S.at[q].player = p}
Owner(S, p) == CHOOSE q \in Held(S, p) : TRUE
Fresh(S) == CHOOSE q \in Queue : q \notin Alloc(S)
Room(S, p) == Held(S, p) # {} \/ Queue \ Alloc(S) # {}

NewTQueue(p) ==
    [player |-> p, connected |-> FALSE, input |-> <<>>, input_suspended |-> FALSE,
     bg |-> <<>>, usage |-> NO_USAGE, num_bg |-> 0, hold_input |-> FALSE,
     reading |-> NoTask]

\* find_tqueue(p, 1): the queue of p, made (idle) if there is none.
FindTQueue(S, p) == IF Held(S, p) # {} THEN Owner(S, p) ELSE Fresh(S)
WithTQueue(S, p) ==
    IF Held(S, p) # {} THEN S
    ELSE [S EXCEPT !.at[Fresh(S)] = NewTQueue(p), !.idle = @ \cup {Fresh(S)}]

\* The queues at the front of the active list that q is inserted after.
Before_Strict(S, q) ==
    {i \in 1..Len(S.active) :
        \A j \in 1..i : S.at[S.active[j]].usage < S.at[q].usage}
Before(S, q) ==
    {i \in 1..Len(S.active) :
        \A j \in 1..i : S.at[S.active[j]].usage <= S.at[q].usage}
ActivateTQueue(S, q) ==
    [S EXCEPT !.active = InsertAt(@, Cardinality(Before(S, q)) + 1, q)]

\* Removes the head of the active list (run_ready_tasks() does) and idles it.
DeactivateHead(S) ==
    [S EXCEPT !.at[Head(S.active)].usage = NO_USAGE,
              !.idle = @ \cup {Head(S.active)}, !.active = Tail(@)]

FrontUsage(S) == IF S.active = <<>> THEN 0 ELSE S.at[Head(S.active)].usage
EnsureUsage_StaysIdle(S, q) ==
    IF S.at[q].usage # NO_USAGE THEN S
    ELSE ActivateTQueue([S EXCEPT !.at[q].usage = FrontUsage(S)], q)
EnsureUsage(S, q) ==
    IF S.at[q].usage # NO_USAGE THEN S
    ELSE ActivateTQueue([S EXCEPT !.at[q].usage = FrontUsage(S), !.idle = @ \ {q}], q)

EnqueueBg(S, q, t) == [S EXCEPT !.at[q].bg = Append(@, t)]
DequeueBg_NoCount(S, q) == [S EXCEPT !.at[q].bg = Tail(@)]
DequeueBg(S, q) == [S EXCEPT !.at[q].bg = Tail(@), !.at[q].num_bg = @ - 1]

\* total_input_length: a blank line counts 0, an "oob" one 1, a "cmd" one 2.
InputLength(lines) ==
    Cardinality({i \in DOMAIN lines : lines[i] # "blank"})
        + Cardinality({i \in DOMAIN lines : lines[i] = "cmd"})

DequeueInput_NoResume(S, q) == [S EXCEPT !.at[q].input = Tail(@)]
DequeueInput(S, q) ==
    [S EXCEPT !.at[q].input = Tail(@),
              !.at[q].input_suspended =
                  @ /\ ~(S.at[q].connected /\ InputLength(Tail(S.at[q].input)) < LoWat)]

\* dequeue_input_task() until there is no more.
DropInput(S, q) ==
    [S EXCEPT !.at[q].input = <<>>,
              !.at[q].input_suspended = @ /\ ~(S.at[q].connected /\ S.at[q].input # <<>>)]

IsOutOfInput(tq) == ~tq.connected /\ tq.input = <<>>

\* enqueue_input_task(): the line is worth waking the queue unless input is
\* held and no task is reading.
EnqueueInput_IgnoreReader(S, q, l, atFront) ==
    LET lines == IF atFront THEN <<l>> \o S.at[q].input ELSE Append(S.at[q].input, l)
        S1 == [S EXCEPT !.at[q].input = lines]
    IN  IF ~S.at[q].hold_input THEN EnsureUsage(S1, q) ELSE S1
EnqueueInput(S, q, l, atFront) ==
    LET lines == IF atFront THEN <<l>> \o S.at[q].input ELSE Append(S.at[q].input, l)
        S1 == [S EXCEPT !.at[q].input = lines]
        S2 == IF ~S.at[q].hold_input \/ S.at[q].reading # NoTask
              THEN EnsureUsage(S1, q) ELSE S1
    IN  [S2 EXCEPT !.at[q].input_suspended =
                      @ \/ (S.at[q].connected /\ InputLength(lines) > HiWat)]

\* free_task_queue(): the connection is gone.
FreeTaskQueue(S, q) ==
    LET S1 == [S EXCEPT !.at[q].connected = FALSE]
    IN  IF S.at[q].reading # NoTask THEN EnsureUsage(S1, q) ELSE S1

(***************************************************************************)
(* Queue q takes over player "new": do_login_task() and reassociate_queue()*)
(* move the background tasks of q to a queue of its old player, and those  *)
(* of the queue of "new" to q.  Neither move activates the receiver.       *)
(***************************************************************************)
LeaveTasks_Keep(S, q, old) == S
LeaveTasks(S, q, old) ==
    IF S.at[q].num_bg = 0 THEN S
    ELSE LET T == WithTQueue(S, old)
             o == FindTQueue(S, old)
         IN  [T EXCEPT !.at[o].num_bg = S.at[q].num_bg,
                       !.at[o].bg = @ \o S.at[q].bg,
                       !.at[q].num_bg = 0, !.at[q].bg = <<>>]

CanLeaveTasks(S, q) == S.at[q].num_bg = 0 \/ Queue \ Alloc(S) # {}

TakeTasks_KeepPlayer(S, q, dead) ==
    [DropInput(S, dead) EXCEPT
        !.at[q].num_bg = S.at[dead].num_bg, !.at[q].bg = @ \o S.at[dead].bg,
        !.at[dead].num_bg = 0, !.at[dead].bg = <<>>]
TakeTasks(S, q, dead) ==
    [DropInput(S, dead) EXCEPT
        !.at[q].num_bg = S.at[dead].num_bg, !.at[q].bg = @ \o S.at[dead].bg,
        !.at[dead].player = NOTHING, !.at[dead].num_bg = 0, !.at[dead].bg = <<>>]

\* ... and player_connected() closes the connection "new" had before.
Reassociate(S, q, new) ==
    LET S1 == LeaveTasks([S EXCEPT !.at[q].player = new], q, S.at[q].player)
        dead == Owner(S, new)
        S2 == TakeTasks(S1, q, dead)
    IN  IF Held(S, new) = {} THEN S1
        ELSE IF S.at[dead].connected THEN FreeTaskQueue(S2, dead) ELSE S2

(***************************************************************************)
(* The bookkeeping of tasks.                                               *)
(***************************************************************************)

BgTasks(S) == UNION {Range(S.at[q].bg) : q \in Alloc(S)}
Readers(S) == {S.at[q].reading : q \in Alloc(S)} \ {NoTask}
UsedIds ==
    {t.id : t \in BgTasks(queues) \cup Range(waiting) \cup Range(ext)}
        \cup Readers(queues) \cup ({cur.id} \ {NoTask})

\* check_user_task_limit(p)
UnderLimit_OffByOne(p) ==
    Held(queues, p) # {} => queues.at[Owner(queues, p)].num_bg <= Limit
UnderLimit(p) ==
    IF Held(queues, p) = {} THEN 0 < Limit
    ELSE queues.at[Owner(queues, p)].num_bg < Limit

\* A start time past the bound on the clock stands for "never", and for
\* suspend() without an argument.
StartTime(delay) == IF now + delay > MaxTime THEN MaxTime + 1 ELSE now + delay

\* enqueue_waiting(): after every task that starts no later.
InsertWaiting_Front(w, t) == <<t>> \o w
InsertWaiting(w, t) == InsertAt(w, Cardinality({i \in DOMAIN w : w[i].start <= t.start}) + 1, t)

CountIn(S, p) ==
    LET tq == FindTQueue(S, p) IN [WithTQueue(S, p) EXCEPT !.at[tq].num_bg = @ + 1]
EnqueueWaiting(t) ==
    /\ waiting' = InsertWaiting(waiting, t)
    /\ queues' = CountIn(queues, t.progr)

-----------------------------------------------------------------------------
Init ==
    /\ queues = [at |-> [q \in Queue |-> NewTQueue(NOTHING)], idle |-> {}, active |-> <<>>]
    /\ waiting = <<>> /\ ext = <<>>
    /\ pc = "io" /\ cur = NoRun
    /\ now = 0 /\ start = 0

(***************************************************************************)
(* Network and server events, between calls of run_ready_tasks().          *)
(***************************************************************************)

\* server_new_connection(): a number never used before; "inbound"
\* connections are given a blank line so that do_login_command() greets them.
NewConnection(g, inbound) ==
    /\ pc = "io" /\ Held(queues, g) = {} /\ Room(queues, g)
    /\ LET q == FindTQueue(queues, g)
           S1 == [WithTQueue(queues, g) EXCEPT !.at[q].connected = TRUE]
       IN  queues' = IF inbound THEN EnqueueInput(S1, q, "blank", FALSE) ELSE S1
    /\ UNCHANGED <<waiting, ext, pc, cur, now, start>>

\* server_receive_line().  Lines of a buffer already read arrive even after
\* input was suspended.
ReceiveLine(q, l) ==
    /\ pc = "io" /\ q \in Alloc(queues) /\ queues.at[q].connected
    /\ Len(queues.at[q].input) < MaxLines
    /\ queues' = EnqueueInput(queues, q, l, FALSE)
    /\ UNCHANGED <<waiting, ext, pc, cur, now, start>>

\* The line is the flush command.
ReceiveFlush(q) ==
    /\ pc = "io" /\ q \in Alloc(queues) /\ queues.at[q].connected
    /\ queues' = DropInput(queues, q)
    /\ UNCHANGED <<waiting, ext, pc, cur, now, start>>

\* The server runs a verb of its own: a checkpoint notifier, say, or, before
\* connection q is closed, :user_client_disconnected().
ServerTask ==
    /\ pc = "io"
    /\ cur' = NoRun /\ pc' = "run"
    /\ UNCHANGED <<queues, waiting, ext, now, start>>

CloseConnection(q) ==
    /\ pc = "io" /\ q \in Alloc(queues) /\ queues.at[q].connected
    /\ cur' = [NoRun EXCEPT !.closing = q] /\ pc' = "run"
    /\ UNCHANGED <<queues, waiting, ext, now, start>>

\* resume_task(), called by stdin_readable().  The task was not counted in
\* num_bg_tasks when it went to the external queue and is not now, but it will
\* be discounted when it runs; MaxDrift bounds how often.
ResumeExternal ==
    /\ pc = "io" /\ ext # <<>> /\ Room(queues, Head(ext).progr)
    /\ LET t == Head(ext)
           q == FindTQueue(queues, t.progr)
           S1 == WithTQueue(queues, t.progr)
       IN  /\ S1.at[q].num_bg > -MaxDrift
           /\ queues' = EnsureUsage(EnqueueBg(S1, q, [t EXCEPT !.start = 0]), q)
    /\ ext' = Tail(ext)
    /\ UNCHANGED <<waiting, pc, cur, now, start>>

\* The clock, where someone can tell: it is read as run_ready_tasks() starts,
\* by fork and suspend(), and when a task is over.
Tick ==
    /\ pc \in {"io", "run"} /\ now < MaxTime /\ now' = now + 1
    /\ UNCHANGED <<queues, waiting, ext, pc, cur, start>>

(***************************************************************************)
(* run_ready_tasks().                                                      *)
(***************************************************************************)

RunReadyTasks ==
    /\ pc = "io" /\ pc' = "wake" /\ start' = now
    /\ UNCHANGED <<queues, waiting, ext, cur, now>>

FirstIsDue == waiting # <<>> /\ Head(waiting).start <= start

\* The first waiting task is due: it moves to its programmer's queue.
WakeTask ==
    /\ pc = "wake" /\ FirstIsDue
    /\ LET t == Head(waiting)
           q == FindTQueue(queues, t.progr)
       IN  /\ Room(queues, t.progr)
           /\ queues' = EnqueueBg(EnsureUsage(WithTQueue(queues, t.progr), q), q, t)
    /\ waiting' = Tail(waiting)
    /\ UNCHANGED <<ext, pc, cur, now, start>>

WakeDone ==
    /\ pc = "wake" /\ ~FirstIsDue
    /\ pc' = "serve" /\ start' = now
    /\ UNCHANGED <<queues, waiting, ext, cur, now>>

\* Only the head of the active list is served.
Served == Head(queues.active)
Serving == pc = "serve" /\ queues.active # <<>>

StartRun(q, id, login) ==
    /\ cur' = [NoRun EXCEPT !.q = q, !.id = id, !.login = login]
    /\ pc' = "run"
    /\ UNCHANGED <<waiting, ext, now, start>>

\* A read()ing task whose connection is gone gets E_INVARG.
ResumeReaderAtEnd ==
    /\ Serving /\ queues.at[Served].reading # NoTask /\ IsOutOfInput(queues.at[Served])
    /\ queues' = [queues EXCEPT !.at[Served].reading = NoTask]
    /\ StartRun(Served, queues.at[Served].reading, FALSE)

\* Input lines come before background tasks, unless they are held for a
\* task that is not reading now.
TakesInput(tq) == tq.input # <<>> /\ (~tq.hold_input \/ tq.reading # NoTask)
TakesBg(tq) ==
    /\ tq.bg # <<>> /\ ~TakesInput(tq)
    /\ ~(tq.reading # NoTask /\ IsOutOfInput(tq))

OutOfBandCommand ==
    /\ Serving /\ TakesInput(queues.at[Served]) /\ Head(queues.at[Served].input) = "oob"
    /\ queues' = DequeueInput(queues, Served)
    /\ StartRun(Served, NoTask, FALSE)

ResumeReader ==
    /\ Serving /\ TakesInput(queues.at[Served]) /\ Head(queues.at[Served].input) # "oob"
    /\ queues.at[Served].reading # NoTask
    /\ queues' = [DequeueInput(queues, Served) EXCEPT !.at[Served].reading = NoTask]
    /\ StartRun(Served, queues.at[Served].reading, FALSE)

\* do_command_task() or do_login_task(), by the sign of the player's number.
CommandTask ==
    /\ Serving /\ TakesInput(queues.at[Served]) /\ queues.at[Served].reading = NoTask
    /\ Head(queues.at[Served].input) # "oob"
    /\ Head(queues.at[Served].input) # "blank" \/ queues.at[Served].player < 0
    /\ queues' = DequeueInput(queues, Served)
    /\ StartRun(Served, NoTask, queues.at[Served].player < 0)

\* parse_command() finds no command in the line: on to the queue's next task.
SkipBlank ==
    /\ Serving /\ TakesInput(queues.at[Served]) /\ queues.at[Served].reading = NoTask
    /\ Head(queues.at[Served].input) = "blank" /\ queues.at[Served].player >= 0
    /\ queues' = DequeueInput(queues, Served)
    /\ UNCHANGED <<waiting, ext, pc, cur, now, start>>

BackgroundTask ==
    /\ Serving /\ TakesBg(queues.at[Served])
    /\ queues' = DequeueBg(queues, Served)
    /\ StartRun(Served, Head(queues.at[Served].bg).id, FALSE)

NothingToDo(tq) ==
    /\ ~TakesInput(tq) /\ tq.bg = <<>>
    /\ ~(tq.reading # NoTask /\ IsOutOfInput(tq))

DeactivateServed ==
    /\ Serving /\ NothingToDo(queues.at[Served])
    /\ queues' = DeactivateHead(queues)
    /\ UNCHANGED <<waiting, ext, pc, cur, now, start>>

ServedNone ==
    /\ pc = "serve" /\ queues.active = <<>> /\ pc' = "sweep"
    /\ UNCHANGED <<queues, waiting, ext, cur, now, start>>

\* tq->next
Behind(S, q) ==
    LET i == CHOOSE j \in DOMAIN S.active : S.active[j] = q
    IN  SubSeq(S.active, i + 1, Len(S.active))

\* The task is over: its queue pays for the time it took and goes back
\* behind the queues that have used no more.
Bump(S, q) ==
    LET S1 == [S EXCEPT !.at[q].usage = @ + (now - start), !.active = Behind(S, q)]
    IN  ActivateTQueue(S1, q)
FinishServed ==
    /\ pc = "done" /\ cur.q # NoQueue
    /\ queues' = Bump(queues, cur.q)
    /\ pc' = "sweep" /\ cur' = NoRun
    /\ UNCHANGED <<waiting, ext, now, start>>

\* The end of a verb the server ran itself: free_shandle() if a connection
\* was being closed.
FinishServerTask ==
    /\ pc = "done" /\ cur.q = NoQueue
    /\ queues' = IF cur.closing = NoQueue THEN queues ELSE FreeTaskQueue(queues, cur.closing)
    /\ pc' = "io" /\ cur' = NoRun
    /\ UNCHANGED <<waiting, ext, now, start>>

Empty(tq) == ~tq.connected /\ tq.input = <<>> /\ tq.num_bg = 0
FreeIdle ==
    /\ pc = "sweep"
    /\ queues' = [queues EXCEPT
                    !.idle = {q \in @ : ~Empty(queues.at[q])},
                    !.at = [q \in Queue |-> IF q \in queues.idle /\ Empty(@[q])
                                            THEN NewTQueue(NOTHING) ELSE @[q]]]
    /\ pc' = "io"
    /\ UNCHANGED <<waiting, ext, cur, now, start>>

(***************************************************************************)
(* What a running task does: the built-ins that change task queues.  A     *)
(* built-in that fails changes nothing here, and no step stands for it.    *)
(***************************************************************************)

Calls(builtin) == pc = "run" /\ builtin \in Builtins

NewId(id) == id \in Id \ UsedIds
\* The identifier of the running task, chosen when it first matters.
RunId(id) == IF cur.id = NoTask THEN NewId(id) ELSE id = cur.id

\* enqueue_forked_task2()
Fork(id, p, delay) ==
    /\ Calls("fork") /\ NewId(id) /\ UnderLimit(p) /\ Room(queues, p)
    /\ EnqueueWaiting([id |-> id, kind |-> "forked", progr |-> p, start |-> StartTime(delay)])
    /\ UNCHANGED <<ext, pc, cur, now, start>>

\* enqueue_suspended_task()
Suspend(id, p, delay) ==
    /\ Calls("suspend") /\ RunId(id) /\ UnderLimit(p) /\ Room(queues, p)
    /\ EnqueueWaiting([id |-> id, kind |-> "suspended", progr |-> p, start |-> StartTime(delay)])
    /\ pc' = "done" /\ cur' = [cur EXCEPT !.id = NoTask]
    /\ UNCHANGED <<ext, now, start>>

\* stdin_suspender(): read_stdin() puts the task in a queue of extensions.c.
ReadStdin(id, p) ==
    /\ Calls("read_stdin") /\ RunId(id)
    /\ ext' = <<[id |-> id, kind |-> "suspended", progr |-> p, start |-> 0]>> \o ext
    /\ pc' = "done" /\ cur' = [cur EXCEPT !.id = NoTask]
    /\ UNCHANGED <<queues, waiting, now, start>>

\* make_reading_task(): read(p)
Read(id, p) ==
    /\ Calls("read") /\ RunId(id) /\ Held(queues, p) # {}
    /\ LET q == Owner(queues, p)
           S1 == [queues EXCEPT !.at[q].reading = id]
       IN  /\ queues.at[q].reading = NoTask /\ ~IsOutOfInput(queues.at[q])
           /\ queues' = IF queues.at[q].input # <<>> THEN EnsureUsage(S1, q) ELSE S1
    /\ pc' = "done" /\ cur' = [cur EXCEPT !.id = NoTask]
    /\ UNCHANGED <<waiting, ext, now, start>>

\* read_input_now(): read(p, 1)
ReadNow(p) ==
    /\ Calls("read") /\ Held(queues, p) # {}
    /\ queues.at[Owner(queues, p)].input # <<>>
    /\ queues' = DequeueInput(queues, Owner(queues, p))
    /\ UNCHANGED <<waiting, ext, pc, cur, now, start>>

\* kill_task() of a waiting task
KillWaiting(i) ==
    /\ Calls("kill_task") /\ i \in DOMAIN waiting
    /\ LET p == waiting[i].progr
       IN  queues' = IF Held(queues, p) = {} THEN queues
                     ELSE [queues EXCEPT !.at[Owner(queues, p)].num_bg = @ - 1]
    /\ waiting' = RemoveAt(waiting, i)
    /\ UNCHANGED <<ext, pc, cur, now, start>>

\* ... of a reading one
KillReader(q) ==
    /\ Calls("kill_task") /\ q \in Alloc(queues) /\ queues.at[q].reading # NoTask
    /\ queues' = [queues EXCEPT !.at[q].reading = NoTask]
    /\ UNCHANGED <<waiting, ext, pc, cur, now, start>>

\* ... of one that is ready, which is looked for in active queues only
KillReady(q, i) ==
    /\ Calls("kill_task") /\ q \in Range(queues.active) /\ i \in DOMAIN queues.at[q].bg
    /\ queues' = [queues EXCEPT !.at[q].bg = RemoveAt(@, i), !.at[q].num_bg = @ - 1]
    /\ UNCHANGED <<waiting, ext, pc, cur, now, start>>

\* ... and of one in an external queue
KillExternal(i) ==
    /\ Calls("kill_task") /\ i \in DOMAIN ext
    /\ ext' = RemoveAt(ext, i)
    /\ UNCHANGED <<queues, waiting, pc, cur, now, start>>

\* do_resume(); of a task that is ready already, it only changes the value.
Resume(i) ==
    /\ Calls("resume") /\ i \in DOMAIN waiting /\ waiting[i].kind = "suspended"
    /\ LET t == [waiting[i] EXCEPT !.start = now]
           q == FindTQueue(queues, t.progr)
       IN  /\ Room(queues, t.progr)
           /\ queues' = EnqueueBg(EnsureUsage(WithTQueue(queues, t.progr), q), q, t)
    /\ waiting' = RemoveAt(waiting, i)
    /\ UNCHANGED <<ext, pc, cur, now, start>>

\* force_input()
ForceInput(p, l, atFront) ==
    /\ Calls("force_input") /\ Room(queues, p)
    /\ LET q == FindTQueue(queues, p) S1 == WithTQueue(queues, p)
       IN  /\ Len(S1.at[q].input) < MaxLines
           /\ queues' = EnqueueInput(S1, q, l, atFront)
    /\ UNCHANGED <<waiting, ext, pc, cur, now, start>>

\* flush_input(), which makes the queue if there is none
FlushInput(p) ==
    /\ Calls("flush_input") /\ Room(queues, p)
    /\ queues' = DropInput(WithTQueue(queues, p), FindTQueue(queues, p))
    /\ UNCHANGED <<waiting, ext, pc, cur, now, start>>

\* set_connection_option(p, "hold-input", hold)
SetHoldInput(q, hold) ==
    /\ Calls("set_connection_option") /\ q \in Alloc(queues) /\ queues.at[q].connected
    /\ LET S1 == [queues EXCEPT !.at[q].hold_input = hold]
       IN  queues' = IF ~hold /\ queues.at[q].input # <<>> THEN EnsureUsage(S1, q) ELSE S1
    /\ UNCHANGED <<waiting, ext, pc, cur, now, start>>

\* bf_reconnect_player()
ReconnectPlayer(q, new) ==
    /\ Calls("reconnect_player") /\ q \in Alloc(queues) /\ queues.at[q].connected
    /\ queues.at[q].player # new /\ CanLeaveTasks(queues, q)
    /\ queues' = Reassociate(queues, q, new)
    /\ UNCHANGED <<waiting, ext, pc, cur, now, start>>

\* The task returns, or is killed or aborted.
EndTask ==
    /\ pc = "run" /\ pc' = "done"
    /\ UNCHANGED <<queues, waiting, ext, cur, now, start>>

\* do_login_command() returned a player: the connection becomes that
\* player's, and the server runs the verb that says so.  (The verb has not
\* itself called reconnect_player() for that very player: see README.)
Login(new) ==
    /\ pc = "run" /\ cur.login /\ queues.at[cur.q].connected
    /\ queues.at[cur.q].player # new /\ CanLeaveTasks(queues, cur.q)
    /\ queues' = Reassociate(queues, cur.q, new)
    /\ cur' = [cur EXCEPT !.login = FALSE, !.id = NoTask]
    /\ UNCHANGED <<waiting, ext, pc, now, start>>

-----------------------------------------------------------------------------
NetworkStep ==
    \/ \E g \in Guest, inbound \in BOOLEAN : NewConnection(g, inbound)
    \/ \E q \in Queue, l \in Line : ReceiveLine(q, l)
    \/ \E q \in Queue : ReceiveFlush(q) \/ CloseConnection(q)
    \/ ResumeExternal
    \/ ServerTask

\* One round of the main loop, task by task.
LoopStep ==
    \/ RunReadyTasks \/ WakeTask \/ WakeDone
    \/ ResumeReaderAtEnd \/ OutOfBandCommand \/ ResumeReader
    \/ CommandTask \/ SkipBlank \/ BackgroundTask
    \/ DeactivateServed \/ ServedNone
    \/ FinishServed \/ FinishServerTask \/ FreeIdle

TaskStep ==
    \/ \E id \in Id, p \in Programmer, d \in Delay : Fork(id, p, d) \/ Suspend(id, p, d)
    \/ \E id \in Id, p \in Programmer : ReadStdin(id, p)
    \/ \E i \in DOMAIN ext : KillExternal(i)
    \/ \E id \in Id, p \in Player : Read(id, p)
    \/ \E p \in Player : ReadNow(p) \/ FlushInput(p)
    \/ \E p \in Player, l \in Line, atFront \in BOOLEAN : ForceInput(p, l, atFront)
    \/ \E i \in DOMAIN waiting : KillWaiting(i) \/ Resume(i)
    \/ \E q \in Queue : KillReader(q) \/ \E i \in DOMAIN queues.at[q].bg : KillReady(q, i)
    \/ \E q \in Queue, hold \in BOOLEAN : SetHoldInput(q, hold)
    \/ \E q \in Queue, new \in User : ReconnectPlayer(q, new)
    \/ \E new \in User : Login(new)

Next == NetworkStep \/ LoopStep \/ TaskStep \/ EndTask \/ Tick

Spec == Init /\ [][Next]_vars

-----------------------------------------------------------------------------
QueuesTypeOK(S) ==
    /\ S \in [at : [Queue -> TQueue], idle : SUBSET Queue, active : Seq(Queue)]
    /\ IsInjective(S.active)
    /\ S.idle \cap Range(S.active) = {}
    /\ \A q \in S.idle : S.at[q].usage = NO_USAGE
    /\ \A q \in Range(S.active) : S.at[q].usage >= 0

\* Every variable holds a value of its type; a tqueue is on one list, once,
\* and its usage says which (ensure_usage() relies on that).
TypeOK ==
    /\ QueuesTypeOK(queues)
    /\ waiting \in Seq(Task) /\ ext \in Seq(Task)
    /\ pc \in {"io", "wake", "serve", "run", "done", "sweep"}
    /\ cur \in Run
    /\ now \in Nat /\ start \in Nat /\ start <= now

\* While a queue's task runs, whatever the task wakes, creates or reconnects,
\* that queue stays at the head of active_tqueues: "active_tqueues = tq->next"
\* then drops no other queue.
ServedStaysAtHead ==
    cur.q # NoQueue => queues.active # <<>> /\ Head(queues.active) = cur.q

\* An idle queue has nothing that run_ready_tasks() would run: no ready
\* task, no line that would be taken, no reader waiting for a connection
\* that is gone.  (No wakeup is lost: idle queues are never looked at.)
Quiet(tq) == NothingToDo(tq)
NoLostWakeup == \A q \in queues.idle : Quiet(queues.at[q])

\* At most one queue answers to a player's number.
OneQueuePerPlayer ==
    \A q, r \in Alloc(queues) :
        queues.at[q].player = queues.at[r].player /\ queues.at[q].player # NOTHING => q = r

\* num_bg_tasks counts a queue's ready tasks and its player's waiting ones
\* ("in either here or waiting_tasks"), and every waiting task is counted.
WaitingOf(p) == {i \in DOMAIN waiting : waiting[i].progr = p}
BgCounted ==
    /\ \A q \in Alloc(queues) :
          queues.at[q].num_bg =
              Len(queues.at[q].bg) + Cardinality(WaitingOf(queues.at[q].player))
    /\ \A i \in DOMAIN waiting : Held(queues, waiting[i].progr) # {}

\* No programmer ever has more than queued_task_limit tasks queued, however
\* queues are created, merged by logins or freed in between.
ReadyOf(p) == UNION {{<<q, i>> : i \in {j \in DOMAIN queues.at[q].bg :
                                           queues.at[q].bg[j].progr = p}} : q \in Alloc(queues)}
QuotaRespected ==
    \A p \in Programmer : Cardinality(WaitingOf(p)) + Cardinality(ReadyOf(p)) <= Limit

\* A ready task is in the queue of its own programmer, which is what
\* kill_task() and do_resume() check permissions against.
ReadyTaskOfOwner ==
    \A q \in Alloc(queues) : \A t \in Range(queues.at[q].bg) : t.progr = queues.at[q].player

\* Input of an open connection stays suspended only while there is enough of
\* it queued that taking lines will resume it.
SuspendedInputResumes ==
    \A q \in Alloc(queues) :
        queues.at[q].connected /\ queues.at[q].input_suspended
            => InputLength(queues.at[q].input) >= LoWat

\* Queues are in order of usage, waiting tasks in order of start time.
Ordered ==
    /\ \A i, j \in DOMAIN queues.active :
          i < j => queues.at[queues.active[i]].usage <= queues.at[queues.active[j]].usage
    /\ \A i, j \in DOMAIN waiting : i < j => waiting[i].start <= waiting[j].start
=============================================================================
