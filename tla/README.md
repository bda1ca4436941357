# A TLA+ verification of HybridCircle

HybridCircle is a LambdaMOO server: a network server with an object database, a compiler and an
interpreter for the MOO language. Players send lines, lines become *tasks* (runs of MOO verbs), tasks
change the database, fork, suspend and read input, and the whole state is saved to a text file by
periodic checkpoints. The server is one thread with signal handlers, plus short-lived child processes
(checkpointers, and two processes for host name lookup). What makes it hard is therefore not threads
but *re-entrance*: MOO code runs in the middle of almost every C function that walks a list, and its
built-ins change that very list; and, around the process, signals, children, crashes and restarts.

## 1. Inventory

| Part (files under `src/`) | State it keeps | Operations | Hard because | What makes it correct |
|---|---|---|---|---|
| Task queues (`tasks.c`) | one `tqueue` per player or connection (input lines, ready tasks, reader, usage, counts), on `idle_tqueues` or `active_tqueues`; `waiting_tasks` | lines from the network; fork, suspend, read, kill_task, resume, force_input, flush_input, hold-input; logins and reconnections; `run_ready_tasks()` | the running task changes the queues that the loop is serving | no lost wakeup, no lost queue, one queue per player, exact counts and quotas, service under the loop's fairness |
| Task persistence (`tasks.c`, `db_file.c`) | the task sections of the dump | `write_task_queue()`, `read_task_queue()` | a crash anywhere | every saved task waits again, exactly once |
| External tasks (`extensions.c`) | waiters of `read_stdin()` | suspend, resume, enumerate | tasks outside every queue's count | as above |
| Connections, main loop (`server.c`) | `shandle` list (player, listener, times, flags), listeners | new connection, line, close, boot, log in, reconnect, time out; notifiers | notifier verbs run while a handle is being closed | no handle used after it is freed, one handle per player, each close announced once |
| Checkpoints, signals (`server.c`, `db_file.c`) | dump generation, `checkpoint_requested`, `checkpoint_finished`, files, children | timer, signal, `dump_database()`, fork, write, rename, SIGCHLD, shutdown, panic | two processes and a file system; crash between any two calls | requests are honoured, a good dump always exists, dumps do not go back in time, results are reported |
| Objects (`db_objects.c`) | object array; parent/child and location/contents lists | create, destroy, chparent, move, renumber, set number | links in both directions, kept by hand | the links agree and make a forest |
| Properties (`db_properties.c`) | definitions per object, values by position along the parent chain | add, delete, rename, chparent, find | one operation shifts the values of a whole subtree | each value stays with its definition |
| Verbs, verb cache (`db_verbs.c`) | verb lists; a cache of positive and negative lookups | add, delete, change, look up | stale entries | a cached lookup equals a direct one |
| Network (`net_multi.c`, `net_*.c`) | handles, output blocks, input buffer, registered descriptors | push, pull, enqueue, close, poll | limits, partial writes, callbacks that change the arrays walked | order and framing of output and input |
| Timers (`timers.c`) | ordered list of timers, a virtual timer | set, cancel, sleep, the signal | handler against list operations | each timer fires once or is cancelled |
| Interpreter (`execute.c`, `eval_vm.c`, `eval_env.c`) | activations, value stacks with handlers on them, ticks | run an opcode, call, return, raise, unwind, suspend, save, resume | errors, returns and suspensions cross C functions and handlers; a stack without bounds checks | a program does what it says, within the stack that was counted for it |
| Waifs, reference counts (`waif.c`, `ref_count.c`, `storage.c`) | values of each waif, packed; lists of names shared by address and counted; the save index of a dump | share, free, bring up to date when looked at, save, load | classes change long before their waifs are looked at | a waif keeps its values; the lists are those of the classes; no early free |
| Name lookup (`name_lookup.c`) | pipe to a two-process resolver | look up, time out, restart | late answers | answer matches question |
| Values (`list.c`, `listutils.c`, `match.c`, `utf8.c`, `numbers.c`, `hash.c`, `quota.c`) | none | pure functions | boundaries | agree with their definitions |
| Parser, compiler, decompiler (`parser.y`, `code_gen.c`, `decompile.c`) | bytecode, the only form a verb is kept in | parse, generate, decompile, find a line | the decompiler must foresee all code, and panics where it does not | round trip, right lines, right count of the stack |
| Built-in tables, extensions, logging, streams, clients, vendored libraries | little or none | wrappers | - | - |

How they interact: `main_loop()` (`server.c`) calls the network layer, which calls back
`server_new_connection()`, `server_receive_line()` and `server_close()`; those change task queues and
run notifier verbs. It then calls `run_ready_tasks()`, which runs at most one task in the interpreter;
built-ins call back into the task queues, the connections and the database. A requested checkpoint
forks; the child writes database and task queues and renames the file; SIGCHLD tells the parent, which
runs a notifier verb.

## 2. Plan

In order; a later module composes with or `EXTENDS` the earlier ones where they share state.

1. **TaskQueues**: all of the queue machinery of `tasks.c`; **TaskLife**, what it promises of a
   task, abstractly; **TaskPersistence**, the queues with checkpoints, crashes and restarts, shown to
   implement TaskLife; **TaskQueuesProofs** and **TaskPersistenceProofs**, proofs for every value of the constants.
2. **Checkpoint**: dump files, generations, forked checkpointers, SIGCHLD, requests and
   notifiers; **CheckpointProofs**.
3. **ObjectTree**: the two hierarchies and the built-ins that change them, with calls that wait
   for verbs; **ObjectTreeProofs**; **VerbCache** extends it with verbs and the cache of lookups, **Waifs**
   with waifs, the lists of names they share with their classes, and dumps; **WaifsProofs**.
4. **Properties**: the layout of values along the parent chain; **PropertyValues**, what it
   promises without positions, which it is shown to implement; **PropertiesProofs**.
5. **Connections**: the records of connections in `server.c` and `net_multi.c`, and the verbs that run while
   both walk their lists; **NetOutput**, the output queue of one connection.
6. **CodeGen**, **Values**, **Interpreter**: verbs compiled and run; **ProgramMeaning**, what a program means,
   told from its tree, which the interpreter is held against; **Decompile**, from code back to trees.

All of these are done, with proofs of every safety property of 1, 2, 3, 4 and 5 (**NetworkProofs**) that a passing run checks.
CodeGen, Interpreter, ProgramMeaning and Decompile are recursive by nature and stay with TLC.

## 3. TaskQueues

*State.* `queues.at` maps storage to a `tqueue`, `queues.idle` is `idle_tqueues` (a set: its order is
never looked at), `queues.active` is `active_tqueues`; `waiting` is `waiting_tasks`; `ext` the list of
`extensions.c`. `pc` is where the thread is: `io` (the main loop outside `run_ready_tasks()`), `wake`
(its first loop), `serve` (its second), `run` (MOO code runs), `done` (it is over), `sweep` (free idle
queues). `cur` remembers what the C stack does: the queue being served, a connection being closed, a
login in progress, the running task's identifier.

*Actions.* One per entry point or branch: the network events, each turn of the two loops of
`run_ready_tasks()`, each built-in that changes a queue, and the end of the task. While `pc = "run"`
any sequence of built-ins may happen; that is the re-entrance. `Builtins` says which of them the MOO
code of an instance calls, so that an instance (or a theorem) can leave some out.

*What is abstracted.*

- A line is `blank`, `oob` (out-of-band) or `cmd`, of length 0, 1 and 2: enough to put a queue above
  `HiWat` and to tell the three treatments apart. `SkipBlank` is the one kind of line that starts no task.
- `run_server_task()` in the middle of a server function is one run of MOO code; where the code runs
  two notifiers in a row the model runs one, which may make the calls of both. A notifier run *by a
  built-in* (`reconnect_player()`) is part of the run it interrupts.
- Which connection is whose is a fact of `server.c`; here a connection is a `connected` queue, and guest
  numbers are reused once their queue is gone (the code counts down, so never).
- The clock moves when nobody can be in the middle of comparing it (`io`, `run`): it is read once at
  the start of each loop, by `fork` and `suspend`, and when a task is over.
- `Login` leaves out a `do_login_command` verb that itself reconnected *the very queue* to the player it
  then returns: in the code `dead_tq` is then the queue itself (see the hazard at `tasks.c:581`; Connections
  has that call).
- A failing built-in changes nothing and is no step.

*Properties.* `NoLostWakeup`, `ServedStaysAtHead`, `SuspendedInputResumes`, `OneQueuePerPlayer`,
`BgCounted`, `QuotaRespected`, `ReadyTaskOfOwner`, `Ordered`, besides the type invariant `TypeOK`; each is
stated with a comment at the end of the module.

**TaskLife** says what a task may expect, with no queue in sight: six places a task can be in, and the
only moves between them. **TaskPersistence** adds `disk`, `Dump` (`write_task_queue()`) and
`CrashRestart` (at any state, `read_task_queue()` of the last dump) and is checked to implement TaskLife
through the mapping `LifeOf`, where a task in two places maps to a value TaskLife cannot reach.

*Fairness* (`TaskPersistence!Fairness`). `main_loop()` calls `run_ready_tasks()` in every round: strong
fairness of `RunReadyTasks`, since network events and server verbs come between. The loops of
`run_ready_tasks()` are straight-line code: weak fairness of `LoopStep`. MOO code runs out of ticks and
seconds: weak fairness of `EndTask`. Nothing is assumed of clients, of what verbs do, of the clock or of
crashes. In return the code promises little: `run_ready_tasks()` serves the queue with the least usage
(`activate_tqueue()`, `tasks.c:155`), a task that ends within the second costs its queue nothing (`tasks.c:1101`),
and a queue charged one second waits for as long as one that was charged nothing has work. So `ReaderResumed`,
`ReadyTaskServed` and `EmptyQueueDestroyed` are promised to a queue `q` under the condition
`[]<>~Outranked(q)`: again and again there is a moment when no active queue has used less. Queues of equal usage
take turns, which is what the properties then rest on. Without the condition all three fail (section 11).

## 4. Checkpoint

*State.* `pc` is where the server is: a place of `main_loop()` (`top`, the call of `db_flush()`, the
setting of the timer, the test of `checkpoint_finished`, `rest`), a verb it runs there (`started`,
`refused`, `report`; MOO code that runs in the rest of the round is in `rest`), or what comes after the
loop (`down`, `dumping`, `stopped`, `panic`, `aborted`). `version` stands for the database in memory:
the number of changes made to it. `dumper[g]` is the run of `dump_database_to()` with
`dump_generation = g`, in a checkpointer (`child`) or in the server itself: the system call it is about
to make, or how it ended, and the version it writes, fixed at the `fork()`. `disk` holds the dump file,
the panic file and the temporary files, each `NoFile`, the version it holds, `Partial` (still being
written) or `Short` (its last lines were lost at `fclose()`).

*Actions.* Each system call of `dump_database_to()` is a step, so that every interleaving of the server
and several checkpointers is explored, and every state in between is a state a crash could leave:
there is no crash action, the disk invariants and `NeverOlder` speak of each state and each step. A step
of the server's own code happens only when no signal is to be handled (`At`): a handler runs before the
server goes on. `child_completed_signal()` is two steps, between which further children can end. When
it finds no child (an earlier run of it took two at once), `status` is read uninitialized, and the model
takes both outcomes. `Faults` says which calls may fail. The history variables are: `answered`, the
version at the last attempt; `last`, what the last child waited for had to dump; `safe`, the newest
version MOO code was told is dumped; `orderly`, FALSE once a dump began while another was at work or
while the file of a failed rename was left (it is the first thing removed), or once `fclose()` failed.

*What is abstracted.* The content of the dump, the minute's wait before a retry, the log. Builds with
`UNFORKED_CHECKPOINTS`. A failed `remove()` is ignored by the code; it fails here only when there is
nothing to remove. `NeverOlder` counts any whole file, the temporary one included: that is where the
newest database is between `remove()` and `rename()`. `restart.sh` does not look there. If it finds no
file of the dump's own name it starts from the database that the server was started with, and an operator
has to rename the temporary file by hand.

*Fairness.* Every process is scheduled, signals are delivered, and verbs end because they run out of
ticks: weak fairness of the server's next step, of signal handling and of each dump. `RequestHonored`
needs no fairness of requests, changes, failures or timers.

## 5. ObjectTree and VerbCache

*State.* `valid` is the set of numbers whose `objects[oid]` is not null, `num` is `num_objects`, `obj` holds
the links of each object: `parent` and `children` (in the code the list that `child` and `sibling` make),
`location` and `contents` (`contents` and `next`), and the player flag. `all_users` is the list behind
`players()`. `calls` are the frames of `move()` and `recycle()` that wait for a verb: which object, and
where to. In VerbCache, `verbs[o]` is the list of addresses of the `Verbdef`s of an object, `verb` what is
at each address (an address is used again after `db_delete_verb()` freed it), and `vc_table` the cache, by
key and name.

*Actions.* One per built-in function, permission checks left out (they say who may call, not what
happens); each with the database functions it calls. `move()` is either one step or two, `AskAccept` and `Accepted`,
around an `:accept` verb; `recycle()` is `AskRecycle`, any number of `RecycleWaits` (an `:exitfunc` was
called, with the first of the contents or the object itself moved out) and `FinishRecycle`, or just
`Recycle` when no such verb exists. Between them anything may happen, as the verb may call any built-in
or suspend. `Dropped` is every way in which a call is not completed: the verb refuses or raises an error,
its task is killed, or what the call was about is no longer there. VerbCache repeats each action that
changes a parent, a number or a verb with what it does to the cache; `Lookup` is a call of
`db_find_callable_verb()` that misses and fills it.

*Abstraction.* Lists are sets, as no order is promised: what is done to "the first of the contents" is done
to any. Owners, names, other flags and quotas are left out; so are the property values that chparent moves,
and the refusal for properties in conflict. Names of verbs are patterns: a verb answers to a set
of names. The hash and the buckets of the cache are left out; `vc_table` is the mapping they make.
`objects[new]` in `db_set_object_number()` may be read before the array is that long (`db_objects.c:295`);
what is found there decides between the step and nothing. A recycled system object is possible only after
it has been given another number, as in the code.

*Properties.* `LinksAgree`, `Forest`, `UsersExact`, `NoneBeyondLast`; `LookupRight`, which the skipped flush
of `db_change_parent()` (`db_objects.c:522`) makes worth checking: it holds because an entry's key has
verbs of its own, so an object with neither children nor verbs is on no key's way up.

### Properties

*State.* `propdefs[o]` is the sequence of names in the array of that name, `propval[o]` the array of values: first
those for the object's own names, then those for its parent's, and so on. `valid` and `parent` are as in
ObjectTree; the children of an object are taken to be the objects whose parent it is, which is what
`LinksAgree` and `Forest` of ObjectTree, proved there, say.

*Actions.* `AddPropdef`, `DeletePropdef`, `RenamePropdef`, `SetProperty`, `ClearProperty`, `Chparent`, `Create`,
`Recycle`: each built-in with the database functions it calls, down to the shifts of the arrays of all
descendants (`InsertBelow`, `RemoveBelow`, `AfterChparent`). `Find` is `db_find_property()` and `ValueAt` the climb it
makes for a clear value.

*Abstraction.* Owners and permission flags travel in the same array element as the value, and are left out,
as is the choice of owner for an inherited property (`PF_CHOWN`); so are built-in properties, which take no place
in the arrays, permission checks, the lists kept for waifs (module Waifs) and renumbering, which changes no array. A C array read
beyond its end is `Garbage`, and so is a value asked of an object that has no parent; neither ever gets
into a state or out of a read (`ReadsNearest`).

*Properties.* `NamesApart`: no object ever has two properties of one name;
the loop of `recycle()` that moves children to the grandparent rests on it, as it would not end if a
change of parent were refused. `ReadsNearest`. `ValuesKept`: Properties implements PropertyValues, where an object has a
value by name, and keeps it exactly as long as it has the property from the same definer. The
refinement mapping takes the value of a name at the first place of that name in `Layout`, the names along the
parent chain. It is checked as a temporal property, so for every step and not just every state.

### Waifs

*State.* A waif is a value with values of its own, for those properties of its class whose names begin with a
colon. `waif_propdefs[o]` is the address of the list of names of the class `o`, `lists` what is allocated, with the
count of its holders, and `waifs[w]` has the class, the list it shares, `map` (the bits of the first
`Mappable` names that have a value) and `propvals` (those values, then one for every further name).
`propdefs`, `valid` and the links are as in Properties and ObjectTree, which Waifs extends.

*Actions.* Every built-in that changes properties or parents, with what it does to the lists of the object and all
below it: most let go of them, a rename between two such names changes them in place. `NewWaif`, `FreeWaif`, `PutProp`,
and `Look`, any access, which is when a waif is brought up to date (`Updated`, `Transferred` and `Packed` are
`update_waif_propdefs()`). `Restart` is a dump, with the updates that `write_waif()` makes, and a start from it.

*What a reader expects* is in two history variables: `put`, the value put to each property last, and `kept`, the
properties whose value no later change may have lost. A property that is deleted, renamed or taken away by a change of
parents leaves `kept`. Nothing is expected any more of a waif for which a name goes and comes back before it is looked at.

*Abstraction.* Names are compared by address; the model gives equal names equal addresses, as literals of one
verb and strings read from a dump have. Values are atoms: what `refers_to()` refuses is left out, and so are owners and
permissions, the save index of a dump, and a waif for which the code goes through a null pointer has no further step
(`Dies`; section 11). A dump goes through all the same where neither such a waif nor its class has a list (`Overlooked`): nothing of
the waif is written, and it comes back without values. If another waif of the class was written before it, the class has its list by then, and
the waif gets it too (`later` in `Restart`), or the server dies if the waif has values. What does not follow is a start after which an
overlooked waif has more names than `Mappable`: it has no array for the rest, and the code reads past the end of what it has.

## 6. Connections and NetOutput

*State.* `sh[c]` is what is in the `shandle` at the address `c`, and the `nhandle` that goes with it has the same
name; `shandles` and `nhandles` are the two lists, with what is freed taken out. `pc` says which part of the main loop
runs, `at` the variable of its loop over either list, `running` the verb being run with the C function that called it: the
connection that function goes on with, and the saved next one. `told` are the MOO code's own records of who is connected, as
its notifiers (`Hooks`) keep them; `disk` is what a restart makes of the last dump.

*Actions.* `Accept`; the loop of `network_process_io()`, where a connection breaks and `server_close()` runs a
notifier (`Broken`, `ServerCloseEnds`); a task or the login verb (`RunTask`, `LoginEnds`); the loop of `main_loop()` that times out, frees
and boots (`Reap`, `ReapRecycled`, `ReapEnds`); `player_connected()` (`FirstLogin`, `Redirect`, `RedirectEnds`); and what the verb may do
meanwhile: `boot_player()`, `recycle()`, `open_network_connection()`, `reconnect_player()`. `Undefined` is a step in which the code uses what it has
freed, goes through a null pointer, or runs a verb over the activations of its caller.

*Properties.* `NothingUndefined`, `OnePerPlayer`, `ToldOfConnections` (the records agree with the connections between
verbs, also after a crash and a restart). `careless` marks the calls of `reconnect_player()` that the code cannot bear
(`Misused`: of a connection that is being closed, logged in or is saved as the next one, or one for which a notifier runs). They are bugs
(section 11); `NothingUndefined` says that there are no others. `unannounced` are the players about whom
`reconnect_player()` tells nobody, which it does by design when a player's connection is given to another.

*NetOutput.* `output` are the blocks of the queue, `output_length` and `output_lines_flushed` the counters of the code. Any part
of the queue may be taken by `write()`; a report of lost lines goes first, and is repeated from its start if it was cut short. At
`MAX_QUEUED_OUTPUT` the oldest blocks go, one of them perhaps half written: the client then gets the rest of no line, and the line counts as lost.
`EveryLineAccounted`: the client gets every line, or is told how many were lost before it gets another.

*Abstraction.* Three connections, two players and the connections' own negative numbers; two listeners. Connections have no text. Players
are recycled and never made: the number of one that is gone is not given to a new object, which in the code it can be (`renumber()`, or
`create()` after `reset_max_object()`), and the connection of the old player would then be the new one's. The
memory of a freed `shandle` keeps its value until it is allocated again. `user_reconnected` is not among the run's
`Hooks`, since with it every redirection by `reconnect_player()` is careless.

## 7. Programs

*CodeGen* is `code_gen.c`: a tree becomes a sequence of units (an opcode or an operand), with the count of the stack at each.
*Interpreter* is `run()` of `execute.c`: `vm` is a stack of activations, each with its code, `pc`, value
stack, variables and, where a built-in called the verb, the built-in's place (`bi_func_pc`). Each opcode is an action; raising,
returning and being killed unwind through handlers on the stacks and through the built-ins (`unwind_stack()`). `ask()` stands for every
built-in that answers what nobody can foresee: a value, an error, a suspension, after which the task is resumed with a value or an
error, or the end by `kill_task()`. *Values* has what operators make of values. *Decompile* is `decompile.c`: code becomes
a tree again, and the line of a byte is found by decompiling up to it.

*ProgramMeaning* tells what a program means, from its tree: `Run` of a statement or an expression in a state, with what comes out
(a value, an error, a return, a break). `RunsAsWritten` holds the end of every run against it: the values noted in order, how each task ended,
the number of answers used, the one property and the one location that programs change. `StackAsCounted`: no activation's stack is ever
higher than `max_stack`, which is what `execute.h` gives for not checking bounds; in fact it has exactly the height that the code generator had at that place.
`SavedAccepted`: a suspended task is one that `check_pc_validity()` will take at the next start. `DecompilesBack` and `LinesRight`
are about each program's code: the tree comes back (but for hashes of three or more mappings), and every place that can stand in a traceback, or that
`task_stack()` and `queued_tasks()` ask for, has the line of its statement, in the main vector and in the vectors of forks. The byte that is
looked for and the node that was found, `hot_byte` and `hot_node`, are static in `decompile.c`, so the search goes from the main vector into the
bodies of forks by itself: `program_to_tree()` always decompiles the main vector, with `hot_byte` in the vector that was asked about. In
Decompile a place is given by the way to it: the operands of the forks it is in, and its place in the innermost.

*Programs.* They are generated in `MCPrograms`: every kind of compound statement in every other, with a hole that raises, returns, breaks, continues,
asks or falls through; verbs that call verbs directly, through `pass()` and through built-ins (`move()`, which calls `:accept` and `:exitfunc`; `call_function()`), with and
without the `d` flag; and expressions, each kind in each. Where one fails the error is noted, so that the code of the error is compared too:
a comparison or an `in` of an object that has no verb for it (`E_TYPE`), other operators of one (`E_VERBNF`), two objects compared by their
numbers, and `for` over ranges of numbers, of objects, and of ends that do not go together.

*Abstraction.* One owner, who is no wizard, for all verbs; no ticks or seconds (running out is an end like `kill_task()`'s). A
traceback is the error it reports. Operands have one unit whatever their width. Programs keep off what the code gets wrong (section 11): without the `d` flag, a property
of a list and a bad element of a scattered `for`; operators on objects that have a verb for the operator, hash keys other than
integers in an indexed assignment, hashes of three or more mappings, and `$` outside an index. `OffLine`
marks code of which lines are known to be wrong: the stores of nested indexed assignments but the first, and mappings of a hash but the first.

## 8. Runs

| Run | Question | Distinct states |
|---|---|---|
| `tasks_input` | do input, holding, reading, forcing and flushing lose a wakeup or leave input suspended? | 3 065 820 |
| `tasks_background` | are queues, counts, quotas, owners and orders right under forks, kills, logins and reconnections? | 2 091 251 |
| `tasks_restart` | do the queues implement TaskLife through checkpoints and crashes, and is everyone served? | 226 111 |
| `tasks_reconnect` | is a ready task always on a queue that is served? **Violated**, section 11 | |
| `checkpoint` | does the disk never go back, are reports true, is each request answered? | 374 366 |
| `checkpoint_overlap` | does a shutdown leave its database on disk? **Violated**, section 11 | |
| `objects` | do links agree, without cycles, whatever happens while `move()` and `recycle()` wait? do waifs keep their values whatever happens to their classes? | 219 574 |
| `verb_cache` | does a cached lookup find what a direct one finds? | 195 856 |
| `properties` | does each value stay with its property, whatever is added, deleted and given other parents? | 18 782 |
| `connections` | is a handle ever used after it was freed, and are the MOO code's records of connections right? does output account for every line? | 2 259 061 |
| `programs` | does compiled code do what the source says, within its stack, and can it be saved, listed and traced? | 174 237 |
| `programs_lines` | does every place in code have a line? **Violated**, section 11 | |

*Bounds, and why they are enough.* The queue code is symmetric in queues beyond the ones it names: the
one being served, the one logging in, the one being taken from.

- `tasks_input`: one player and one guest number, two queues (the player's own and the connection's), one
  task, two lines of three kinds per queue, lengths that put the queue under, at and over the high-water
  mark of 2. All that a line can do to a queue depends on the reader, the hold flag, whether the queue is
  idle, and whether other lines precede it; two lines give every combination.
- `tasks_background`: two players and a guest, so that a connection can log in on top of another and a
  player can be taken over while he has tasks; two tasks against a quota (`Limit`) of 1, so that the
  limit is reached and passed by merging; the clock may be 0 or 1, so that tasks are due and not due.
- `tasks_restart`: one player and a guest, one task (of which there may also be a copy on disk), one line per queue,
  crashes at every state. Liveness is checked without symmetry. The clock goes from 0 to 2, so that a queue is
  charged, falls behind one that was not, draws level with it and overtakes it, and so that each of two queues may be
  the one left behind when the clock stands still. `EachTaskKept` for more tasks is theorem `TasksAreKept`.
- `checkpoint`: three generations are two checkpoints and the shutdown's dump, the least with which two
  checkpointers overlap each other *and* the shutdown. Requests leave a generation for the shutdown
  (`MoreGens`), or the bound would make a shutdown impossible. Two changes give three versions, one per
  dump.

- `objects`: three objects, the least with a chain of three or a parent of two, and two waiting calls on
  the same or different objects, so that each can undo what the other has checked.
- `verb_cache`: four objects, so that a key, the object whose parent changes, an old and a new ancestor are
  all different; two verbs, so that one can hide another on the same object or on an ancestor; one name,
  since entries of different names never meet. No call waits: locations do not matter to a lookup.

- `properties`: four objects, so that one can move, with a descendant or not, between two parents with an
  ancestor in common or none; two names, so that a position is shifted by the other name, above, below and on
  the same object; two values, so that one put in the place of another is seen. `MCSymmetry` permutes objects,
  names and values.

`MaxTime`, `MaxDrift`, `MaxLines`, `MaxVersion`, `MaxGen`, `MaxOid`, `MaxCalls`, `MaxSent`, `MaxAsks`, and `MaxClass`, `MaxDefs` and
`MaxAge` of `MCObjectTree` are the bounds that the code does not have; each is in the guard of the action that counts. `MCSymmetry` permutes task identifiers, which are
only compared, and queue storage (`CallSymmetry` and `AddressSymmetry` do the same for waiting calls and
addresses of verbs): `find_tqueue()` is given any free storage, and free storage is always
the same value.

Deadlock is not checked: with nothing queued, a bounded clock and no lines left the task model has
nothing to do, after `stopped` or `aborted` the server is gone, as it is after something undefined in Connections, a program ends, and once every object is recycled there is no
verb left to run. In `properties` there is always a step, and deadlock is checked.

## 9. Proofs

**TaskQueuesProofs** proves, for all players, queues, identifiers, kinds of lines, bounds and sets of
built-ins: `TypeCorrect` (`TypeOK`, of which the hard part is that a `tqueue` is on one of the two lists,
once, and that its usage says which), `OneQueue` (`OneQueuePerPlayer`), `ServedHead` (`ServedStaysAtHead`),
`ListsInOrder` (`Ordered`) and `SuspendedResumes` (`SuspendedInputResumes`). The argument is one induction over
`IInv == Sound(queues) /\ TypesButQueues /\ RunOK`, where `Sound` has the types, one queue per player, the order
of usage and the resuming of input.
None of it is inductive alone: `run_ready_tasks()` unlinks the queue it serves with
`active_tqueues = tq->next`, which is right only if that queue is still the head although MOO code ran,
and `RunOK` says so; it also says that a connection being closed, and the queue logging in, still exist.
The head stays the head because whatever a built-in activates is inserted behind all queues of the same
or a smaller usage, which in turn needs the order. The lemmas go up from inserting in a sequence, over each helper of
`tasks.c`, to "leads": a step of any number of such helpers keeps the lists sound and the head in place.

Its second half has what needs more of the state than the two lists.

- `WakeupsKept` (`NoLostWakeup`): an idle queue has nothing to do. Next to `IInv` the induction needs
  `CalmInv == Calm(queues) /\ TasksOfUsers`: only users' queues have ready tasks, or a login would take over tasks with
  a queue it does not activate. There are two hypotheses. No task calls `reconnect_player()`: with it the
  property is false, which is the finding of `tasks_reconnect`. Every task's permissions are a user's
  (`Programmer \subseteq User`): a task with those of a connection's negative number would be left in an idle queue at its login.
- `TasksCounted` (`BgCounted`), `ReadyTasksOwned` (`ReadyTaskOfOwner`) and `QuotaKept` (`QuotaRespected`), from
  `CountInv == Counted(queues, waiting) /\ ext = <<>>`: a queue's tasks are its player's, their number and that of the
  player's waiting tasks is `num_bg_tasks`, which is at most the limit, and whoever has a waiting task has a queue to count it.
  `Without(v, w, k)`, "v is w without its k-th element", says what each change of a list does to the counts.
  The hypothesis is that no task calls `read_stdin()`, whose tasks are queued uncounted (section 11). `reconnect_player()` is
  allowed.

**TaskPersistenceProofs** proves `TasksAreKept`: PSpec implies `EachTaskKept`, that is, the queues with checkpoints, crashes and
restarts implement TaskLife. The mapping `LifeOf` is told from `Where`, which has for each of the five places the tasks that are
there (`LifeIsWhere`). The invariant is `KeptInv == IInv /\ CalmInv /\ LifeInv /\ Listed(disk)`:
`LifeInv` says that the places have no task in common, that no list has a task twice (`Listed`, `Apart`), that storage not in use
has no task (`NoneOutside`: a queue that is freed took none with it), and when a run may have a task.

- A step of the queues does one of seven things to `Where` (`LifeStep`): nothing, or one task goes from one place to another, or
  comes, or is gone, with what TaskLife asks of `pc`. `Keeps` says of the helpers of `tasks.c` that queues, lines and usage
  change and no task moves; `TasksMoved` that a login or `reconnect_player()` moves ready tasks between queues, and not between places.
- A checkpoint writes `Ids(waiting)` and `ReadyIds(queues)`, each task once (`WrittenIs`). It looks at active queues only,
  so this needs `Calm`: an idle queue has no ready task.
- A restart finds each task of the file in `waiting`, and no other anywhere (`RestartIsCrash`). The queues it makes are `Bare`.

The loops over tasks are functions on `0..Len(tasks)`; `StepByStep` (Facts) says that there is such a function, and `CountingUp` that
what each turn keeps holds at the end. Three hypotheses: no task calls `reconnect_player()` and tasks have users' permissions, as for
`WakeupsKept` (a checkpoint misses the ready tasks of an idle queue), and there is storage for a queue for each programmer
(`Cardinality(Programmer) <= Cardinality(Queue)`), since `read_task_queue()` makes queues without a guard: `malloc()` does not fail.

**CheckpointProofs** proves, for every set of failures and every number of versions and generations:
`TypeCorrect`, `DumpIsWritten` (`DumpWritten`), `DiskNeverOlder` (`NeverOlder`), `CheckpointIsAhead` (`CheckpointAhead`),
`ShutdownFlushesIfAlone` (`ShutdownFlushesAlone`) and `ReportIsTrue` (`ReportTrue`). The induction is over
`IInv == TypeOK /\ FileOfStep /\ DumpWritten /\ NotNewer /\ InOrder`. `DumpWritten` needs `FileOfStep`: how far
a dump is says what its temporary file can hold, which holds however dumps overlap because each temporary
name has one writer and a removal only ever leaves "no file". `NeverOlder` needs `InOrder`: as long as no
dump began before the last was over, only the last generation is at work, nobody took its file, and the
dump file it is about to remove is not newer than its own. `NotNewer` bounds both by the version in memory.
The step proof has one case per system call; `OneDumpSteps` reduces each to what it does to its own file.
The shutdown needs `ServerDump`: the server itself has at most the last dump at work, of the version in memory.
The report needs `ReportInv`: as long as dumps are orderly there is at most one child, at work or with its signal waiting, so that
the status the handler finds is the right one, and a version on disk is replaced only by a newer one (`NoneOlder`).

**ObjectTreeProofs** proves, for any numbers of objects and waiting calls and any verbs to wait for:
`TypeCorrect` (`TypeOK`), `BothEndsAgree` (`LinksAgree`), `NoCycles` (`Forest`), `UsersListed` (`UsersExact`)
and `NumbersAreNew` (`NoneBeyondLast`). The induction is over
`IInv == TypeOK /\ Sound(obj, valid) /\ UsersExact /\ NoneBeyondLast`, where `Sound` is that the links agree and
are acyclic on all numbers. The forest is not inductive alone: `recycle()` and `renumber()` find the objects
whose links they change through the other ends, and `create()` is safe because no walk up leaves the
objects there are. A walk is defined by the sets closed upwards, so acyclicity is shown by giving such a
set (`AcyclicBy`), for each of the ways links change: one object goes elsewhere (`Relinked`), links are cut
or skip an object (`Shortened`), an object takes a free number (`RenamedLinks`). `db_reset_last_used_objid()`
and the search of `renumber()` need a greatest and a least number, which come from the well-foundedness of
strict inclusion (`Least`, `Greatest`). Every function of `db_objects.c` then has a lemma that says what it does
to sound links, and every built-in one that it keeps `IInv`.

A further part proves `LookupsRight` (`LookupRight`) of VerbCache on top of the forest: `VInv == IInv /\ VerbsOfValid /\ CacheRight`,
where `CacheRight` says that each entry is kept under an object with verbs (the first such on the way up) and has what
the walk from there finds. So a change to an object with no verbs and no children, which leaves the cache alone, cannot make
an entry wrong: no way up from an object with verbs leads through it.

**WaifsProofs** first proves `ListsKept` (`ListsCurrent`), for any finite set of waifs and any names and values, by
`WInv == IInv /\ WaifsRight(valid, Parent, propdefs, Memory)`, which adds three things to the sound links:

- `Names0`: no object defines a name that an object above it defines (`NamesOnce`), and a number without an object has no names. Without it
  a rename would change in a list the first of two equal names, which may be the other object's.
- `MemOK`: the count of each list is the number of its holders, and no two objects hold one list (`OneEach`). So a free address is there
  whenever `gen_waif_propdefs()` needs one, since addresses are as many as possible holders; and a list freed is a list that nothing holds.
- `CurrentIn`: a list that an object holds has the names that the object and those above it define, in that order.

Each helper of `waif.c` has a lemma on what it does to `MemOK` and to the lists that objects hold; so a dump and a restart keep the invariant
whatever the values are, and whichever waifs are overlooked. A change of properties or parents changes the names of the objects at or below one object only (`Below`), and
these are the ones that let go of their lists. Renaming in place needs that renaming each list is listing the renamed names, and a renumbering that the list
goes with the object.

Its second theorem is `ValuesOfWaifsKept` (`WaifsKeepValues`): a waif has for every property what was put to it last, or a clear value where
a reader may expect no more. `KInv` adds to `WInv` that no object has a name twice (`EachOnce`) and three things of each waif:

- `ValuesRight`: its values are as many as its map and the length of its list ask for (`Fits`), and the value of the i-th name of the list *it holds*, which
  may be of long ago, is the one put to that name, or clear if the name is not in `kept`. Names it does not list have none.
- `KeptRight`: the names in `kept` are in its list and still among those of its class, and while there are any, the names that its list and the class
  have in common come in the same order. `WaifsKeepValues` looks at the waif after an update that has not been made yet; this is what that
  update needs, however many changes of properties and parents lie in between.
- `OwnList`: while something is kept, no object but the class holds the waif's list. A rename in place changes a list under the waifs that
  hold it; so it must be the class that was renamed for.

The first half of the argument is about `update_waif_propdefs()` alone, for lists of any lengths. A value has the place `Rank(map, i)`, the number
of names up to the i-th with a place; what `Packed` puts there is found there again (`PackedHas`). The loop of `Transferred` keeps `WalkOK`
from one new name to the next (`WalkGoesOn`): the pointer into the old values has passed those of the old names passed over, and every name so far has its
old value, or is clear because it is new or came in another order (`FromOld`). Without the same order that is all there is, and values are lost but
never mixed up (`TransferredHas`). The second half is about what keeps the order. The names of an object are those of its ancestors, each after those of the one
below it; `Comes` says it of any two names without the list (`JoinedOnce` puts two lists together), so that a change of one object, or of one link, moves no name of another object
past a third. Then there is a lemma for each built-in on what becomes of `kept` and of the names of the class, and one for the waif that is written
and read: its list is made anew with the same names. A waif that is overlooked (`OverlookedRead`) had no names, so nothing is expected of it; one written
after its class got a list (`LookedLater`) is like one that is looked at then.

**PropertiesProofs** proves `NamesStayApart` (`NamesApart`), `ReadsAreRight` (`ReadsNearest`) and `ValuesAreKept` (`ValuesKept`,
that Properties implements PropertyValues), for any objects, names and values. Its lines of ancestors, positions and values are told from the parent's (`FromParents`, `ToldFromParents`), which needs that
climbing ends (`Founded`) and that this survives every change of parents (`Relinked`, `Unlinked`). `NamesInv` adds to
`NamesApart` that nothing is linked to an object that is gone, and that such an object has no names: `create()` takes its number
as it is. `ReadsNearest` needs `OwnSet`: the value at the place of a property that an object defines itself is never clear, because
`clear_property()` refuses the definer and every shift of an array keeps the object's own places in front.

The refinement maps the arrays to values by object and name (`Defines`, `OwnValues`), and needs `ArraysInv`: each array has one value
for every name of its object and no more. What ties arrays to names is arithmetic: the name m of an ancestor d has in the array of
x the place `Room(x) - Room(d) + IndexOf(d, m)`, where `Room` is the number of properties of an object (`Place`, `LayoutIs`). For each built-in
function there is a lemma on what becomes of the rooms (`RoomWith`, `RoomMoved`, `RoomWithout`) and with it of the places: below an
object that gets or loses a name, the places of names from below it stay and the others move by one (`Sides`); `fix_props()`
keeps what comes before the object that moved, drops and adds what the two ancestries do not have in common, and copies the rest
(`Moved`, `MovedCarried`); recycling an object is that for each of its children. So each slot that is left has the value that
its name had (`Carried`), which is what PropertyValues asks of every step (`AllKept`, `ArraysNext`). The refinement needs no
assumption but that the markers are no values.

**NetworkProofs** proves, for any number of connections, players and listeners: `OneConnectionEach` (`OnePerPlayer`),
`HandlesAreThere` (`NothingUndefined`) and `RecordsAreRight` (`ToldOfConnections`). `HInv` has what the two lists say of
each other and of who runs (`Handles`, `RunningOK`, `AtOK`). `Unbroken` adds that the connections which C functions hold
while a verb runs are still open, and `RecordsOK` what the records are in the middle of a notifier: the player it is
about to tell of is the only one of whom they may differ (`Awaited`). The last two theorems assume that the option
`keep_unconnected_seconds` is not set, with which they are false (section 11), and the last one that the MOO code has the three notifiers that tell
of logins and ends.

Its last part proves `LinesAccounted` (`EveryLineAccounted`), for any limit and lengths of lines. In `OInv`, `Right`
says that the waiting blocks are the last lines taken, that the lines before them are accounted for or counted as lost, and that
the length is the sum of what is left. `Limited` and `Reported` say when the queue may be longer than the limit and that a
count of lost lines always has a block after it, so that it comes to be reported.

**Facts** has the lemmas that several of these use: least and greatest numbers, sums,
what is built step by step, lists with an element put in or taken out.

The assumptions are the ones the modules name (`ParametersAssumption`, `MaxOidAssumption`, `AddressAssumption`, `OutputAssumption`,
`WaifAssumption`: waifs are finitely many and are no numbers, the markers are no values, and `Null` is no address of a list or of an array of values),
which TLC evaluates in every run, and the hypotheses above, which the theorems state.

## 10. Only model-checked, and not modelled

*Only model-checked.* All liveness (`ReaderResumed`, `ReadyTaskServed`, `EmptyQueueDestroyed`,
`RequestHonored`): proofs of liveness under fairness are out of the prover's reach. RunsAsWritten and the other
properties of programs: the modules recurse over trees of any depth, which needs induction over data.
These are `RunsAsWritten`, `StackAsCounted`, `SavedAccepted`, `DecompilesBack` and `LinesRight`.

*Not modelled.* The parts whose status in `PROJECT.json` is `not_modelled`, with the reason there: timers, the name lookup
process, the wrappers, clients and vendored libraries; and of the parts that are `partly` modelled what their notes say.

## 11. Findings

1. **A ready task on an idle queue** (`tasks_reconnect`, `src/tasks.c:614`). `reconnect_player()` and logins
   move ready tasks to a queue that they do not activate. Nothing runs the tasks, and `kill_task()`,
   `queued_tasks()` and the checkpoint do not see them, until something else activates the queue.
2. **A shutdown without a dump** (`checkpoint_overlap`, `src/db_file.c:556`). `db_shutdown()` does not wait
   for a checkpointer. The shutdown's dump removes the temporary file of the checkpointer, which, when its
   turn comes, removes the dump the shutdown has written and has nothing to rename; or its older
   database replaces the shutdown's.
3. **A traceback that stops the server** (`programs_lines`, `src/decompile.c:867`). In a scattered `for`, the code
   of a default has no line, and looking for one panics.

Met while modelling, and not a run of their own; the models keep off them where they would hide other things.

- *Tasks.* A task resumed by `read_stdin()` is not counted, but running it decrements the count
  (`tasks.c:930`); `BgCounted` fails in an instance with such a task. The built-in is an example
  (`extensions.c:33`), compiled in by default. A queue that was charged a second can be starved by one whose tasks cost
  nothing and keep coming (`tasks.c:159`, `1101`): with `MaxTime` above 0 TLC refutes `ReaderResumed`, `ReadyTaskServed` and
  `EmptyQueueDestroyed` without their condition, so a reader of a closed connection is not always "eventually" resumed,
  as `tasks.c:667` has it, nor an empty queue always destroyed (`tasks.c:98`).
- *Dumps.* What `fclose()` reports is not looked at (`db_file.c:609`): a short file may replace the dump. A report of a
  checkpoint is lost if the child ends while the notifier of an earlier one runs (`server.c:493`), and
  `child_completed_signal()` may read `status` uninitialized.
- *Objects.* `recycle()` and `move()` go on with an object's *number* after a verb, by which time another object may have
  it (`objects.c:549`), and permissions were checked on the first.
- *Connections.* `reconnect_player()` (`server.c:2070`) runs notifiers at once, over the activations of the verb that called it
  (`do_server_program_task()` sets `top_activ_stack` to 0): the caller cannot go on. Called from a notifier or a login verb for the connection
  that is being closed or logged in, or for the one that the C loop under it has saved, it frees what that loop
  then uses (`server.c:518`, `1047`, `net_multi.c:644`). With the option `keep_unconnected_seconds` the first login of a player reads through
  a null pointer (`server.c:1078`; `NothingUndefined` fails with `KeepSeconds = TRUE`), and `existing_h->listener` is read after it was freed (`1102`).
- *Interpreter.* An operator on objects that have a verb for it (`execute.c:1122` to `1530`) is pushed a result beside the call: the stack goes beyond
  what was counted, and a task that suspends in such a verb makes the next start refuse the database (`execute.c:3389`);
  `StackAsCounted` and `SavedAccepted` fail with the family `operators` of `MCPrograms`. Without the `d` flag, a property of a list pushes two
  values, and a bad element of a scattered `for` replaces the count by the error. An assignment to an index of a hash tests the key as if it were an integer.
  `utf8_strrangeset()` and `OP_REF` count bytes where others count characters. The decompiler loses mappings of a hash of three or more, and
  the lines of nested indexed assignments are wrong but for the first store.
- *Waifs.* A waif whose class was recycled, and the number then given to a new object, is taken to be up to date when both have no list (`waif.c:397`):
  the next access goes through a null pointer. Written to a dump in that state, it comes back with an array of no values; if its class has more than
  `N_MAPPABLE_PROPS` names, the values of the rest are read past the end of that (`write_waif()`, `waif.c:835`; `read_waif()`, `948`).
  The dump of a shutdown that is tried again writes maps that the first attempt has overwritten
  (`structures.h:114`, `db_file.c:599`). `refers_to()` (`waif.c:216`) does not look into hashes, so a waif can contain itself through one. A name deleted and added
  again with the same string is taken for the same name, against the comment at `waif.c:441`, and neighbours may lose their values. The loss of
  values after a rename is a bug the code documents (`waif.c:137`).
