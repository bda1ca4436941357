----------------------------- MODULE Checkpoint -----------------------------
(***************************************************************************)
(* Checkpoints, shutdown and panic (server.c, db_file.c).  The main loop   *)
(* answers a request by forking a checkpointer, which writes the database  *)
(* as it was at the fork to a temporary file and puts that in the place of *)
(* the dump file; SIGCHLD tells the server how it ended.  Shutdown writes  *)
(* the dump in the server's own process.  Each system call is a step.      *)
(*                                                                         *)
(* There is no step for a crash of the machine: what a restart would find  *)
(* is "disk" in any state, and the properties speak of every state.        *)
(***************************************************************************)
EXTENDS Integers

CONSTANTS
    Faults,      \* the calls that may fail, and panics of checkpointers
    MaxVersion,  \* bound on the changes to the database
    MaxGen       \* bound on dump_generation

ASSUME ParametersAssumption ==
    /\ Faults \subseteq {"fork", "open", "write", "panic", "close", "rename"}
    /\ MaxVersion \in Nat /\ MaxGen \in Nat \ {0}

VARIABLES
    pc,         \* where the server is, in main_loop() or after it
    version,    \* the database in memory, as the number of its changes
    requested,  \* checkpoint_requested # CHKPT_OFF
    timer,      \* is the checkpoint timer set?
    shutdown,   \* shutdown_message # 0
    gen,        \* dump_generation
    dumper,     \* the process that writes each generation
    disk,       \* the files of the database
    sigchld,    \* is a SIGCHLD pending?
    handling,   \* is child_completed_signal() running?
    finished,   \* checkpoint_finished: 1 = failure, 2 = success
    answered,   \* history: the version at the last attempt at a checkpoint
    last,       \* history: the version that the last child waited for had to dump
    safe,       \* history: the newest version reported as dumped
    orderly       \* history: no dump began before the last was over, or was cut short

asked == <<requested, timer, shutdown>>
signals == <<sigchld, handling, finished>>
history == <<answered, last, safe, orderly>>
vars == <<pc, version, asked, gen, dumper, disk, signals, history>>

Version == 0..MaxVersion
Gen == 1..MaxGen

\* A whole file is the version it holds.  A short one lost its last lines, which
\* were still buffered, when it was closed.
NoFile == -1
Partial == -2
Short == -3
File == Version \cup {NoFile, Partial, Short}

Working == {"open", "write", "remove", "rename"}
Exited == {"ok", "bad"}
Over == {"none", "reaped", "done", "failed", "retried"}
AtWork == {g \in Gen : dumper[g].step \in Working}

\* MOO code runs: verbs and tasks change the database.
Verbs == {"started", "refused", "report", "rest"}
MainLoop == {"top", "flush", "timer", "check"} \cup Verbs

Init ==
    /\ pc = "top" /\ version = 0
    /\ requested = FALSE /\ timer = TRUE /\ shutdown = FALSE
    /\ gen = 0
    /\ dumper = [g \in Gen |-> [step |-> "none", version |-> 0, child |-> FALSE]]
    /\ disk = [dump |-> NoFile, panic |-> NoFile, temp |-> [g \in Gen |-> NoFile]]
    /\ sigchld = FALSE /\ handling = FALSE /\ finished = 0
    /\ answered = 0 /\ last = 0 /\ safe = 0 /\ orderly = TRUE

\* A signal is handled before the server goes on.
At(place) == pc = place /\ ~sigchld /\ ~handling
Goto(place) == pc' = place

(***************************************************************************)
(* Requests.  Each leaves a generation for the shutdown.                   *)
(***************************************************************************)
MoreGens == gen + (IF pc \in {"started", "flush"} THEN 2 ELSE 1) < MaxGen

\* dump_database(), or SIGUSR2, which may come at any time
Request ==
    /\ pc \in MainLoop /\ ~requested /\ MoreGens
    /\ requested' = TRUE
    /\ UNCHANGED <<pc, version, timer, shutdown, gen, dumper, disk, signals, history>>

TimerFires ==
    /\ pc \in MainLoop /\ timer /\ (requested \/ MoreGens)
    /\ requested' = TRUE /\ timer' = FALSE
    /\ UNCHANGED <<pc, version, shutdown, gen, dumper, disk, signals, history>>

\* shutdown(), or SIGTERM
RequestShutdown ==
    /\ pc \in MainLoop /\ ~shutdown /\ shutdown' = TRUE
    /\ UNCHANGED <<pc, version, requested, timer, gen, dumper, disk, signals, history>>

Change ==
    /\ pc \in Verbs /\ version < MaxVersion /\ version' = version + 1
    /\ UNCHANGED <<pc, asked, gen, dumper, disk, signals, history>>

(***************************************************************************)
(* dump_database_to(), system call by system call.  Temporary files are    *)
(* named by generation, so each name has one writer.                       *)
(***************************************************************************)
\* The last dump is over, and its rename did not fail.
LastOver == AtWork = {} /\ (gen = 0 \/ disk.temp[gen] < 0)

\* The previous temporary file goes, even if it is being written.
WithoutPrevious_Dump == [disk EXCEPT !.dump = NoFile]
WithoutPrevious == IF gen = 0 THEN disk ELSE [disk EXCEPT !.temp[gen] = NoFile]

StartDump_SameGen(isChild) ==
    /\ gen < MaxGen
    /\ gen' = gen /\ disk' = WithoutPrevious
    /\ dumper' = [dumper EXCEPT ![gen + 1] =
                     [step |-> "open", version |-> version, child |-> isChild]]
    /\ orderly' = (orderly /\ LastOver)
StartDump(isChild) ==
    /\ gen < MaxGen
    /\ gen' = gen + 1 /\ disk' = WithoutPrevious
    /\ dumper' = [dumper EXCEPT ![gen + 1] =
                     [step |-> "open", version |-> version, child |-> isChild]]
    /\ orderly' = (orderly /\ LastOver)

\* Process g is about to make the call; the server is one of them.
About(g, call) == dumper[g].step = call /\ (dumper[g].child \/ At("dumping"))
SetStep(g, step) == dumper' = [dumper EXCEPT ![g].step = step]

NextCall(g, call) ==
    SetStep(g, call) /\ UNCHANGED <<pc, version, asked, gen, signals, history>>

\* A checkpointer exits with !success; db_shutdown() ignores it and returns.
ExitStatus_Swapped(success) == IF success THEN "bad" ELSE "ok"
ExitStatus(success) == IF success THEN "ok" ELSE "bad"
Exits(g, success) ==
    /\ dumper[g].child
    /\ SetStep(g, ExitStatus(success)) /\ sigchld' = TRUE
    /\ UNCHANGED <<pc, version, gen, handling, finished, history>>
Ends(g, success) ==
    \/ Exits(g, success) /\ UNCHANGED asked
    \/ /\ ~dumper[g].child
       /\ SetStep(g, IF success THEN "done" ELSE "failed") /\ Goto("stopped")
       /\ UNCHANGED <<version, asked, gen, signals, history>>

OpenTemp(g) ==
    /\ About(g, "open") /\ NextCall(g, "write")
    /\ disk' = [disk EXCEPT !.temp[g] = Partial]
OpenFails(g) ==
    /\ About(g, "open") /\ "open" \in Faults
    /\ Ends(g, FALSE) /\ UNCHANGED disk

\* What is written to a file that was removed meanwhile is lost.
Write(g) ==
    /\ About(g, "write") /\ NextCall(g, "remove")
    /\ disk' = IF disk.temp[g] = NoFile THEN disk
               ELSE [disk EXCEPT !.temp[g] = dumper[g].version]

\* What fclose() says is not looked at.
CloseFails(g) ==
    /\ About(g, "write") /\ "close" \in Faults
    /\ SetStep(g, "remove") /\ orderly' = FALSE
    /\ disk' = IF disk.temp[g] = NoFile THEN disk ELSE [disk EXCEPT !.temp[g] = Short]
    /\ UNCHANGED <<pc, version, asked, gen, signals, answered, last, safe>>

\* The disk is full: a checkpoint is abandoned, a shutdown tries again.
WriteFails_Continue(g) ==
    About(g, "write") /\ "write" \in Faults /\ NextCall(g, "remove") /\ UNCHANGED disk
WriteFails_GiveUp(g) ==
    /\ About(g, "write") /\ "write" \in Faults
    /\ disk' = [disk EXCEPT !.temp[g] = NoFile]
    /\ \/ Exits(g, FALSE) /\ UNCHANGED asked
       \/ /\ ~dumper[g].child /\ SetStep(g, "retried") /\ Goto("stopped")
          /\ UNCHANGED <<version, asked, gen, signals, history>>
WriteFails(g) ==
    /\ About(g, "write") /\ "write" \in Faults
    /\ disk' = [disk EXCEPT !.temp[g] = NoFile]
    /\ \/ Exits(g, FALSE) /\ UNCHANGED asked
       \/ /\ ~dumper[g].child /\ gen < MaxGen /\ SetStep(g, "retried") /\ Goto("down")
          /\ UNCHANGED <<version, asked, gen, signals, history>>

\* A checkpointer that panics shuts the server down.
ChildPanics(g) ==
    /\ dumper[g].step = "write" /\ "panic" \in Faults
    /\ Exits(g, FALSE) /\ shutdown' = TRUE
    /\ UNCHANGED <<requested, timer, disk>>

RemoveDump(g) ==
    /\ About(g, "remove") /\ NextCall(g, "rename")
    /\ disk' = [disk EXCEPT !.dump = NoFile]

Rename(g) ==
    /\ About(g, "rename") /\ disk.temp[g] # NoFile
    /\ disk' = [disk EXCEPT !.dump = disk.temp[g], !.temp[g] = NoFile]
    /\ Ends(g, TRUE)
RenameFails(g) ==
    /\ About(g, "rename") /\ (disk.temp[g] = NoFile \/ "rename" \in Faults)
    /\ Ends(g, FALSE) /\ UNCHANGED disk

Dumps(g) ==
    \/ OpenTemp(g) \/ OpenFails(g) \/ Write(g) \/ CloseFails(g) \/ WriteFails(g)
    \/ ChildPanics(g) \/ RemoveDump(g) \/ Rename(g) \/ RenameFails(g)

(***************************************************************************)
(* child_completed_signal()                                                *)
(***************************************************************************)
Alive == pc \notin {"stopped", "aborted"}

HandleSigchld ==
    /\ Alive /\ sigchld /\ ~handling
    /\ sigchld' = FALSE /\ handling' = TRUE
    /\ UNCHANGED <<pc, version, asked, gen, dumper, disk, finished, history>>

\* Children are waited for in any order and the last one's status counts; if
\* there is none, "status" is read uninitialized.
Children == {g \in Gen : dumper[g].step \in Exited}
WaitForChildren ==
    /\ Alive /\ handling
    /\ dumper' = [g \in Gen |-> IF g \in Children THEN [dumper[g] EXCEPT !.step = "reaped"]
                                ELSE dumper[g]]
    /\ \/ \E g \in Children :
              /\ finished' = IF dumper[g].step = "ok" THEN 2 ELSE 1
              /\ last' = dumper[g].version
       \/ Children = {} /\ finished' \in {1, 2} /\ UNCHANGED last
    /\ handling' = FALSE
    /\ UNCHANGED <<pc, version, asked, gen, disk, sigchld, answered, safe, orderly>>

(***************************************************************************)
(* main_loop(), one round from "top" to "rest"                             *)
(***************************************************************************)
BeginCheckpoint ==
    /\ At("top") /\ ~shutdown /\ requested
    /\ requested' = FALSE /\ Goto("started")
    /\ UNCHANGED <<version, timer, shutdown, gen, dumper, disk, signals, history>>

NoCheckpoint ==
    /\ At("top") /\ ~shutdown /\ ~requested /\ Goto("check")
    /\ UNCHANGED <<version, asked, gen, dumper, disk, signals, history>>

\* db_flush(FLUSH_ALL_NOW)
Fork ==
    /\ At("flush") /\ StartDump(TRUE)
    /\ answered' = version /\ Goto("timer")
    /\ UNCHANGED <<version, asked, signals, last, safe>>
ForkFails ==
    /\ At("flush") /\ "fork" \in Faults /\ gen < MaxGen
    /\ gen' = gen + 1 /\ disk' = WithoutPrevious
    /\ answered' = version /\ orderly' = (orderly /\ LastOver) /\ Goto("refused")
    /\ UNCHANGED <<version, asked, dumper, signals, last, safe>>

SetTimer_ClearRequest ==
    /\ At("timer") /\ timer' = TRUE /\ requested' = FALSE /\ Goto("check")
    /\ UNCHANGED <<version, shutdown, gen, dumper, disk, signals, history>>
SetTimer ==
    /\ At("timer") /\ timer' = TRUE /\ Goto("check")
    /\ UNCHANGED <<version, requested, shutdown, gen, dumper, disk, signals, history>>

\* :checkpoint_finished() is called with what the last child waited for reported.
Report ==
    /\ At("check") /\ finished # 0 /\ Goto("report")
    /\ safe' = IF finished = 2 THEN last ELSE safe
    /\ UNCHANGED <<version, asked, gen, dumper, disk, signals, answered, last, orderly>>

NoReport ==
    /\ At("check") /\ finished = 0 /\ Goto("rest")
    /\ UNCHANGED <<version, asked, gen, dumper, disk, signals, history>>

AfterVerb_NoTimer(verb) ==
    CASE verb = "started" -> "flush" [] verb = "refused" -> "check"
      [] verb = "report" -> "rest" [] verb = "rest" -> "top"
AfterVerb(verb) ==
    CASE verb = "started" -> "flush" [] verb = "refused" -> "timer"
      [] verb = "report" -> "rest" [] verb = "rest" -> "top"
VerbEnds ==
    /\ \E verb \in Verbs : At(verb) /\ Goto(AfterVerb(verb))
    /\ finished' = IF pc = "report" THEN 0 ELSE finished
    /\ UNCHANGED <<version, asked, gen, dumper, disk, sigchld, handling, history>>

LeaveLoop ==
    /\ At("top") /\ shutdown /\ Goto("down")
    /\ UNCHANGED <<version, asked, gen, dumper, disk, signals, history>>

\* db_shutdown()
Shutdown ==
    /\ At("down") /\ StartDump(FALSE) /\ Goto("dumping")
    /\ UNCHANGED <<version, asked, signals, answered, last, safe>>

\* panic(), from a signal at any time, db_flush(FLUSH_PANIC) and abort()
Panic ==
    /\ Alive /\ pc # "panic" /\ Goto("panic")
    /\ disk' = WithoutPrevious
    /\ dumper' = [g \in Gen |-> IF g \in AtWork /\ ~dumper[g].child
                                THEN [dumper[g] EXCEPT !.step = "failed"] ELSE dumper[g]]
    /\ orderly' = (orderly /\ LastOver)
    /\ UNCHANGED <<version, asked, gen, signals, answered, last, safe>>
PanicDump ==
    /\ pc = "panic" /\ Goto("aborted")
    /\ \/ disk' = [disk EXCEPT !.panic = version]
       \/ "open" \in Faults /\ UNCHANGED disk
    /\ UNCHANGED <<version, asked, gen, dumper, signals, history>>

-----------------------------------------------------------------------------
Outside == Request \/ TimerFires \/ RequestShutdown \/ Change \/ Panic
Signal == HandleSigchld \/ WaitForChildren
Main ==
    \/ BeginCheckpoint \/ NoCheckpoint \/ Fork \/ ForkFails \/ SetTimer
    \/ Report \/ NoReport \/ VerbEnds
    \/ LeaveLoop \/ Shutdown \/ PanicDump

Next == Outside \/ Signal \/ Main \/ \E g \in Gen : Dumps(g)

\* Each process goes on, signals are delivered, and verbs end.
Fairness == WF_vars(Main) /\ WF_vars(Signal) /\ \A g \in Gen : WF_vars(Dumps(g))

Spec == Init /\ [][Next]_vars /\ Fairness

-----------------------------------------------------------------------------
Dumper == [step : Working \cup Exited \cup Over, version : Version, child : BOOLEAN]

\* Every variable holds a value of its type, and generations are used in
\* order: one that is still to come has neither a process nor a file.
TypeOK ==
    /\ pc \in MainLoop \cup {"down", "dumping", "stopped", "panic", "aborted"}
    /\ {version, answered, last, safe} \subseteq Version
    /\ {requested, timer, shutdown, orderly} \subseteq BOOLEAN
    /\ gen \in 0..MaxGen
    /\ dumper \in [Gen -> Dumper]
    /\ disk \in [dump : File, panic : File, temp : [Gen -> File]]
    /\ sigchld \in BOOLEAN /\ handling \in BOOLEAN /\ finished \in 0..2
    /\ \A g \in Gen : g > gen => dumper[g].step = "none" /\ disk.temp[g] = NoFile

\* The dump file is never one that is still being written, or was given up,
\* whatever calls failed, however dumps overlap.
DumpWritten == disk.dump # Partial

Files == {disk.dump, disk.panic} \cup {disk.temp[g] : g \in Gen}
OnDisk(v) == \E f \in Files : f >= v

\* What can be found on disk never gets older: whichever call a crash comes
\* after, some whole file is at least as new as any there was before.  (Not so
\* when dumps overlap or are cut short.)
NeverOlder == [][orderly' => \A v \in Version : OnDisk(v) => OnDisk(v)']_vars

\* A version that :checkpoint_finished(1) told the MOO code of is on disk.
ReportTrue == orderly /\ safe # 0 => OnDisk(safe)

\* checkpoint_requested is cleared before a dump and never after it: whoever
\* asks for a checkpoint, at any moment of another one, gets an attempt at
\* dumping the database as he left it, or the server stops.
RequestHonored ==
    \A v \in Version : (requested /\ version = v) ~> (answered >= v \/ pc \notin MainLoop)

\* The server always has its next checkpoint coming, even after a failure.
CheckpointAhead ==
    pc \in MainLoop => timer \/ requested \/ pc \in {"started", "flush", "refused", "timer"}

\* "... flushing all pending database changes to disk and only returning
\* after this is done" (db_shutdown(), db.h): after a shutdown, when every
\* process has ended, the dump file is the last version, save for a dump
\* that could not be opened or renamed.
ShutdownFlushes ==
    pc = "stopped" /\ AtWork = {} => disk.dump = version \/ dumper[gen].step = "failed"

\* It is so when the last checkpointer was over before the shutdown.
ShutdownFlushesAlone == orderly => ShutdownFlushes
=============================================================================
