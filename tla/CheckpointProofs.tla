-------------------------- MODULE CheckpointProofs --------------------------
(***************************************************************************)
(* Proofs about Checkpoint, for every set of faults and every bound.       *)
(***************************************************************************)
EXTENDS Checkpoint, TLAPS

\* How far a dump is says what its temporary file can hold.
FileOfStep ==
    \A g \in Gen :
        /\ dumper[g].step \in {"none", "open"} => disk.temp[g] = NoFile
        /\ dumper[g].step = "write" => disk.temp[g] \in {NoFile, Partial}
        /\ dumper[g].step \in {"remove", "rename"} => disk.temp[g] # Partial

\* Nothing on disk is newer than the database.
NotNewer ==
    /\ disk.dump <= version /\ disk.panic <= version
    /\ \A g \in Gen : disk.temp[g] <= version /\ dumper[g].version <= version

\* When all is in order only the last generation is at work, no file of its
\* own was taken from it, and it will replace an older dump.
InOrder ==
    orderly => \A g \in AtWork :
        /\ g = gen /\ disk.dump <= dumper[g].version
        /\ dumper[g].step = "write" => disk.temp[g] = Partial
        /\ dumper[g].step \in {"remove", "rename"} => disk.temp[g] = dumper[g].version

IInv == TypeOK /\ FileOfStep /\ DumpWritten /\ NotNewer /\ InOrder

LEMMA InitIInv == Init => IInv
<1> SUFFICES ASSUME Init PROVE IInv
  OBVIOUS
<1>1. 0 \in Version /\ NoFile \in File
  BY ParametersAssumption DEF Version, File
<1>2. \A g \in Gen : dumper[g].step = "none" /\ dumper[g].version = 0 /\ disk.temp[g] = NoFile
  BY DEF Init
<1>3. disk.dump = NoFile /\ disk.panic = NoFile /\ version = 0
  BY DEF Init
<1>4. TypeOK
  <2>1. dumper \in [Gen -> Dumper]
    BY <1>1 DEF Init, Dumper, Over
  <2>2. disk \in [dump : File, panic : File, temp : [Gen -> File]]
    BY <1>1 DEF Init
  <2>3. {version, answered, last, safe} \subseteq Version
    BY <1>1 DEF Init
  <2>4. pc \in MainLoop /\ {requested, timer, shutdown, orderly, sigchld, handling} \subseteq BOOLEAN
    BY DEF Init, MainLoop
  <2>5. gen \in 0..MaxGen /\ finished \in 0..2
    BY ParametersAssumption DEF Init
  <2> QED
    BY <1>2, <2>1, <2>2, <2>3, <2>4, <2>5 DEF TypeOK
<1>5. AtWork = {}
  BY <1>2 DEF AtWork, Working
<1> QED
  BY <1>2, <1>3, <1>4, <1>5 DEF IInv, FileOfStep, DumpWritten, NotNewer, InOrder, NoFile, Partial

-----------------------------------------------------------------------------
\* What IInv needs of the steps that leave the files alone: the database in
\* memory may change; dumps do not.
LEMMA KeepDumps ==
  ASSUME IInv, TypeOK', version' >= version, UNCHANGED <<gen, dumper, disk, orderly>>
  PROVE  IInv'
<1>1. /\ version \in Int /\ version' \in Int /\ disk.dump \in Int /\ disk.panic \in Int
      /\ \A g \in Gen : disk.temp[g] \in Int /\ dumper[g].version \in Int
  BY DEF IInv, TypeOK, Version, File, NoFile, Partial, Short, Dumper
<1>2. NotNewer'
  BY <1>1 DEF IInv, NotNewer
<1>3. FileOfStep' /\ DumpWritten' /\ InOrder'
  BY DEF IInv, FileOfStep, DumpWritten, InOrder, AtWork
<1> QED
  BY <1>2, <1>3 DEF IInv

\* Dumps that are not at work may change, but for becoming at work.
LEMMA EndDumps ==
  ASSUME IInv, TypeOK', UNCHANGED <<version, gen, disk>>, orderly' => orderly,
         \A g \in Gen : /\ dumper'[g].version = dumper[g].version
                        /\ \/ dumper'[g].step = dumper[g].step
                           \/ dumper'[g].step \in {"reaped", "failed", "done", "ok", "bad"}
  PROVE  IInv'
<1>1. AtWork' \subseteq AtWork /\ \A g \in AtWork' : dumper'[g].step = dumper[g].step
  BY DEF AtWork, Working
<1>2. FileOfStep'
  BY DEF IInv, FileOfStep
<1>3. DumpWritten' /\ NotNewer'
  BY DEF IInv, DumpWritten, NotNewer
<1>4. InOrder'
  BY <1>1 DEF IInv, InOrder, AtWork
<1> QED
  BY <1>2, <1>3, <1>4 DEF IInv

Disk == [dump : File, panic : File, temp : [Gen -> File]]
Steps == Working \cup Exited \cup Over

\* What the updates of single processes and files yield.
LEMMA SetStepIs ==
  ASSUME dumper \in [Gen -> Dumper], NEW g \in Gen, NEW step \in Steps, SetStep(g, step)
  PROVE  /\ dumper' \in [Gen -> Dumper]
         /\ dumper'[g].step = step
         /\ \A h \in Gen : /\ dumper'[h].version = dumper[h].version
                           /\ h # g => dumper'[h] = dumper[h]
  BY DEF SetStep, Dumper, Steps

LEMMA PutTempIs ==
  ASSUME disk \in Disk, NEW g \in Gen, NEW f \in File, disk' = [disk EXCEPT !.temp[g] = f]
  PROVE  /\ disk' \in Disk /\ disk'.dump = disk.dump /\ disk'.panic = disk.panic
         /\ disk'.temp[g] = f
         /\ \A h \in Gen : h # g => disk'.temp[h] = disk.temp[h]
  BY DEF Disk

LEMMA SpecialFiles == /\ {NoFile, Partial, Short} \subseteq File /\ Version \subseteq File
                      /\ File \subseteq Int /\ Version \subseteq Nat
                      /\ NoFile < 0 /\ Partial < 0 /\ Short < 0
                      /\ NoFile # Partial /\ Short # Partial
                      /\ \A v \in Version : v # Partial /\ v # NoFile
  BY ParametersAssumption DEF File, Version, NoFile, Partial, Short

\* dump_database_to() begins: a temporary file goes, if there was one before.
LEMMA PreviousGone ==
  ASSUME TypeOK, disk' = WithoutPrevious
  PROVE  /\ disk' \in Disk /\ disk'.dump = disk.dump /\ disk'.panic = disk.panic
         /\ \A h \in Gen : /\ h # gen => disk'.temp[h] = disk.temp[h]
                           /\ h = gen => disk'.temp[h] = NoFile
<1>1. CASE gen = 0
  BY <1>1 DEF WithoutPrevious, TypeOK, Disk, Gen
<1>2. CASE gen # 0
  <2>1. gen \in Gen
    BY <1>2, ParametersAssumption DEF TypeOK, Gen
  <2> QED
    BY <1>2, <2>1, PutTempIs, SpecialFiles DEF WithoutPrevious, TypeOK, Disk
<1> QED
  BY <1>1, <1>2

-----------------------------------------------------------------------------
\* The type invariant in three parts.
Scalars ==
    /\ pc \in MainLoop \cup {"down", "dumping", "stopped", "panic", "aborted"}
    /\ {version, answered, last, safe} \subseteq Version
    /\ {requested, timer, shutdown, orderly} \subseteq BOOLEAN
    /\ gen \in 0..MaxGen
    /\ sigchld \in BOOLEAN /\ handling \in BOOLEAN /\ finished \in 0..2
Records == dumper \in [Gen -> Dumper] /\ disk \in Disk
Future == \A g \in Gen : g > gen => dumper[g].step = "none" /\ disk.temp[g] = NoFile

LEMMA TypeParts == TypeOK <=> Scalars /\ Records /\ Future
  BY DEF TypeOK, Scalars, Records, Future, Disk

LEMMA PastGen ==
  ASSUME TypeOK, NEW g \in Gen, dumper[g].step # "none"
  PROVE  g <= gen
  BY DEF TypeOK, Gen

LEMMA MainScalars ==
  ASSUME TypeOK, Main \/ Outside \/ Signal
  PROVE  Scalars'
<1>0. Scalars
  BY TypeParts
<1> USE <1>0 DEF Scalars, asked, signals, history, At, Goto
<1> USE DEF MainLoop, Verbs
<1>1. CASE Request \/ TimerFires \/ RequestShutdown
  BY <1>1 DEF Request, TimerFires, RequestShutdown
<1>2. CASE Panic
  BY <1>2 DEF Panic
<1>3. CASE Change
  BY <1>3, ParametersAssumption DEF Change, Version
<1>4. CASE HandleSigchld
  BY <1>4 DEF HandleSigchld
<1>5. CASE WaitForChildren
  <2>1. last' \in Version /\ finished' \in 0..2
    BY <1>5 DEF WaitForChildren, Children, TypeOK, Dumper
  <2> QED
    BY <1>5, <2>1 DEF WaitForChildren
<1>6. CASE BeginCheckpoint \/ NoCheckpoint \/ SetTimer \/ LeaveLoop
  BY <1>6 DEF BeginCheckpoint, NoCheckpoint, SetTimer, LeaveLoop
<1>7. CASE Report
  BY <1>7 DEF Report
<1>8. CASE NoReport
  BY <1>8 DEF NoReport
<1>9. CASE PanicDump
  BY <1>9 DEF PanicDump
<1>10. CASE VerbEnds
  <2>1. pc' \in MainLoop
    BY <1>10 DEF VerbEnds, AfterVerb
  <2>2. finished' \in 0..2
    BY <1>10 DEF VerbEnds
  <2> QED
    BY <1>10, <2>1, <2>2 DEF VerbEnds
<1>11. CASE Fork \/ Shutdown
  BY <1>11, ParametersAssumption DEF Fork, Shutdown, StartDump
<1>12. CASE ForkFails
  BY <1>12, ParametersAssumption DEF ForkFails
<1> QED
  BY <1>1, <1>2, <1>3, <1>4, <1>5, <1>6, <1>7, <1>8, <1>9, <1>10, <1>11, <1>12
     DEF Main, Outside, Signal

LEMMA DumpsScalars ==
  ASSUME TypeOK, NEW g \in Gen, Dumps(g)
  PROVE  Scalars'
<1>0. Scalars
  BY TypeParts
<1>1. /\ UNCHANGED <<version, requested, timer, gen, handling, finished, answered, last, safe>>
      /\ shutdown' \in {shutdown, TRUE} /\ sigchld' \in {sigchld, TRUE}
      /\ orderly' \in {orderly, FALSE} /\ pc' \in {pc, "stopped", "down"}
  <2> USE DEF asked, signals, history, Goto, NextCall, Ends, Exits
  <2>1. CASE OpenTemp(g) \/ OpenFails(g)
    BY <2>1 DEF OpenTemp, OpenFails
  <2>2. CASE Write(g) \/ RemoveDump(g) \/ CloseFails(g)
    BY <2>2 DEF Write, RemoveDump, CloseFails
  <2>3. CASE WriteFails(g)
    BY <2>3 DEF WriteFails
  <2>4. CASE ChildPanics(g)
    BY <2>4 DEF ChildPanics
  <2>5. CASE Rename(g) \/ RenameFails(g)
    BY <2>5 DEF Rename, RenameFails
  <2> QED
    BY <2>1, <2>2, <2>3, <2>4, <2>5 DEF Dumps
<1> QED
  BY <1>0, <1>1 DEF Scalars

-----------------------------------------------------------------------------
\* What a step of dump g has to get right, for itself, for all to be right.
FileRight(g) ==
    /\ dumper[g].step \in {"none", "open"} => disk.temp[g] = NoFile
    /\ dumper[g].step = "write" => disk.temp[g] \in {NoFile, Partial}
    /\ dumper[g].step \in {"remove", "rename"} => disk.temp[g] # Partial
OrderRight(g) ==
    orderly /\ g \in AtWork =>
        /\ disk.dump <= dumper[g].version
        /\ dumper[g].step = "write" => disk.temp[g] = Partial
        /\ dumper[g].step \in {"remove", "rename"} => disk.temp[g] = dumper[g].version

LEMMA OneDumpSteps ==
  ASSUME IInv, NEW g \in Gen, NEW step \in Steps, dumper[g].step \in Working, step # "none",
         SetStep(g, step), Scalars', UNCHANGED <<version, gen>>, orderly' => orderly,
         disk' \in Disk, disk'.panic = disk.panic,
         \A h \in Gen : h # g => disk'.temp[h] = disk.temp[h],
         disk'.dump # Partial, disk'.dump <= version, disk'.temp[g] <= version,
         FileRight(g)', OrderRight(g)'
  PROVE  IInv'
<1>1. /\ dumper' \in [Gen -> Dumper] /\ dumper'[g].step = step
      /\ \A h \in Gen : /\ dumper'[h].version = dumper[h].version
                        /\ h # g => dumper'[h] = dumper[h]
  BY SetStepIs DEF IInv, TypeOK
<1>2. TypeOK'
  <2>1. g <= gen
    BY PastGen DEF IInv, Working
  <2>2. Future'
    BY <1>1, <2>1 DEF IInv, TypeOK, Future, Gen
  <2> QED
    BY <1>1, <2>2 DEF TypeOK, Scalars, Future, Disk
<1>3. FileOfStep'
  BY <1>1 DEF IInv, FileOfStep, FileRight
<1>4. DumpWritten' /\ NotNewer'
  BY <1>1 DEF IInv, DumpWritten, NotNewer
<1>5. InOrder'
  <2> SUFFICES ASSUME orderly', NEW h \in AtWork'
               PROVE  /\ h = gen /\ disk'.dump <= dumper'[h].version
                      /\ dumper'[h].step = "write" => disk'.temp[h] = Partial
                      /\ dumper'[h].step \in {"remove", "rename"} =>
                             disk'.temp[h] = dumper'[h].version
    BY DEF InOrder
  <2>1. g \in AtWork /\ g = gen
    BY DEF AtWork, IInv, InOrder
  <2>2. h = g
    BY <1>1, <2>1 DEF AtWork, IInv, InOrder
  <2> QED
    BY <2>1, <2>2 DEF OrderRight
<1> QED
  BY <1>2, <1>3, <1>4, <1>5 DEF IInv

\* What IInv says of a dump at work.
LEMMA AtWorkNow ==
  ASSUME IInv, NEW g \in Gen, dumper[g].step \in Working
  PROVE  /\ FileRight(g) /\ OrderRight(g) /\ Scalars /\ disk \in Disk
         /\ disk.dump # Partial /\ disk.dump <= version /\ disk.temp[g] <= version
         /\ disk.dump \in Int /\ version \in Nat /\ disk.temp[g] \in File
         /\ dumper[g].version \in Version /\ dumper[g].version <= version
         /\ Working \subseteq Steps /\ {"ok", "bad", "done", "failed", "retried"} \subseteq Steps
  BY TypeParts, SpecialFiles
     DEF IInv, TypeOK, FileOfStep, FileRight, InOrder, OrderRight, DumpWritten, NotNewer,
         AtWork, Disk, Dumper, Steps, Exited, Over

\* Each step of a dump, system call by system call.
LEMMA DumpsInv ==
  ASSUME IInv, NEW g \in Gen, Dumps(g)
  PROVE  IInv'
<1> DEFINE Goes(step) ==
        /\ SetStep(g, step) /\ UNCHANGED <<version, gen>> /\ (orderly' => orderly)
<1>0. Scalars'
  BY DumpsScalars DEF IInv
<1>ends. ASSUME NEW b \in BOOLEAN, Ends(g, b)
         PROVE  \E step \in {"ok", "bad", "done", "failed"} : Goes(step)
  <2>1. CASE Exits(g, b)
    BY <1>ends, <2>1 DEF Exits, ExitStatus, history
  <2>2. CASE ~Exits(g, b)
    BY <1>ends, <2>2 DEF Ends, history
  <2> QED
    BY <2>1, <2>2
<1>next. ASSUME NEW step, NextCall(g, step)
         PROVE  Goes(step)
  BY <1>next DEF NextCall, history
<1>end. ASSUME NEW step \in {"ok", "bad", "done", "failed", "retried"}, Goes(step),
               dumper[g].step \in Working, disk' \in Disk, disk'.panic = disk.panic,
               \A h \in Gen : h # g => disk'.temp[h] = disk.temp[h],
               disk'.dump # Partial, disk'.dump <= version, disk'.temp[g] <= version
        PROVE  IInv'
  <2>1. dumper'[g].step = step
    BY <1>end, SetStepIs, AtWorkNow DEF IInv, TypeOK
  <2>2. FileRight(g)' /\ OrderRight(g)'
    BY <2>1 DEF FileRight, OrderRight, AtWork, Working
  <2>3. step # "none" /\ step \in Steps
    BY DEF Steps, Exited, Over
  <2> QED
    BY <1>0, <1>end, <2>2, <2>3, OneDumpSteps
<1>go. ASSUME NEW step \in Working, Goes(step), dumper[g].step \in Working,
              disk' \in Disk, disk'.panic = disk.panic,
              \A h \in Gen : h # g => disk'.temp[h] = disk.temp[h],
              disk'.dump # Partial, disk'.dump <= version, disk'.temp[g] <= version,
              dumper'[g].step = step /\ dumper'[g].version = dumper[g].version
                  => FileRight(g)' /\ OrderRight(g)'
       PROVE  IInv'
  <2>1. step \in Steps /\ step # "none"
    BY DEF Steps, Working
  <2>2. dumper'[g].step = step /\ dumper'[g].version = dumper[g].version
    BY <1>go, <2>1, SetStepIs DEF IInv, TypeOK
  <2> QED
    BY <1>0, <1>go, <2>1, <2>2, OneDumpSteps
<1> HIDE DEF Goes
<1>1. CASE OpenTemp(g)
  <2>1. dumper[g].step = "open" /\ Goes("write") /\ disk' = [disk EXCEPT !.temp[g] = Partial]
    BY <1>1, <1>next DEF OpenTemp, About
  <2> QED
    <3>1. dumper[g].step \in Working /\ "write" \in Working
      BY <2>1 DEF Working
    <3>2. /\ disk' \in Disk /\ disk'.dump = disk.dump /\ disk'.panic = disk.panic
          /\ disk'.temp[g] = Partial /\ \A h \in Gen : h # g => disk'.temp[h] = disk.temp[h]
      BY <2>1, <3>1, AtWorkNow, PutTempIs, SpecialFiles
    <3>3. disk'.temp[g] <= version /\ disk'.dump <= version /\ disk'.dump # Partial
      BY <3>1, <3>2, AtWorkNow DEF Partial
    <3>4. dumper'[g].step = "write" /\ dumper'[g].version = dumper[g].version
              => FileRight(g)' /\ OrderRight(g)'
      BY <2>1, <3>1, <3>2, AtWorkNow DEF FileRight, OrderRight, AtWork, Goes
    <3> QED
      BY <2>1, <3>1, <3>2, <3>3, <3>4, <1>go
<1>2. CASE OpenFails(g) \/ RenameFails(g)
  <2>1. dumper[g].step \in Working /\ UNCHANGED disk /\ Ends(g, FALSE)
    BY <1>2 DEF OpenFails, RenameFails, About, Working
  <2>2. PICK step \in {"ok", "bad", "done", "failed"} : Goes(step)
    BY <2>1, <1>ends
  <2> QED
    BY <2>1, <2>2, AtWorkNow, <1>end
<1>3. CASE Write(g)
  <2>1. dumper[g].step = "write" /\ dumper[g].step \in Working /\ Goes("remove")
    BY <1>3, <1>next DEF Write, About, Working
  <2>2. disk' = IF disk.temp[g] = NoFile THEN disk
                ELSE [disk EXCEPT !.temp[g] = dumper[g].version]
    BY <1>3 DEF Write
  <2>3. /\ disk' \in Disk /\ disk'.dump = disk.dump /\ disk'.panic = disk.panic
        /\ \A h \in Gen : h # g => disk'.temp[h] = disk.temp[h]
        /\ disk'.temp[g] = IF disk.temp[g] = NoFile THEN NoFile ELSE dumper[g].version
    BY <2>1, <2>2, AtWorkNow, PutTempIs, SpecialFiles
  <2>4. disk'.temp[g] <= version /\ disk'.dump <= version /\ disk'.dump # Partial
    BY <2>1, <2>3, AtWorkNow, SpecialFiles
  <2>5. dumper'[g].step = "remove" /\ dumper'[g].version = dumper[g].version
            => FileRight(g)' /\ OrderRight(g)'
    BY <2>1, <2>3, AtWorkNow, SpecialFiles DEF FileRight, OrderRight, AtWork, Goes
  <2> QED
    BY <2>1, <2>3, <2>4, <2>5, <1>go DEF Working
<1>4. CASE CloseFails(g)
  <2>1. dumper[g].step = "write" /\ dumper[g].step \in Working /\ Goes("remove") /\ ~orderly'
    BY <1>4 DEF CloseFails, About, Working, Goes
  <2>2. disk' = IF disk.temp[g] = NoFile THEN disk ELSE [disk EXCEPT !.temp[g] = Short]
    BY <1>4 DEF CloseFails
  <2>3. /\ disk' \in Disk /\ disk'.dump = disk.dump /\ disk'.panic = disk.panic
        /\ \A h \in Gen : h # g => disk'.temp[h] = disk.temp[h]
        /\ disk'.temp[g] \in {NoFile, Short}
    BY <2>1, <2>2, AtWorkNow, PutTempIs, SpecialFiles
  <2>4. disk'.temp[g] <= version /\ disk'.dump <= version /\ disk'.dump # Partial
    BY <2>1, <2>3, AtWorkNow DEF NoFile, Short
  <2>5. dumper'[g].step = "remove" => FileRight(g)' /\ OrderRight(g)'
    BY <2>1, <2>3, SpecialFiles DEF FileRight, OrderRight
  <2> QED
    BY <2>1, <2>3, <2>4, <2>5, <1>go DEF Working
<1>5. CASE WriteFails(g)
  <2>1. /\ dumper[g].step \in Working /\ disk' = [disk EXCEPT !.temp[g] = NoFile]
        /\ \/ Exits(g, FALSE)
           \/ SetStep(g, "retried") /\ UNCHANGED <<version, gen, orderly>>
    BY <1>5 DEF WriteFails, About, Working, history
  <2>2. \E step \in {"ok", "bad", "done", "failed", "retried"} : Goes(step)
    BY <2>1 DEF Exits, ExitStatus, history, Goes
  <2>3. /\ disk' \in Disk /\ disk'.dump = disk.dump /\ disk'.panic = disk.panic
        /\ disk'.temp[g] = NoFile /\ \A h \in Gen : h # g => disk'.temp[h] = disk.temp[h]
    BY <2>1, AtWorkNow, PutTempIs, SpecialFiles
  <2>4. disk'.temp[g] <= version /\ disk'.dump <= version /\ disk'.dump # Partial
    BY <2>1, <2>3, AtWorkNow, SpecialFiles
  <2> QED
    BY <2>1, <2>2, <2>3, <2>4, <1>end
<1>6. CASE ChildPanics(g)
  <2>1. dumper[g].step \in Working /\ UNCHANGED disk /\ Goes("bad")
    BY <1>6 DEF ChildPanics, Working, Exits, ExitStatus, history, Goes
  <2> QED
    BY <2>1, AtWorkNow, <1>end
<1>7. CASE RemoveDump(g)
  <2>1. /\ dumper[g].step = "remove" /\ dumper[g].step \in Working /\ Goes("rename")
        /\ disk' = [disk EXCEPT !.dump = NoFile]
    BY <1>7, <1>next DEF RemoveDump, About, Working
  <2>2. /\ disk' \in Disk /\ disk'.dump = NoFile /\ disk'.panic = disk.panic
        /\ disk'.temp = disk.temp
    BY <2>1, AtWorkNow, SpecialFiles DEF Disk
  <2>3. disk'.temp[g] <= version /\ disk'.dump <= version /\ disk'.dump # Partial
    BY <2>1, <2>2, AtWorkNow, SpecialFiles
  <2>4. dumper'[g].step = "rename" /\ dumper'[g].version = dumper[g].version
            => FileRight(g)' /\ OrderRight(g)'
    BY <2>1, <2>2, AtWorkNow, SpecialFiles DEF FileRight, OrderRight, AtWork, Goes
  <2> QED
    BY <2>1, <2>2, <2>3, <2>4, <1>go DEF Working
<1>8. CASE Rename(g)
  <2>1. /\ dumper[g].step = "rename" /\ dumper[g].step \in Working
        /\ disk' = [disk EXCEPT !.dump = disk.temp[g], !.temp[g] = NoFile] /\ Ends(g, TRUE)
    BY <1>8 DEF Rename, About, Working
  <2>2. PICK step \in {"ok", "bad", "done", "failed"} : Goes(step)
    BY <2>1, <1>ends
  <2>3. disk.temp[g] \in File /\ disk.temp[g] # Partial /\ disk.temp[g] <= version
    BY <2>1, AtWorkNow DEF FileRight
  <2>4. /\ disk' \in Disk /\ disk'.dump = disk.temp[g] /\ disk'.panic = disk.panic
        /\ disk'.temp[g] = NoFile /\ \A h \in Gen : h # g => disk'.temp[h] = disk.temp[h]
    BY <2>1, <2>3, AtWorkNow, SpecialFiles DEF Disk
  <2>5. disk'.temp[g] <= version /\ disk'.dump <= version /\ disk'.dump # Partial
    BY <2>1, <2>3, <2>4, AtWorkNow, SpecialFiles
  <2> QED
    BY <2>1, <2>2, <2>4, <2>5, <1>end
<1> QED
  BY <1>1, <1>2, <1>3, <1>4, <1>5, <1>6, <1>7, <1>8 DEF Dumps

-----------------------------------------------------------------------------
\* A dump begins: nothing is out of order that was not before, since "orderly"
\* ends with the first dump that begins while another is at work.
LEMMA StartDumpInv ==
  ASSUME IInv, NEW isChild \in BOOLEAN, StartDump(isChild), version' = version, Scalars'
  PROVE  IInv'
<1> DEFINE new == [step |-> "open", version |-> version, child |-> isChild]
<1>0. /\ gen \in Nat /\ gen < MaxGen /\ gen' = gen + 1 /\ gen + 1 \in Gen /\ version \in Version
      /\ dumper' = [dumper EXCEPT ![gen + 1] = new] /\ disk' = WithoutPrevious
      /\ orderly' = (orderly /\ LastOver) /\ new \in Dumper
  BY ParametersAssumption DEF StartDump, IInv, TypeOK, Gen, Dumper, Working
<1> DEFINE n == gen + 1
<1>1. /\ dumper' \in [Gen -> Dumper] /\ dumper'[n] = new
      /\ \A h \in Gen : h # n => dumper'[h] = dumper[h]
  BY <1>0 DEF IInv, TypeOK
<1>2. /\ disk' \in Disk /\ disk'.dump = disk.dump /\ disk'.panic = disk.panic
      /\ disk.dump <= version /\ disk.panic <= version /\ disk.dump # Partial
      /\ \A h \in Gen : disk'.temp[h] \in {disk.temp[h], NoFile}
  BY <1>0, PreviousGone DEF IInv, NotNewer, DumpWritten
<1>3. n \in Gen /\ n > gen /\ disk.temp[n] = NoFile /\ disk'.temp[n] = NoFile
  BY <1>0, <1>2 DEF IInv, TypeOK
<1> HIDE DEF n
<1>4. TypeOK'
  <2>1. Future'
    <3> SUFFICES ASSUME NEW h \in Gen, h > gen'
                 PROVE  dumper'[h].step = "none" /\ disk'.temp[h] = NoFile
      BY DEF Future
    <3>1. h > gen /\ h # n
      BY <1>0 DEF n, Gen
    <3> QED
      BY <1>1, <1>2, <3>1 DEF IInv, TypeOK
  <2> QED
    BY <1>1, <1>2, <2>1 DEF TypeOK, Scalars, Future, Disk
<1>5. FileOfStep'
  <2> SUFFICES ASSUME NEW h \in Gen PROVE FileRight(h)'
    BY DEF FileOfStep, FileRight
  <2>1. CASE h = n
    BY <1>1, <1>3, <2>1 DEF FileRight
  <2>2. CASE h # n
    BY <1>1, <1>2, <2>2, SpecialFiles DEF IInv, FileOfStep, FileRight
  <2> QED
    BY <2>1, <2>2
<1>6. DumpWritten' /\ NotNewer'
  <2>0. NoFile <= version /\ \A h \in Gen : disk.temp[h] <= version
    <3>1. version \in Version
      BY DEF IInv, TypeOK
    <3>2. NoFile <= version
      BY <3>1 DEF Version, NoFile
    <3> QED
      BY <3>2 DEF IInv, NotNewer
  <2>1. \A h \in Gen : disk'.temp[h] <= version
    BY <1>2, <2>0
  <2>2. \A h \in Gen : dumper'[h].version <= version
    BY <1>0, <1>1, SpecialFiles DEF IInv, NotNewer
  <2> QED
    BY <1>2, <2>1, <2>2 DEF DumpWritten, NotNewer
<1>7. InOrder'
  <2> SUFFICES ASSUME orderly', NEW h \in AtWork' PROVE h = gen' /\ OrderRight(h)'
    BY DEF InOrder, OrderRight
  <2>1. AtWork = {}
    BY <1>0 DEF LastOver
  <2>2. h = n
    BY <1>1, <2>1 DEF AtWork
  <2> QED
    BY <1>0, <1>1, <1>2, <2>2 DEF OrderRight, n
<1> QED
  BY <1>4, <1>5, <1>6, <1>7 DEF IInv

\* A dump that cannot begin, or a panic, still takes the last temporary file.
LEMMA LosePrevious ==
  ASSUME IInv, Scalars', UNCHANGED version, disk' = WithoutPrevious, gen' \in Nat, gen' >= gen,
         orderly' = (orderly /\ LastOver),
         dumper' \in [Gen -> Dumper],
         \A g \in Gen : /\ dumper'[g].version = dumper[g].version
                        /\ \/ dumper'[g].step = dumper[g].step
                           \/ g \in AtWork /\ dumper'[g].step = "failed"
  PROVE  IInv'
<1>1. /\ disk' \in Disk /\ disk'.dump = disk.dump /\ disk'.panic = disk.panic
      /\ \A h \in Gen : disk'.temp[h] \in {disk.temp[h], NoFile}
  BY PreviousGone DEF IInv
<1>2. TypeOK'
  <2>1. Future'
    <3> SUFFICES ASSUME NEW h \in Gen, h > gen'
                 PROVE  dumper'[h].step = "none" /\ disk'.temp[h] = NoFile
      BY DEF Future
    <3>1. h > gen
      BY DEF IInv, TypeOK, Gen
    <3>2. dumper[h].step = "none" /\ disk.temp[h] = NoFile
      BY <3>1 DEF IInv, TypeOK
    <3> QED
      BY <1>1, <3>2 DEF AtWork, Working
  <2> QED
    BY <1>1, <2>1 DEF TypeOK, Scalars, Future, Disk
<1>3. FileOfStep'
  <2> SUFFICES ASSUME NEW h \in Gen PROVE FileRight(h)'
    BY DEF FileOfStep, FileRight
  <2> QED
    BY <1>1, SpecialFiles DEF IInv, FileOfStep, FileRight
<1>4. DumpWritten' /\ NotNewer'
  <2>0. NoFile <= version /\ \A h \in Gen : disk.temp[h] <= version
    <3>1. version \in Version
      BY DEF IInv, TypeOK
    <3>2. NoFile <= version
      BY <3>1 DEF Version, NoFile
    <3> QED
      BY <3>2 DEF IInv, NotNewer
  <2>1. \A h \in Gen : disk'.temp[h] <= version
    BY <1>1, <2>0
  <2> QED
    BY <1>1, <2>1 DEF IInv, DumpWritten, NotNewer
<1>5. InOrder'
  <2>1. orderly' => AtWork = {}
    BY DEF LastOver
  <2>2. AtWork' \subseteq AtWork
    BY DEF AtWork, Working
  <2> QED
    BY <2>1, <2>2 DEF InOrder
<1> QED
  BY <1>2, <1>3, <1>4, <1>5 DEF IInv

-----------------------------------------------------------------------------
LEMMA NextInv == IInv /\ [Next]_vars => IInv'
<1> SUFFICES ASSUME IInv, [Next]_vars PROVE IInv'
  OBVIOUS
<1>keep. ASSUME Scalars', version' >= version, UNCHANGED <<gen, dumper, disk, orderly>>
         PROVE  IInv'
  <2>1. TypeOK'
    BY <1>keep DEF IInv, TypeOK, Scalars, Disk
  <2> QED
    BY <1>keep, <2>1, KeepDumps
<1>same. version >= version
  BY DEF IInv, TypeOK, Version
<1>1. CASE Outside
  <2>0. Scalars'
    BY <1>1, MainScalars DEF IInv
  <2>1. CASE Request \/ TimerFires \/ RequestShutdown
    BY <2>0, <2>1, <1>keep, <1>same DEF Request, TimerFires, RequestShutdown, history
  <2>2. CASE Change
    BY <2>0, <2>2, <1>keep DEF Change, history, IInv, TypeOK, Version
  <2>3. CASE Panic
    <3>1. /\ disk' = WithoutPrevious /\ UNCHANGED <<version, gen>> /\ gen \in Nat
          /\ orderly' = (orderly /\ LastOver)
      BY <2>3 DEF Panic, IInv, TypeOK
    <3>2. dumper' \in [Gen -> Dumper]
      BY <2>3 DEF Panic, IInv, TypeOK, Dumper, Over
    <3>3. \A g \in Gen : /\ dumper'[g].version = dumper[g].version
                         /\ \/ dumper'[g].step = dumper[g].step
                            \/ g \in AtWork /\ dumper'[g].step = "failed"
      BY <2>3 DEF Panic, IInv, TypeOK, Dumper
    <3> QED
      BY <2>0, <3>1, <3>2, <3>3, LosePrevious
  <2> QED
    BY <1>1, <2>1, <2>2, <2>3 DEF Outside
<1>2. CASE Signal
  <2>0. Scalars'
    BY <1>2, MainScalars DEF IInv
  <2>1. CASE HandleSigchld
    BY <2>0, <2>1, <1>keep, <1>same DEF HandleSigchld, history
  <2>2. CASE WaitForChildren
    <3>1. UNCHANGED <<version, gen, disk, orderly>>
      BY <2>2 DEF WaitForChildren
    <3>2. dumper' \in [Gen -> Dumper]
      BY <2>2 DEF WaitForChildren, IInv, TypeOK, Dumper, Over
    <3>3. \A g \in Gen : /\ dumper'[g].version = dumper[g].version
                         /\ \/ dumper'[g].step = dumper[g].step
                            \/ dumper[g].step \in Exited /\ dumper'[g].step = "reaped"
      BY <2>2 DEF WaitForChildren, IInv, TypeOK, Dumper, Children
    <3>4. TypeOK'
      BY <2>0, <3>1, <3>2, <3>3 DEF IInv, TypeOK, Scalars, Exited
    <3> QED
      BY <3>1, <3>3, <3>4, EndDumps
  <2> QED
    BY <1>2, <2>1, <2>2 DEF Signal
<1>3. CASE Main
  <2>0. Scalars'
    BY <1>3, MainScalars DEF IInv
  <2>1. CASE BeginCheckpoint \/ NoCheckpoint \/ SetTimer \/ LeaveLoop
    BY <2>0, <2>1, <1>keep, <1>same
       DEF BeginCheckpoint, NoCheckpoint, SetTimer, LeaveLoop, history
  <2>2. CASE Report \/ NoReport \/ VerbEnds
    BY <2>0, <2>2, <1>keep, <1>same DEF Report, NoReport, VerbEnds, history
  <2>3. CASE Fork \/ Shutdown
    BY <2>0, <2>3, StartDumpInv DEF Fork, Shutdown
  <2>4. CASE ForkFails
    <3>1. gen' \in Nat /\ gen' >= gen
      BY <2>4 DEF ForkFails, IInv, TypeOK
    <3> QED
      BY <2>0, <2>4, <3>1, LosePrevious DEF ForkFails, IInv, TypeOK
  <2>5. CASE PanicDump
    <3>1. UNCHANGED <<version, gen, dumper, orderly>> /\ version \in File /\ version <= version
      BY <2>5, <1>same, SpecialFiles DEF PanicDump, history, IInv, TypeOK
    <3>2. disk' \in Disk /\ disk'.dump = disk.dump /\ disk'.temp = disk.temp
      BY <2>5, <3>1 DEF PanicDump, IInv, TypeOK, Disk
    <3>3. disk'.panic \in {disk.panic, version}
      BY <2>5 DEF PanicDump, IInv, TypeOK
    <3>4. TypeOK'
      BY <2>0, <3>1, <3>2 DEF IInv, TypeOK, Scalars, Disk
    <3> QED
      BY <3>1, <3>2, <3>3, <3>4
         DEF IInv, FileOfStep, DumpWritten, NotNewer, InOrder, AtWork
  <2> QED
    BY <1>3, <2>1, <2>2, <2>3, <2>4, <2>5 DEF Main
<1>4. CASE \E g \in Gen : Dumps(g)
  BY <1>4, DumpsInv
<1>5. CASE UNCHANGED vars
  <2>1. Scalars' /\ UNCHANGED <<version, gen, dumper, disk, orderly>>
    BY <1>5, TypeParts DEF vars, asked, signals, history, IInv, Scalars
  <2> QED
    BY <2>1, <1>keep, <1>same
<1> QED
  BY <1>1, <1>2, <1>3, <1>4, <1>5 DEF Next

THEOREM Invariance == Spec => []IInv
  BY InitIInv, NextInv, PTL DEF Spec

\* Every variable always has a value of its type, and generations are used in
\* order, for any faults and however many dumps overlap.
THEOREM TypeCorrect == Spec => []TypeOK
<1>1. IInv => TypeOK
  BY DEF IInv
<1> QED
  BY <1>1, Invariance, PTL

\* The dump file is never one that is still being written or was given up,
\* whatever fails and however dumps overlap.
THEOREM DumpIsWritten == Spec => []DumpWritten
<1>1. IInv => DumpWritten
  BY DEF IInv
<1> QED
  BY <1>1, Invariance, PTL

-----------------------------------------------------------------------------
\* Each whole file is kept, or a newer one has taken its place.
Kept == \A f \in Files : f >= 0 => \E later \in Files' : later >= f

LEMMA FilesAreInts ==
  ASSUME NEW d \in Disk
  PROVE  {d.dump, d.panic} \cup {d.temp[g] : g \in Gen} \subseteq Int
<1>1. d.dump \in File /\ d.panic \in File /\ \A g \in Gen : d.temp[g] \in File
  BY DEF Disk
<1>2. File \subseteq Int
  BY SpecialFiles
<1>3. {d.temp[g] : g \in Gen} \subseteq Int
  BY <1>1, <1>2
<1> QED
  BY <1>1, <1>2, <1>3

LEMMA KeptIsOnDisk ==
  ASSUME IInv, IInv', Kept
  PROVE  \A v \in Version : OnDisk(v) => OnDisk(v)'
<1>0. disk \in Disk /\ disk' \in Disk
  BY DEF IInv, TypeOK, Disk
<1>1. Files \subseteq Int /\ Files' \subseteq Int
  BY <1>0, FilesAreInts DEF Files
<1>2. Version \subseteq Nat
  BY SpecialFiles
<1> QED
  BY <1>1, <1>2 DEF Kept, OnDisk

LEMMA KeptIfSame ==
  ASSUME IInv, disk' = disk
  PROVE  Kept
<1>0. disk \in Disk
  BY DEF IInv, TypeOK, Disk
<1>1. Files' = Files /\ Files \subseteq Int
  BY <1>0, FilesAreInts DEF Files
<1> QED
  BY <1>1 DEF Kept

\* Of the files, it is enough to look at those that change.
LEMMA KeptIfEach ==
  ASSUME IInv,
         disk.dump >= 0 => \E later \in Files' : later >= disk.dump,
         disk.panic >= 0 => \E later \in Files' : later >= disk.panic,
         NEW g \in Gen, \A h \in Gen : h # g => disk'.temp[h] = disk.temp[h],
         disk.temp[g] >= 0 => \E later \in Files' : later >= disk.temp[g]
  PROVE  Kept
<1>1. \A h \in Gen : disk.temp[h] \in Int
  BY SpecialFiles DEF IInv, TypeOK
<1>2. \A h \in Gen : h # g => \E later \in Files' : later >= disk.temp[h]
  BY <1>1 DEF Files
<1> QED
  BY <1>2 DEF Files, Kept

LEMMA KeptByLosePrevious ==
  ASSUME IInv, disk' = WithoutPrevious, LastOver
  PROVE  Kept
<1>1. CASE gen = 0
  BY <1>1, KeptIfSame DEF WithoutPrevious
<1>2. CASE gen # 0
  <2>1. gen \in Gen
    BY <1>2, ParametersAssumption DEF IInv, TypeOK, Gen
  <2>2. disk.dump \in Int /\ disk.panic \in Int /\ disk.temp[gen] \in Int
    BY <2>1, SpecialFiles DEF IInv, TypeOK
  <2>3. ~(disk.temp[gen] >= 0)
    BY <1>2, <2>2 DEF LastOver
  <2>4. /\ disk'.dump = disk.dump /\ disk'.panic = disk.panic
        /\ \A h \in Gen : h # gen => disk'.temp[h] = disk.temp[h]
    BY PreviousGone DEF IInv
  <2>5. disk.dump \in Files' /\ disk.panic \in Files'
    BY <2>4 DEF Files
  <2> QED
    BY <2>1, <2>2, <2>3, <2>4, <2>5, KeptIfEach
<1> QED
  BY <1>1, <1>2

\* A dump loses a file only by putting one at least as new in its place.
LEMMA KeptByDumps ==
  ASSUME IInv, orderly', NEW g \in Gen, Dumps(g)
  PROVE  Kept
<1>0. /\ disk \in Disk /\ disk.dump \in Int /\ disk.panic \in Int
      /\ \A h \in Gen : disk.temp[h] \in Int /\ dumper[h].version \in Version
  BY SpecialFiles DEF IInv, TypeOK, Disk, Dumper
<1>temp. ASSUME NEW f \in File, disk' = [disk EXCEPT !.temp[g] = f],
                disk.temp[g] >= 0 => f >= disk.temp[g]
         PROVE  Kept
  <2>1. /\ disk'.dump = disk.dump /\ disk'.panic = disk.panic /\ disk'.temp[g] = f
        /\ \A h \in Gen : h # g => disk'.temp[h] = disk.temp[h]
    BY <1>temp, <1>0, PutTempIs
  <2>2. disk.dump \in Files' /\ disk.panic \in Files' /\ f \in Files'
    BY <2>1 DEF Files
  <2> QED
    BY <1>0, <1>temp, <2>1, <2>2, KeptIfEach
<1>1. CASE OpenTemp(g)
  <2>1. disk.temp[g] = NoFile
    BY <1>1 DEF OpenTemp, About, IInv, FileOfStep
  <2>2. ~(disk.temp[g] >= 0)
    BY <2>1 DEF NoFile
  <2>3. Partial \in File /\ disk' = [disk EXCEPT !.temp[g] = Partial]
    BY <1>1, SpecialFiles DEF OpenTemp
  <2> QED
    BY <2>2, <2>3, <1>temp
<1>2. CASE OpenFails(g) \/ RenameFails(g) \/ ChildPanics(g)
  BY <1>2, KeptIfSame DEF OpenFails, RenameFails, ChildPanics
<1>3. CASE Write(g)
  <2>1. disk.temp[g] \in {NoFile, Partial}
    BY <1>3 DEF Write, About, IInv, FileOfStep
  <2>2. ~(disk.temp[g] >= 0)
    BY <2>1 DEF NoFile, Partial
  <2>3. dumper[g].version \in File
    BY <1>0, SpecialFiles
  <2>4. disk' = disk \/ disk' = [disk EXCEPT !.temp[g] = dumper[g].version]
    BY <1>3 DEF Write
  <2> QED
    BY <2>2, <2>3, <2>4, <1>temp, KeptIfSame
<1>4. CASE CloseFails(g)
  BY <1>4 DEF CloseFails
<1>5. CASE WriteFails(g)
  <2>1. disk.temp[g] \in {NoFile, Partial}
    BY <1>5 DEF WriteFails, About, IInv, FileOfStep
  <2>2. ~(disk.temp[g] >= 0)
    BY <2>1 DEF NoFile, Partial
  <2> QED
    BY <1>5, <2>2, <1>temp, SpecialFiles DEF WriteFails
<1>6. CASE RemoveDump(g)
  <2>1. disk' = [disk EXCEPT !.dump = NoFile] /\ g \in AtWork /\ orderly
    BY <1>6 DEF RemoveDump, About, NextCall, history, AtWork, Working
  <2>2. disk.temp[g] >= disk.dump
    BY <1>0, <1>6, <2>1, SpecialFiles DEF RemoveDump, About, IInv, InOrder
  <2>3. disk'.panic = disk.panic /\ disk'.temp = disk.temp
    BY <1>0, <2>1 DEF Disk
  <2>4. disk.panic \in Files' /\ \A h \in Gen : disk.temp[h] \in Files'
    BY <2>3 DEF Files
  <2> QED
    BY <1>0, <2>2, <2>3, <2>4, KeptIfEach
<1>7. CASE Rename(g)
  <2>1. /\ disk' = [disk EXCEPT !.dump = disk.temp[g], !.temp[g] = NoFile]
        /\ g \in AtWork /\ orderly
    BY <1>7 DEF Rename, About, Ends, Exits, history, AtWork, Working
  <2>2. disk.temp[g] >= disk.dump
    BY <1>0, <1>7, <2>1, SpecialFiles DEF Rename, About, IInv, InOrder
  <2>3. /\ disk'.dump = disk.temp[g] /\ disk'.panic = disk.panic
        /\ \A h \in Gen : h # g => disk'.temp[h] = disk.temp[h]
    BY <1>0, <2>1 DEF Disk
  <2>4. disk.panic \in Files' /\ disk.temp[g] \in Files'
    BY <2>3 DEF Files
  <2> QED
    BY <1>0, <2>2, <2>3, <2>4, KeptIfEach
<1> QED
  BY <1>1, <1>2, <1>3, <1>4, <1>5, <1>6, <1>7 DEF Dumps

LEMMA KeptByAll ==
  ASSUME IInv, [Next]_vars, orderly'
  PROVE  Kept
<1>1. CASE Outside
  <2>1. CASE Panic
    BY <2>1, KeptByLosePrevious DEF Panic
  <2> QED
    BY <1>1, <2>1, KeptIfSame DEF Outside, Request, TimerFires, RequestShutdown, Change
<1>2. CASE Signal
  BY <1>2, KeptIfSame DEF Signal, HandleSigchld, WaitForChildren
<1>3. CASE Main
  <2>1. CASE Fork \/ Shutdown \/ ForkFails
    BY <2>1, KeptByLosePrevious DEF Fork, Shutdown, ForkFails, StartDump
  <2>2. CASE PanicDump
    <3>1. CASE disk' = disk
      BY <3>1, KeptIfSame
    <3>2. CASE disk' = [disk EXCEPT !.panic = version]
      <4>1. disk \in Disk /\ disk.dump \in Int /\ version \in Int /\ disk.panic <= version
            /\ disk.panic \in Int
        BY SpecialFiles DEF IInv, TypeOK, NotNewer, Disk
      <4>2. disk'.dump = disk.dump /\ disk'.panic = version /\ disk'.temp = disk.temp
        BY <3>2, <4>1 DEF Disk
      <4>3. /\ disk.dump \in Files' /\ version \in Files'
            /\ \A h \in Gen : disk.temp[h] \in Files' /\ disk.temp[h] \in Int
        BY <4>2, SpecialFiles DEF Files, IInv, TypeOK
      <4>4. 1 \in Gen
        BY ParametersAssumption DEF Gen
      <4> QED
        BY <4>1, <4>2, <4>3, <4>4, KeptIfEach
    <3> QED
      BY <2>2, <3>1, <3>2 DEF PanicDump
  <2> QED
    BY <1>3, <2>1, <2>2, KeptIfSame
       DEF Main, BeginCheckpoint, NoCheckpoint, SetTimer, Report, NoReport, VerbEnds, LeaveLoop
<1>4. CASE \E g \in Gen : Dumps(g)
  BY <1>4, KeptByDumps
<1>5. CASE UNCHANGED vars
  BY <1>5, KeptIfSame DEF vars
<1> QED
  BY <1>1, <1>2, <1>3, <1>4, <1>5 DEF Next

\* Whichever call a crash comes after, some whole file is at least as new as any
\* there was before, for any faults, unless dumps overlap or are cut short.
THEOREM DiskNeverOlder == Spec => NeverOlder
<1>1. IInv /\ IInv' /\ [Next]_vars => [orderly' => \A v \in Version : OnDisk(v) => OnDisk(v)']_vars
  BY KeptByAll, KeptIsOnDisk
<1> QED
  BY <1>1, Invariance, PTL DEF Spec, NeverOlder

-----------------------------------------------------------------------------
(***************************************************************************)
(* The main loop never runs out of checkpoints.  CheckpointAhead is        *)
(* inductive: the timer and the request are only taken where the loop is   *)
(* bound to pass set_checkpoint_timer().                                   *)
(***************************************************************************)
LEMMA AheadInit == Init => CheckpointAhead
  BY DEF Init, CheckpointAhead

LEMMA AheadNext == CheckpointAhead /\ [Next]_vars => CheckpointAhead'
<1> SUFFICES ASSUME CheckpointAhead, [Next]_vars
             PROVE  CheckpointAhead'
  OBVIOUS
<1> USE DEF CheckpointAhead, MainLoop, Verbs, asked, signals, history, At, Goto
<1>1. CASE Request \/ TimerFires \/ RequestShutdown \/ Change \/ Panic
  BY <1>1 DEF Request, TimerFires, RequestShutdown, Change, Panic
<1>2. CASE Signal
  BY <1>2 DEF Signal, HandleSigchld, WaitForChildren
<1>3. CASE BeginCheckpoint \/ NoCheckpoint \/ SetTimer \/ LeaveLoop
  BY <1>3 DEF BeginCheckpoint, NoCheckpoint, SetTimer, LeaveLoop
<1>4. CASE Fork \/ ForkFails \/ Shutdown \/ PanicDump
  BY <1>4 DEF Fork, ForkFails, Shutdown, PanicDump
<1>5. CASE Report \/ NoReport
  BY <1>5 DEF Report, NoReport
<1>6. CASE VerbEnds
  BY <1>6 DEF VerbEnds, AfterVerb
<1>7. ASSUME NEW g \in Gen, Dumps(g)
      PROVE  CheckpointAhead'
  <2> USE DEF NextCall, Ends, Exits
  <2>1. CASE OpenTemp(g) \/ OpenFails(g) \/ Write(g) \/ CloseFails(g)
    BY <2>1 DEF OpenTemp, OpenFails, Write, CloseFails
  <2>2. CASE WriteFails(g) \/ ChildPanics(g)
    BY <2>2 DEF WriteFails, ChildPanics
  <2>3. CASE RemoveDump(g) \/ Rename(g) \/ RenameFails(g)
    BY <2>3 DEF RemoveDump, Rename, RenameFails
  <2> QED
    BY <1>7, <2>1, <2>2, <2>3 DEF Dumps
<1>8. CASE UNCHANGED vars
  BY <1>8 DEF vars
<1> QED
  BY <1>1, <1>2, <1>3, <1>4, <1>5, <1>6, <1>7, <1>8 DEF Next, Outside, Main

\* The server always has its next checkpoint coming, whatever failed.
THEOREM CheckpointIsAhead == Spec => []CheckpointAhead
  BY AheadInit, AheadNext, PTL DEF Spec

-----------------------------------------------------------------------------
(***************************************************************************)
(* What a step of a dump may do to its process, to the server and to the   *)
(* dump file: it goes on, or it ends in one of four ways.                  *)
(***************************************************************************)
GoesOn(g) == dumper'[g].step \in Working /\ UNCHANGED <<pc, sigchld>>
ChildEnds(g) ==
    /\ dumper[g].child /\ sigchld' = TRUE /\ UNCHANGED pc
    /\ \/ dumper'[g].step = "bad"
       \/ dumper'[g].step = "ok" /\ dumper[g].step = "rename" /\ disk'.dump = disk.temp[g]
ServerEnds(g) ==
    /\ ~dumper[g].child /\ pc = "dumping" /\ UNCHANGED sigchld
    /\ \/ dumper'[g].step = "failed" /\ pc' = "stopped"
       \/ dumper'[g].step = "retried" /\ pc' = "down"
       \/ /\ dumper'[g].step = "done" /\ pc' = "stopped"
          /\ dumper[g].step = "rename" /\ disk'.dump = disk.temp[g]

LEMMA DumpsDo ==
  ASSUME TypeOK, NEW g \in Gen, Dumps(g)
  PROVE  /\ g \in AtWork
         /\ UNCHANGED <<version, gen, handling, finished, last, safe>>
         /\ orderly' => orderly
         /\ \A h \in Gen : /\ dumper'[h].version = dumper[h].version
                           /\ dumper'[h].child = dumper[h].child
                           /\ h # g => dumper'[h] = dumper[h]
         /\ GoesOn(g) \/ ChildEnds(g) \/ ServerEnds(g)
<1> DEFINE Done(step) ==
        /\ \A h \in Gen : /\ dumper'[h].version = dumper[h].version
                          /\ dumper'[h].child = dumper[h].child
                          /\ h # g => dumper'[h] = dumper[h]
        /\ dumper'[g].step = step
<1>set. ASSUME NEW step, SetStep(g, step)
        PROVE  Done(step)
  BY <1>set DEF SetStep, TypeOK, Dumper
<1>disk. disk \in Disk
  BY DEF TypeOK, Disk
<1> USE DEF asked, signals, history, Goto, AtWork, Working
<1>on. ASSUME NEW call \in {"write", "remove", "rename"}, NextCall(g, call)
       PROVE  /\ UNCHANGED <<version, gen, handling, finished, last, safe, orderly>>
              /\ Done(call) /\ GoesOn(g)
  BY <1>on, <1>set DEF NextCall, GoesOn
<1> DEFINE Unmoved == UNCHANGED <<version, gen, handling, finished, last, safe, orderly>>
<1>exit. ASSUME NEW b \in BOOLEAN, Exits(g, b)
         PROVE  /\ Unmoved /\ Done(IF b THEN "ok" ELSE "bad")
                /\ dumper[g].child /\ sigchld' = TRUE /\ UNCHANGED pc
  BY <1>exit, <1>set DEF Exits, ExitStatus
<1>end. ASSUME NEW b \in BOOLEAN, Ends(g, b), ~Exits(g, b), About(g, "open") \/ About(g, "rename")
        PROVE  /\ Unmoved /\ Done(IF b THEN "done" ELSE "failed")
               /\ ~dumper[g].child /\ UNCHANGED sigchld /\ pc = "dumping" /\ pc' = "stopped"
  <2>1. SetStep(g, IF b THEN "done" ELSE "failed") /\ ~dumper[g].child
    BY <1>end DEF Ends
  <2>2. Done(IF b THEN "done" ELSE "failed")
    BY <2>1, <1>set
  <2> QED
    BY <1>end, <2>1, <2>2 DEF Ends, About, At
<1>fail. ASSUME NEW b \in {FALSE}, Ends(g, b), About(g, "open") \/ About(g, "rename")
         PROVE  /\ Unmoved /\ \E step : Done(step)
                /\ ChildEnds(g) \/ ServerEnds(g)
  <2>1. CASE Exits(g, b)
    <3>1. Unmoved /\ Done("bad") /\ dumper[g].child /\ sigchld' = TRUE /\ UNCHANGED pc
      BY <2>1, <1>exit
    <3> QED
      BY <3>1 DEF ChildEnds
  <2>2. CASE ~Exits(g, b)
    <3>1. /\ Unmoved /\ Done("failed") /\ ~dumper[g].child /\ UNCHANGED sigchld
          /\ pc = "dumping" /\ pc' = "stopped"
      BY <1>fail, <2>2, <1>end
    <3> QED
      BY <3>1 DEF ServerEnds
  <2> QED
    BY <2>1, <2>2
<1>1. CASE OpenTemp(g) \/ Write(g) \/ RemoveDump(g)
  BY <1>1, <1>on DEF OpenTemp, Write, RemoveDump, About
<1>2. CASE OpenFails(g) \/ RenameFails(g)
  BY <1>2, <1>fail DEF OpenFails, RenameFails, About
<1>3. CASE CloseFails(g)
  <2>1. Done("remove")
    BY <1>3, <1>set DEF CloseFails
  <2> QED
    BY <1>3, <2>1 DEF CloseFails, About, GoesOn
<1>bad. ASSUME NEW b \in {FALSE}, Exits(g, b)
        PROVE  Unmoved /\ Done("bad") /\ ChildEnds(g)
  <2>1. Unmoved /\ Done("bad") /\ dumper[g].child /\ sigchld' = TRUE /\ UNCHANGED pc
    BY <1>bad, <1>exit
  <2> QED
    BY <2>1 DEF ChildEnds
<1>4. CASE WriteFails(g)
  <2>1. CASE \E b \in {FALSE} : Exits(g, b)
    BY <1>4, <2>1, <1>bad DEF WriteFails, About
  <2>2. CASE SetStep(g, "retried") /\ Goto("down") /\ UNCHANGED <<version, gen, signals, history>>
             /\ ~dumper[g].child
    <3>1. Done("retried")
      BY <2>2, <1>set
    <3> QED
      BY <1>4, <2>2, <3>1 DEF WriteFails, About, At, ServerEnds
  <2> QED
    BY <1>4, <2>1, <2>2 DEF WriteFails
<1>5. CASE ChildPanics(g)
  BY <1>5, <1>bad DEF ChildPanics
<1>6. CASE Rename(g)
  <2>1. disk'.dump = disk.temp[g] /\ dumper[g].step = "rename" /\ About(g, "rename")
    BY <1>6, <1>disk DEF Rename, About, Disk
  <2>2. PICK b \in {TRUE} : Ends(g, b)
    BY <1>6 DEF Rename
  <2>3. CASE Exits(g, b)
    <3>1. Unmoved /\ Done("ok") /\ dumper[g].child /\ sigchld' = TRUE /\ UNCHANGED pc
      BY <2>3, <1>exit
    <3> QED
      BY <2>1, <3>1 DEF ChildEnds
  <2>4. CASE ~Exits(g, b)
    <3>1. /\ Unmoved /\ Done("done") /\ ~dumper[g].child /\ UNCHANGED sigchld
          /\ pc = "dumping" /\ pc' = "stopped"
      BY <2>1, <2>2, <2>4, <1>end
    <3> QED
      BY <2>1, <3>1 DEF ServerEnds
  <2> QED
    BY <2>3, <2>4
<1> QED
  BY <1>1, <1>2, <1>3, <1>4, <1>5, <1>6 DEF Dumps

-----------------------------------------------------------------------------
(***************************************************************************)
(* The dump at shutdown.  The server itself dumps only in db_shutdown(),   *)
(* the last generation and the last version; it stops with that dump over, *)
(* and with nobody else at work if nobody was before.                      *)
(***************************************************************************)
ServerAlone == \A g \in AtWork : ~dumper[g].child => pc = "dumping" /\ g = gen
DumpingLast ==
    pc = "dumping" => gen \in AtWork /\ ~dumper[gen].child /\ dumper[gen].version = version
StoppedAfter ==
    pc = "stopped" =>
        /\ gen \in Gen /\ dumper[gen].step \in {"done", "failed"}
        /\ orderly => AtWork = {} /\ (dumper[gen].step = "done" => disk.dump = version)
ServerDump == ServerAlone /\ DumpingLast /\ StoppedAfter

LEMMA ServerDumpInit == Init => ServerDump
<1> SUFFICES ASSUME Init PROVE ServerDump
  OBVIOUS
<1>1. AtWork = {} /\ pc = "top"
  BY DEF Init, AtWork, Working
<1> QED
  BY <1>1 DEF ServerDump, ServerAlone, DumpingLast, StoppedAfter

\* What the dump at shutdown needs of the steps that are no step of a dump.
LEMMA ServerDumpKept ==
  ASSUME ServerDump, UNCHANGED gen, pc' \notin {"dumping", "stopped"} \/ UNCHANGED <<pc, version, disk>>,
         orderly' => orderly,
         \A g \in Gen : /\ dumper'[g].version = dumper[g].version
                        /\ dumper'[g].child = dumper[g].child
                        /\ \/ dumper'[g].step = dumper[g].step
                           \/ dumper[g].step \in Exited /\ dumper'[g].step = "reaped",
         pc = "dumping" => UNCHANGED pc
  PROVE  ServerDump'
<1>1. AtWork' = AtWork
  BY DEF AtWork, Working, Exited
<1>2. ServerAlone'
  BY <1>1 DEF ServerDump, ServerAlone, AtWork
<1>3. DumpingLast'
  BY <1>1 DEF ServerDump, DumpingLast, AtWork
<1>4. StoppedAfter'
  BY <1>1 DEF ServerDump, StoppedAfter, Exited
<1> QED
  BY <1>2, <1>3, <1>4 DEF ServerDump

LEMMA ServerDumpByDumps ==
  ASSUME IInv, ServerDump, NEW g \in Gen, Dumps(g)
  PROVE  ServerDump'
<1>0. TypeOK
  BY DEF IInv
<1>1. /\ g \in AtWork /\ UNCHANGED <<version, gen>> /\ (orderly' => orderly)
      /\ \A h \in Gen : /\ dumper'[h].version = dumper[h].version
                        /\ dumper'[h].child = dumper[h].child
                        /\ h # g => dumper'[h] = dumper[h]
      /\ GoesOn(g) \/ ChildEnds(g) \/ ServerEnds(g)
  BY <1>0, DumpsDo
<1>2. AtWork' \subseteq AtWork
  BY <1>1 DEF AtWork
<1>3. orderly => g = gen /\ AtWork = {g}
  BY <1>1 DEF IInv, InOrder, AtWork
<1>4. CASE GoesOn(g)
  <2>1. AtWork' = AtWork /\ UNCHANGED pc
    BY <1>1, <1>4 DEF GoesOn, AtWork
  <2>2. pc = "stopped" => ~orderly /\ g # gen
    BY <1>1, <1>4 DEF ServerDump, StoppedAfter, AtWork, Working
  <2>3. ServerAlone' /\ DumpingLast'
    BY <1>1, <2>1 DEF ServerDump, ServerAlone, DumpingLast, AtWork
  <2>4. StoppedAfter'
    BY <1>1, <2>1, <2>2 DEF ServerDump, StoppedAfter
  <2> QED
    BY <2>3, <2>4 DEF ServerDump
<1>5. CASE ChildEnds(g)
  <2>1. pc = "stopped" => ~orderly /\ g # gen
    BY <1>1 DEF ServerDump, StoppedAfter, AtWork, Working
  <2>2. pc = "dumping" => g # gen
    BY <1>5 DEF ServerDump, DumpingLast, ChildEnds
  <2>3. pc' = pc
    BY <1>5 DEF ChildEnds
  <2>4. ServerAlone' /\ DumpingLast'
    BY <1>1, <1>2, <2>2, <2>3 DEF ServerDump, ServerAlone, DumpingLast, AtWork
  <2>5. StoppedAfter'
    BY <1>1, <2>1, <2>3 DEF ServerDump, StoppedAfter
  <2> QED
    BY <2>4, <2>5 DEF ServerDump
<1>6. CASE ServerEnds(g)
  <2>1. g = gen /\ pc = "dumping" /\ dumper[g].version = version
    BY <1>1, <1>6 DEF ServerDump, ServerAlone, DumpingLast, ServerEnds
  <2>2. \A h \in AtWork' : dumper'[h].child
    BY <1>1, <1>6, <2>1 DEF ServerDump, ServerAlone, ServerEnds, AtWork, Working
  <2>3. AtWork' \subseteq AtWork \ {g}
    BY <1>2, <1>6 DEF ServerEnds, AtWork, Working
  <2>4. pc' = "stopped" => dumper'[g].step \in {"done", "failed"}
    BY <1>6 DEF ServerEnds
  <2>5. dumper'[g].step = "done" /\ orderly => disk'.dump = version
    <3>1. SUFFICES ASSUME dumper'[g].step = "done", orderly
                   PROVE  disk'.dump = version
      OBVIOUS
    <3>2. dumper[g].step = "rename" /\ disk'.dump = disk.temp[g]
      BY <1>6, <3>1 DEF ServerEnds
    <3> QED
      BY <1>1, <2>1, <3>1, <3>2 DEF IInv, InOrder
  <2>6. pc' # "dumping"
    BY <1>6 DEF ServerEnds
  <2> QED
    BY <1>1, <1>3, <2>1, <2>2, <2>3, <2>4, <2>5, <2>6
       DEF ServerDump, ServerAlone, DumpingLast, StoppedAfter
<1> QED
  BY <1>1, <1>4, <1>5, <1>6

LEMMA ServerDumpNext == IInv /\ ServerDump /\ [Next]_vars => ServerDump'
<1> SUFFICES ASSUME IInv, ServerDump, [Next]_vars
             PROVE  ServerDump'
  OBVIOUS
<1>0. TypeOK
  BY DEF IInv
<1>same. ASSUME UNCHANGED <<gen, dumper>>, orderly' => orderly,
                pc' \notin {"dumping", "stopped"} \/ UNCHANGED <<pc, version, disk>>,
                pc = "dumping" => UNCHANGED pc
         PROVE  ServerDump'
  BY <1>same, ServerDumpKept
<1> USE DEF history, asked, signals, At, Goto
<1>1. CASE Request \/ TimerFires \/ RequestShutdown \/ HandleSigchld
  BY <1>1, <1>same DEF Request, TimerFires, RequestShutdown, HandleSigchld
<1>2. CASE Change
  BY <1>2, <1>same DEF Change, Verbs
<1>3. CASE Panic
  <2>1. pc' = "panic" /\ UNCHANGED gen
    BY <1>3 DEF Panic
  <2>2. \A g \in AtWork' : g \in AtWork /\ dumper'[g].child
    BY <1>0, <1>3 DEF Panic, TypeOK, Dumper, AtWork, Working
  <2> QED
    BY <2>1, <2>2 DEF ServerDump, ServerAlone, DumpingLast, StoppedAfter
<1>4. CASE WaitForChildren
  <2>1. \A g \in Gen : /\ dumper'[g].version = dumper[g].version
                       /\ dumper'[g].child = dumper[g].child
                       /\ \/ dumper'[g].step = dumper[g].step
                          \/ dumper[g].step \in Exited /\ dumper'[g].step = "reaped"
    BY <1>0, <1>4 DEF WaitForChildren, Children, TypeOK, Dumper
  <2>2. UNCHANGED <<pc, version, gen, disk, orderly>>
    BY <1>4 DEF WaitForChildren
  <2> QED
    BY <2>1, <2>2, ServerDumpKept
<1>5. CASE BeginCheckpoint \/ NoCheckpoint \/ SetTimer \/ LeaveLoop \/ Report \/ NoReport
  BY <1>5, <1>same
     DEF BeginCheckpoint, NoCheckpoint, SetTimer, LeaveLoop, Report, NoReport
<1>6. CASE VerbEnds
  BY <1>6, <1>same DEF VerbEnds, AfterVerb, Verbs
<1>7. CASE PanicDump
  BY <1>7, <1>same DEF PanicDump
<1>8. CASE ForkFails
  <2>1. AtWork' = AtWork /\ UNCHANGED dumper /\ pc = "flush" /\ pc' = "refused"
    BY <1>8 DEF ForkFails, AtWork
  <2> QED
    BY <2>1 DEF ServerDump, ServerAlone, DumpingLast, StoppedAfter
<1>9. CASE Fork \/ Shutdown
  <2>0. gen + 1 \in Gen /\ gen + 1 # gen /\ gen \in Int
    BY <1>0, <1>9, ParametersAssumption DEF Fork, Shutdown, StartDump, TypeOK, Gen
  <2>1. PICK new : /\ gen' = gen + 1 /\ dumper' = [dumper EXCEPT ![gen + 1] = new]
                   /\ new.step = "open" /\ new.version = version /\ UNCHANGED version
                   /\ \/ new.child /\ pc = "flush" /\ pc' = "timer"
                      \/ ~new.child /\ pc = "down" /\ pc' = "dumping"
    <3>1. CASE Fork
      <4> DEFINE new == [step |-> "open", version |-> version, child |-> TRUE]
      <4>1. dumper' = [dumper EXCEPT ![gen + 1] = new] /\ gen' = gen + 1
        BY <3>1 DEF Fork, StartDump
      <4>2. UNCHANGED version /\ pc = "flush" /\ pc' = "timer"
        BY <3>1 DEF Fork
      <4>3. new.step = "open" /\ new.version = version /\ new.child
        OBVIOUS
      <4> HIDE DEF new
      <4> QED
        BY <4>1, <4>2, <4>3
    <3>2. CASE Shutdown
      <4> DEFINE new == [step |-> "open", version |-> version, child |-> FALSE]
      <4>1. dumper' = [dumper EXCEPT ![gen + 1] = new] /\ gen' = gen + 1
        BY <3>2 DEF Shutdown, StartDump
      <4>2. UNCHANGED version /\ pc = "down" /\ pc' = "dumping"
        BY <3>2 DEF Shutdown
      <4>3. new.step = "open" /\ new.version = version /\ ~new.child
        OBVIOUS
      <4> HIDE DEF new
      <4> QED
        BY <4>1, <4>2, <4>3
    <3> QED
      BY <1>9, <3>1, <3>2
  <2>2. /\ dumper'[gen + 1] = new
        /\ \A h \in Gen : h # gen + 1 => dumper'[h] = dumper[h]
    BY <1>0, <2>0, <2>1 DEF TypeOK
  <2>3. \A g \in AtWork : dumper[g].child
    BY <2>1 DEF ServerDump, ServerAlone
  <2>4. gen' \in AtWork'
    BY <2>0, <2>1, <2>2 DEF AtWork, Working
  <2>5. \A g \in AtWork' : g # gen + 1 => dumper'[g].child
    BY <2>2, <2>3 DEF AtWork
  <2> QED
    BY <2>1, <2>2, <2>4, <2>5 DEF ServerDump, ServerAlone, DumpingLast, StoppedAfter
<1>10. CASE \E g \in Gen : Dumps(g)
  BY <1>10, ServerDumpByDumps
<1>11. CASE UNCHANGED vars
  BY <1>11, <1>same DEF vars
<1> QED
  BY <1>1, <1>2, <1>3, <1>4, <1>5, <1>6, <1>7, <1>8, <1>9, <1>10, <1>11
     DEF Next, Outside, Signal, Main

\* After a shutdown that no checkpoint overlapped, when every process has
\* ended, the dump file is the last version, save for a dump that could not be
\* opened or renamed, whatever else failed before.
THEOREM ShutdownFlushesIfAlone == Spec => []ShutdownFlushesAlone
<1>1. Spec => []ServerDump
  BY ServerDumpInit, ServerDumpNext, Invariance, PTL DEF Spec
<1>2. ServerDump => ShutdownFlushesAlone
  BY DEF ServerDump, StoppedAfter, ShutdownFlushesAlone, ShutdownFlushes
<1> QED
  BY <1>1, <1>2, PTL

-----------------------------------------------------------------------------
(***************************************************************************)
(* What :checkpoint_finished() reports.  When all is in order a SIGCHLD is *)
(* pending, or being handled, just when a child that ended was not waited  *)
(* for, and nobody else is at work then: the handler finds that child, so  *)
(* it never reports a status that no child left.                           *)
(***************************************************************************)
SignalsInOrder ==
    orderly =>
        /\ (sigchld \/ handling) <=> Children # {}
        /\ ~(sigchld /\ handling)
        /\ sigchld \/ handling => AtWork = {}
SuccessOnDisk ==
    orderly => /\ \A g \in Children : dumper[g].step = "ok" => OnDisk(dumper[g].version)
               /\ finished = 2 => OnDisk(last)
ReportInv == SignalsInOrder /\ SuccessOnDisk /\ ReportTrue

NoneOlder == \A v \in Version : OnDisk(v) => OnDisk(v)'

LEMMA ReportInit == Init => ReportInv
<1> SUFFICES ASSUME Init PROVE ReportInv
  OBVIOUS
<1>1. \A g \in Gen : dumper[g].step = "none"
  BY DEF Init
<1>2. ~sigchld /\ ~handling /\ finished = 0 /\ safe = 0
  BY DEF Init
<1>3. Children = {}
  BY <1>1 DEF Children, Exited
<1> QED
  BY <1>2, <1>3 DEF ReportInv, SignalsInOrder, SuccessOnDisk, ReportTrue

\* What a report needs of the steps that leave the dumps and signals alone.
LEMMA ReportKept ==
  ASSUME TypeOK, ReportInv, orderly' => orderly,
         orderly' => NoneOlder,
         UNCHANGED <<sigchld, handling, last>>, finished' \in {finished, 0}, Children' = Children,
         AtWork' = AtWork \/ ~(sigchld \/ handling),
         \A g \in Children : dumper'[g] = dumper[g],
         safe' = safe \/ (safe' = last /\ finished = 2)
  PROVE  ReportInv'
<1>1. SignalsInOrder'
  BY DEF ReportInv, SignalsInOrder
<1>2. /\ last \in Version /\ safe \in Version
      /\ \A g \in Children : dumper[g].version \in Version
  BY DEF TypeOK, Children, Dumper
<1>3. SuccessOnDisk'
  <2> SUFFICES ASSUME orderly'
               PROVE  /\ \A g \in Children' : dumper'[g].step = "ok" => OnDisk(dumper[g].version)'
                      /\ finished' = 2 => OnDisk(last)'
    BY DEF SuccessOnDisk, OnDisk, Files
  <2>1. ASSUME NEW g \in Children', dumper'[g].step = "ok"
        PROVE  OnDisk(dumper[g].version)'
    <3>1. dumper'[g] = dumper[g] /\ OnDisk(dumper[g].version)
      BY <2>1 DEF ReportInv, SuccessOnDisk
    <3> QED
      BY <1>2, <2>1, <3>1 DEF OnDisk, NoneOlder
  <2>2. finished' = 2 => OnDisk(last)'
    BY <1>2 DEF ReportInv, SuccessOnDisk, OnDisk, NoneOlder
  <2> QED
    BY <2>1, <2>2
<1>4. ReportTrue'
  BY <1>2 DEF ReportInv, SuccessOnDisk, ReportTrue, OnDisk, NoneOlder
<1> QED
  BY <1>1, <1>3, <1>4 DEF ReportInv

LEMMA ReportByDumps ==
  ASSUME IInv, ReportInv, NEW g \in Gen, Dumps(g),
         orderly' => NoneOlder
  PROVE  ReportInv'
<1>0. TypeOK
  BY DEF IInv
<1>1. /\ g \in AtWork /\ (orderly' => orderly)
      /\ UNCHANGED <<handling, finished, last, safe>>
      /\ \A h \in Gen : /\ dumper'[h].version = dumper[h].version
                        /\ h # g => dumper'[h] = dumper[h]
      /\ GoesOn(g) \/ ChildEnds(g) \/ ServerEnds(g)
  BY <1>0, DumpsDo
<1>2. \A h \in Children : dumper'[h] = dumper[h]
  BY <1>1 DEF AtWork, Working, Children, Exited
<1>3. orderly => ~sigchld /\ ~handling /\ Children = {} /\ AtWork = {g}
  BY <1>1 DEF ReportInv, SignalsInOrder, IInv, InOrder, AtWork
<1>4. CASE ~orderly'
  BY <1>4 DEF ReportInv, SignalsInOrder, SuccessOnDisk, ReportTrue
<1>5. CASE orderly' /\ ~ChildEnds(g)
  <2>1. Children' = Children
    BY <1>1, <1>5 DEF GoesOn, ServerEnds, Children, Exited, Working, AtWork
  <2>2. UNCHANGED sigchld
    BY <1>1, <1>5 DEF GoesOn, ServerEnds
  <2> QED
    BY <1>0, <1>1, <1>2, <1>3, <1>5, <2>1, <2>2, ReportKept
<1>6. CASE orderly' /\ ChildEnds(g)
  <2>1. Children' = {g} /\ AtWork' = {}
    BY <1>1, <1>3, <1>6 DEF ChildEnds, Children, Exited, AtWork, Working
  <2>2. SignalsInOrder'
    BY <1>1, <1>3, <1>6, <2>1 DEF SignalsInOrder, ChildEnds
  <2>3. dumper'[g].step = "ok" => disk'.dump = dumper'[g].version
    <3>1. SUFFICES ASSUME dumper'[g].step = "ok"
                   PROVE  disk'.dump = dumper'[g].version
      OBVIOUS
    <3>2. dumper[g].step = "rename" /\ disk'.dump = disk.temp[g]
      BY <1>6, <3>1 DEF ChildEnds
    <3> QED
      BY <1>1, <1>6, <3>2 DEF IInv, InOrder
  <2>4. dumper'[g].version \in Int /\ disk'.dump \in Files'
    BY <1>0, <1>1, SpecialFiles DEF TypeOK, Dumper, Files
  <2>5. last \in Version /\ safe \in Version
    BY <1>0 DEF TypeOK
  <2>6. SuccessOnDisk'
    BY <1>1, <1>6, <2>1, <2>3, <2>4, <2>5 DEF ReportInv, SuccessOnDisk, OnDisk, NoneOlder
  <2>7. ReportTrue'
    BY <1>1, <1>6, <2>5 DEF ReportInv, ReportTrue, OnDisk, NoneOlder
  <2> QED
    BY <2>2, <2>6, <2>7 DEF ReportInv
<1> QED
  BY <1>1, <1>4, <1>5, <1>6

LEMMA ReportByWait ==
  ASSUME IInv, ReportInv, WaitForChildren
  PROVE  ReportInv'
<1>0. TypeOK
  BY DEF IInv
<1>1. UNCHANGED <<disk, sigchld, safe, orderly>> /\ handling /\ handling' = FALSE
  BY DEF WaitForChildren
<1>2. \A g \in Gen : dumper'[g].step = IF g \in Children THEN "reaped" ELSE dumper[g].step
  BY <1>0 DEF WaitForChildren, TypeOK, Dumper
<1>3. Children' = {}
  BY <1>2 DEF Children, Exited
<1>4. AtWork' = AtWork
  BY <1>2 DEF AtWork, Working, Children, Exited
<1>5. orderly => Children # {} /\ ~sigchld
  BY <1>1 DEF ReportInv, SignalsInOrder
<1>6. orderly => (finished' = 2 => OnDisk(last'))
  BY <1>5 DEF WaitForChildren, ReportInv, SuccessOnDisk
<1>7. \A v : OnDisk(v) => OnDisk(v)'
  BY <1>1 DEF OnDisk, Files
<1>8. SuccessOnDisk'
  BY <1>1, <1>3, <1>6 DEF SuccessOnDisk, OnDisk, Files
<1>9. SignalsInOrder' /\ ReportTrue'
  BY <1>1, <1>3, <1>5 DEF ReportInv, SignalsInOrder, ReportTrue, OnDisk, Files
<1> QED
  BY <1>8, <1>9 DEF ReportInv

LEMMA ReportNext == IInv /\ IInv' /\ ReportInv /\ [Next]_vars => ReportInv'
<1> SUFFICES ASSUME IInv, IInv', ReportInv, [Next]_vars
             PROVE  ReportInv'
  OBVIOUS
<1>0. TypeOK
  BY DEF IInv
<1>kept. orderly' => NoneOlder
  BY KeptByAll, KeptIsOnDisk DEF NoneOlder
<1>same. ASSUME UNCHANGED <<dumper, sigchld, handling, last>>, orderly' => orderly,
                finished' \in {finished, 0}, safe' = safe \/ (safe' = last /\ finished = 2)
         PROVE  ReportInv'
  <2>1. Children' = Children /\ AtWork' = AtWork /\ \A g \in Children : dumper'[g] = dumper[g]
    BY <1>same DEF Children, AtWork
  <2> QED
    BY <1>0, <1>same, <1>kept, <2>1, ReportKept
<1> USE DEF history, asked, signals, At, Goto
<1>1. CASE Request \/ TimerFires \/ RequestShutdown \/ Change
  BY <1>1, <1>same DEF Request, TimerFires, RequestShutdown, Change
<1>2. CASE Panic
  <2>1. /\ UNCHANGED <<sigchld, handling, finished, last, safe>>
        /\ orderly' => orderly /\ AtWork = {}
    BY <1>2 DEF Panic, LastOver
  <2>2. \A g \in Gen : g \notin AtWork => dumper'[g] = dumper[g]
    BY <1>0, <1>2 DEF Panic, TypeOK
  <2>3. CASE orderly'
    <3>1. UNCHANGED dumper
      BY <1>0, <1>2, <2>1, <2>3 DEF Panic, TypeOK
    <3> QED
      BY <2>1, <3>1, <1>same
  <2>4. CASE ~orderly'
    BY <2>4 DEF ReportInv, SignalsInOrder, SuccessOnDisk, ReportTrue
  <2> QED
    BY <2>3, <2>4
<1>3. CASE HandleSigchld
  <2>1. Children' = Children /\ AtWork' = AtWork /\ Files' = Files
    BY <1>3 DEF HandleSigchld, Children, AtWork, Files
  <2> QED
    BY <1>3, <2>1
       DEF HandleSigchld, ReportInv, SignalsInOrder, SuccessOnDisk, ReportTrue, OnDisk
<1>4. CASE WaitForChildren
  BY <1>4, ReportByWait
<1>5. CASE BeginCheckpoint \/ NoCheckpoint \/ SetTimer \/ LeaveLoop \/ NoReport
  BY <1>5, <1>same DEF BeginCheckpoint, NoCheckpoint, SetTimer, LeaveLoop, NoReport
<1>6. CASE Report
  BY <1>6, <1>same DEF Report
<1>7. CASE VerbEnds
  BY <1>7, <1>same DEF VerbEnds
<1>8. CASE ForkFails \/ PanicDump
  <2>1. UNCHANGED <<dumper, sigchld, handling, finished, last, safe>>
    BY <1>8 DEF ForkFails, PanicDump
  <2>2. orderly' => orderly
    BY <1>8 DEF ForkFails, PanicDump
  <2> QED
    BY <2>1, <2>2, <1>same
<1>9. CASE Fork \/ Shutdown
  <2>1. /\ UNCHANGED <<sigchld, handling, finished, last, safe>>
        /\ ~sigchld /\ ~handling /\ (orderly' => orderly)
    BY <1>9 DEF Fork, Shutdown, StartDump
  <2>2. /\ gen + 1 \in Gen /\ dumper[gen + 1].step = "none"
        /\ dumper'[gen + 1].step = "open" /\ \A g \in Gen : g # gen + 1 => dumper'[g] = dumper[g]
    <3>1. gen + 1 \in Gen /\ gen + 1 > gen
      BY <1>0, <1>9, ParametersAssumption DEF Fork, Shutdown, StartDump, TypeOK, Gen
    <3> QED
      BY <1>0, <1>9, <3>1 DEF Fork, Shutdown, StartDump, TypeOK
  <2>3. Children' = Children /\ \A g \in Children : dumper'[g] = dumper[g]
    BY <2>2 DEF Children, Exited
  <2> QED
    BY <1>0, <1>kept, <2>1, <2>3, ReportKept
<1>10. CASE \E g \in Gen : Dumps(g)
  BY <1>10, <1>kept, ReportByDumps
<1>11. CASE UNCHANGED vars
  BY <1>11, <1>same DEF vars
<1> QED
  BY <1>1, <1>2, <1>3, <1>4, <1>5, <1>6, <1>7, <1>8, <1>9, <1>10, <1>11
     DEF Next, Outside, Signal, Main

\* A version that :checkpoint_finished(1) told the MOO code of is on disk, for
\* any faults, unless dumps overlap or are cut short.
THEOREM ReportIsTrue == Spec => []ReportTrue
<1>1. Spec => []ReportInv
  BY ReportInit, ReportNext, Invariance, PTL DEF Spec
<1>2. ReportInv => ReportTrue
  BY DEF ReportInv
<1> QED
  BY <1>1, <1>2, PTL
=============================================================================
