----------------------------- MODULE NetOutput ------------------------------
(***************************************************************************)
(* The output queue of one connection (the nhandle of net_multi.c).        *)
(*                                                                         *)
(* Lines wait as blocks, of which write() may take any part; when too much *)
(* waits, the oldest blocks are dropped, and the client is told how many   *)
(* before it gets anything else.  Lines are numbered as they come, and     *)
(* only their lengths, ends of lines included, are kept of them.           *)
(***************************************************************************)
EXTENDS Integers, SequencesExt

CONSTANTS
    MAX_QUEUED_OUTPUT,
    Length,              \* lengths of lines
    MaxSent              \* a bound: lines given to the network

ASSUME OutputAssumption == MAX_QUEUED_OUTPUT \in Nat /\ Length \subseteq Nat /\ MaxSent \in Nat

VARIABLES
    output,               \* the blocks: the number of the line, and what is left of it
    output_length,
    output_lines_flushed,
    accepted,             \* lines taken so far
    accounted,            \* lines of those that the client got whole or was told are lost
    closed

outputVars == <<output, output_length, output_lines_flushed, accepted, accounted, closed>>

InitOutput ==
    /\ output = <<>> /\ output_length = 0 /\ output_lines_flushed = 0
    /\ accepted = 0 /\ accounted = 0 /\ closed = FALSE

\* What the first n blocks hold.
Bytes(blocks, n) ==
    LET sum[m \in 0 .. n] == IF m = 0 THEN 0 ELSE sum[m - 1] + blocks[m].left
    IN  sum[n]

(***************************************************************************)
(* push_output(): what is left of the queue, of its length and of the      *)
(* count of lost lines, and what the client can account for then.  First   *)
(* comes the report, whole or else nothing more; then n blocks whole and a *)
(* part of the next.  Then there is no more, or write() takes no more now, *)
(* or the connection is broken.                                            *)
(***************************************************************************)
Queue(blocks, length, flushed, seen) ==
    [blocks |-> blocks, length |-> length, flushed |-> flushed, accounted |-> seen]
Unpushed == Queue(output, output_length, output_lines_flushed, accounted)
Begun(blocks, part) == IF part = 0 THEN blocks ELSE [blocks EXCEPT ![1].left = @ - part]
Written(n, part) ==
    LET rest == Begun(SubSeq(output, n + 1, Len(output)), part)
    IN  Queue(rest, output_length - (Bytes(output, n) + part), 0,
              accounted + output_lines_flushed + n)
Parts(n) == IF n = Len(output) THEN {0} ELSE {0} \cup 1 .. output[n + 1].left - 1
Pushed_ReportCut ==
    {[Unpushed EXCEPT !.flushed = 0]} \cup UNION {{Written(n, part) : part \in Parts(n)} : n \in 0 .. Len(output)}
Pushed == {Unpushed} \cup UNION {{Written(n, part) : part \in Parts(n)} : n \in 0 .. Len(output)}

Becomes(q) ==
    /\ output' = q.blocks /\ output_length' = q.length
    /\ output_lines_flushed' = q.flushed /\ accounted' = q.accounted

(* network_process_io() waits for the connection only if blocks wait.      *)
PushOutput ==
    /\ ~closed /\ output # <<>> /\ \E q \in Pushed : Becomes(q)
    /\ UNCHANGED <<accepted, closed>>

(***************************************************************************)
(* enqueue_output()                                                        *)
(***************************************************************************)
(* How many of the oldest blocks make up to_flush, or all.                 *)
ToDrop(q, to_flush) ==
    LET Enough(n) == n = Len(q.blocks) \/ Bytes(q.blocks, n) >= to_flush
    IN  CHOOSE n \in 0 .. Len(q.blocks) : Enough(n) /\ \A m \in 0 .. n - 1 : ~Enough(m)
WithoutOldest(q, n) ==
    Queue(SubSeq(q.blocks, n + 1, Len(q.blocks)), q.length - Bytes(q.blocks, n),
          q.flushed + n, q.accounted)
Added(q, length) ==
    Queue(Append(q.blocks, [line |-> accepted + 1, left |-> length]), q.length + length,
          q.flushed, q.accounted)

MustFlush(length) == output_length # 0 /\ output_length + length > MAX_QUEUED_OUTPUT
EnqueueOutput(length, flush_ok) ==
    \E q \in IF MustFlush(length) THEN Pushed ELSE {Unpushed} :
        LET to_flush == q.length + length - MAX_QUEUED_OUTPUT
            flush    == MustFlush(length) /\ to_flush > 0
        IN  IF flush /\ ~flush_ok THEN Becomes(q) /\ UNCHANGED accepted
            ELSE /\ Becomes(Added(IF flush THEN WithoutOldest(q, ToDrop(q, to_flush)) ELSE q, length))
                 /\ accepted' = accepted + 1

(* network_send_line(), network_send_bytes()                               *)
Send ==
    /\ ~closed /\ accepted < MaxSent
    /\ \E length \in Length, flush_ok \in BOOLEAN : EnqueueOutput(length, flush_ok)
    /\ UNCHANGED closed

(* network_close(): pushes once more; what is left is dropped.             *)
CloseOutput ==
    /\ ~closed /\ closed' = TRUE
    /\ \E q \in Pushed : Becomes([q EXCEPT !.blocks = <<>>, !.length = 0])
    /\ UNCHANGED accepted

NextOutput == PushOutput \/ Send \/ CloseOutput

SpecOutput == InitOutput /\ [][NextOutput]_outputVars

(***************************************************************************)
(* Properties                                                              *)
(***************************************************************************)
(* However writes are cut short and blocks dropped, begun or not: what     *)
(* waits are the latest lines in order; every line before those the client *)
(* has got or has been told is lost, or will be before it gets another,    *)
(* for which output has to wait; and the length, which decides on more     *)
(* losses, is that of the queue, never past MAX_QUEUED_OUTPUT but for one  *)
(* long line.                                                              *)
EveryLineAccounted ==
    ~closed =>
        /\ \A i \in DOMAIN output : output[i].line = accepted - Len(output) + i
        /\ accounted + output_lines_flushed = accepted - Len(output)
        /\ output_lines_flushed > 0 => output # <<>>
        /\ output_length = Bytes(output, Len(output))
        /\ output_length > MAX_QUEUED_OUTPUT => Bytes(output, Len(output) - 1) = 0
=============================================================================
