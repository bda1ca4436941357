---------------------------- MODULE Interpreter ----------------------------
(***************************************************************************)
(* execute.c: the virtual machine that runs the code of verbs.  A task is  *)
(* a stack of activations, each a verb with its program counter, its run-  *)
(* time stack and its variables; an error, a return, a break or the end of *)
(* a killed task unwinds them through the handlers that the code left on   *)
(* the run-time stacks and through the built-in functions that called the  *)
(* verbs.                                                                  *)
(*                                                                         *)
(* A program has verbs <<name, body>>, the first one the main one, and     *)
(* quiet, the names of the verbs without the `d' flag: there an error is   *)
(* a value.  Every valid object has each of the verbs.  A task's answers   *)
(* are what the built-ins that nobody can foresee (read(), random(), ...)  *)
(* answer: a value, an error, a suspension with what resumes it, or the    *)
(* task's own end by kill_task().                                          *)
(***************************************************************************)
EXTENDS CodeGen, Values, TLC

CONSTANTS Programs, \* the programs to run
          Vars,     \* the names of their variables
          Objects,  \* the valid objects
          Answers,  \* what ask() may answer
          MaxAsks,  \* bound: from then on it answers 0
          MaxDepth  \* #0.server_options.max_stack_depth: activations

VARIABLES program,  \* the one that runs
          vectors,  \* the code of its verbs, from code_gen.c
          vm,       \* the machine
          asked     \* the answers so far
vars == <<program, vectors, vm, asked>>

Nothing == "#-1"
NoCall  == [func |-> "", pc |-> 0, data |-> <<>>]    \* bi_func_pc == 0
Calm    == <<>>                                      \* nothing to unwind for

(* A fork's vector is named by the place of the operand that holds it.     *)
RECURSIVE Vector(_)
Vector(vec) == IF Len(vec) = 1 THEN vectors[vec[1]]
               ELSE Vector(Front(vec)).code[Last(vec)][2]

(***************************************************************************)
(* The machine as a value: activations, what has become of the task, what  *)
(* the world saw.                                                          *)
(***************************************************************************)
Top(m) == Last(m.activs)
WithTop(m, a) == [m EXCEPT !.activs[Len(m.activs)] = a]
Push(a, v) == [a EXCEPT !.rts = Append(@, v)]

VerbIndex(name) ==
  {i \in DOMAIN program.verbs : program.verbs[i][1] = name}

Activation(vec, name, args) ==
  [vec |-> vec, verb |-> name, pc |-> 1, rts |-> <<>>,
   env |-> [v \in Vars |-> IF v = "args" THEN args ELSE Unset],
   temp |-> Unset, debug |-> name \notin program.quiet, bi |-> NoCall]

(* call_verb(): an error leaves the machine as it was.                     *)
CallError(m, obj, found) ==
  IF obj \notin Objects THEN "E_INVIND"
  ELSE IF found = {} THEN "E_VERBNF"
  ELSE IF Len(m.activs) >= MaxDepth THEN "E_MAXREC" ELSE "E_NONE"
CallVerb(m, obj, name, args) ==
  LET err == CallError(m, obj, VerbIndex(name))
  IN [err |-> err,
      m   |-> IF err # "E_NONE" THEN m
              ELSE [m EXCEPT !.activs =
                      Append(@, Activation(<<Max(VerbIndex(name))>>, name, args))]]

(***************************************************************************)
(* Built-in functions.  One that calls a verb is called again, at the pc   *)
(* it left, with what the verb returned.                                   *)
(***************************************************************************)
Package(kind, value, m) == [kind |-> kind, value |-> value, m |-> m, pc |-> 0, data |-> <<>>]
CallPack(m, pc, data) == [Package("call", Zero, m) EXCEPT !.pc = pc, !.data = data]
ErrorPack(m, e) == Package("raise", Err(e), m)
NoVarPack(m) == Package("return", Zero, m)

(* do_move() from case 3 on: the thing may have been moved on meanwhile.   *)
Entered(m, data, enter) ==
  CASE enter.err = "E_NONE"   -> CallPack(enter.m, 4, data)
    [] enter.err = "E_MAXREC" -> ErrorPack(m, "E_MAXREC")
    [] OTHER                  -> NoVarPack(m)
MoveEntered(m, data) ==
  IF m.loc # data.where THEN NoVarPack(m)
  ELSE Entered(m, data, CallVerb(m, data.where, "enterfunc", List(<<<<"obj", data.what>>>>)))

(* From accepts_decided on; moved is the machine after the move.           *)
Left(moved, data, exit) ==
  CASE exit.err = "E_NONE"   -> CallPack(exit.m, 3, data)
    [] exit.err = "E_MAXREC" -> ErrorPack(moved, "E_MAXREC")
    [] OTHER                 -> MoveEntered(moved, data)
MoveAccepted(m, data, accepts) ==
  CASE ~ accepts -> ErrorPack(m, "E_NACC")
    [] accepts /\ m.loc = data.where -> NoVarPack(m)
    [] OTHER -> Left([m EXCEPT !.loc = data.where], data,
                     CallVerb([m EXCEPT !.loc = data.where], m.loc, "exitfunc",
                              List(<<<<"obj", data.what>>>>)))

(* What call_verb() answered for accept: a place without it takes nothing. *)
Accept(m, data, accept) ==
  CASE accept.err = "E_NONE"   -> CallPack(accept.m, 2, data)
    [] accept.err = "E_VERBNF" -> MoveAccepted(m, data, FALSE)
    [] accept.err = "E_MAXREC" -> ErrorPack(m, "E_MAXREC")

DoMove(m, arg, next, data) ==
  CASE next = 1 /\ data.where = Nothing -> MoveAccepted(m, data, TRUE)
    [] next = 1 /\ data.where \notin Objects \cup {Nothing} -> ErrorPack(m, "E_INVARG")
    [] next = 1 /\ data.where \in Objects ->
         Accept(m, data, CallVerb(m, data.where, "accept", List(<<<<"obj", data.what>>>>)))
    [] next = 2 -> MoveAccepted(m, data, IsTrue(arg))
    [] next = 3 -> MoveEntered(m, data)
    [] next = 4 -> NoVarPack(m)

Answered(m, answer) ==
  CASE answer[1] = "value"   -> Package("return", answer[2], m)
    [] answer[1] = "raise"   -> Package("raise", answer[2], m)
    [] answer[1] = "suspend" -> Package("suspend", answer[2], m)
    [] answer[1] = "kill"    -> NoVarPack([m EXCEPT !.killed = TRUE])

Passed(m, called) ==
  IF called.err = "E_NONE" THEN CallPack(called.m, 0, <<>>) ELSE ErrorPack(m, called.err)

(* call_bi_func(): arg is the list of arguments at first (next = 1), then  *)
(* the value that the verb returned.                                       *)
CallBi(m, func, arg, next, data, answer) ==
  CASE func = "note"  -> Package("return", arg[2][1], [m EXCEPT !.notes = Append(@, arg[2][1])])
    [] func = "ask"   -> Answered(m, answer)
    [] func = "raise" -> Package("raise", arg[2][1], m)
    [] func = "pass"  ->
         Passed(m, CallVerb(m, "thing",
                            IF Top(m).verb = "inherited" THEN "" ELSE "inherited", arg))
    [] func = "move"  ->
         DoMove(m, arg, next, IF next > 1 THEN data
                              ELSE [what |-> arg[2][1][2], where |-> arg[2][2][2]])

(* bf_call_function() stands between, and keeps the name and the data of   *)
(* the function that it called.                                            *)
Wrapped(p, func) ==
  IF p.kind = "call" THEN [p EXCEPT !.data = [func |-> func, data |-> p.data]] ELSE p
CallBiFunc(m, func, arg, next, data, answer) ==
  IF func # "call_function" THEN CallBi(m, func, arg, next, data, answer)
  ELSE LET inner == IF next = 1 THEN arg[2][1][2][1] ELSE data.func
       IN Wrapped(CallBi(m, inner, IF next = 1 THEN List(Tail(arg[2])) ELSE arg, next,
                         IF next = 1 THEN <<>> ELSE data.data, answer), inner)

(***************************************************************************)
(* unwind_stack(): why is "return", "exit", "raise", "uncaught" or "abort";*)
(* value is what is returned, where to exit to, or the error's list.       *)
(***************************************************************************)
Matches(code, codes) == codes[1] # "list" \/ IsMember(code, codes)

(* The arms below the marker at i, each its codes and its label, that take *)
(* the error.                                                              *)
Arms(a, i, code) ==
  LET n == a.rts[i][2]
  IN {k \in 1 .. n : Matches(code, a.rts[i - 2 * n + 2 * (k - 1)])}

Catches(a, code) == {i \in DOMAIN a.rts : a.rts[i][1] = "CATCH" /\ Arms(a, i, code) # {}}

Stops_NotReturn(a, why, value) ==   \* wrong: returning out of a body skips its FINALLY
  {i \in DOMAIN a.rts :
     /\ why = "exit" => i > value[2]
     /\ \/ why \notin {"abort", "return"} /\ a.rts[i][1] = "FINALLY"
        \/ why = "raise" /\ i \in Catches(a, value[2][1])}
Stops(a, why, value) ==
  {i \in DOMAIN a.rts :
     /\ why = "exit" => i > value[2]
     /\ \/ why # "abort" /\ a.rts[i][1] = "FINALLY"
        \/ why = "raise" /\ i \in Catches(a, value[2][1])}

(* The innermost handler: a FINALLY is told why it runs and with what.     *)
Handle(a, i, why, value) ==
  IF a.rts[i][1] = "FINALLY"
  THEN [a EXCEPT !.pc = a.rts[i][2],
                 !.rts = SubSeq(@, 1, i - 1) \o <<<<"why", why>>, value>>]
  ELSE LET n == a.rts[i][2]
           k == Min(Arms(a, i, value[2][1]))
       IN [a EXCEPT !.pc = a.rts[i - 2 * n + 2 * k - 1][2],
                    !.rts = Append(SubSeq(@, 1, i - 2 * n - 1), value)]

Unwinding(m, why, value) == [m EXCEPT !.unwind = <<why, value>>]

(* raise_error() decides here whether the error is caught at all.  Of the  *)
(* error's list only the code is kept.                                     *)
RaiseError(m, code) ==
  IF \E i \in DOMAIN m.activs : Catches(m.activs[i], code) # {}
  THEN Unwinding(m, "raise", List(<<code>>))
  ELSE Unwinding(m, "uncaught", Zero)

(* What a built-in's continuation makes of the value a verb returned.      *)
Continued(p, func) ==
  CASE p.kind = "return" -> WithTop(p.m, Push(Top(p.m), p.value))
    [] p.kind = "raise" -> IF Top(p.m).debug THEN RaiseError(p.m, p.value)
                           ELSE WithTop(p.m, Push(Top(p.m), p.value))
    [] p.kind = "call" ->
         WithTop(p.m, [Top(p.m) EXCEPT !.bi = [func |-> func, pc |-> p.pc, data |-> p.data]])

(* On errors a built-in is called again with zero, until it is done; the   *)
(* verbs it calls do not run and what it raises is dropped.                *)
RECURSIVE Squelched(_, _, _, _), SquelchOnce(_, _), Settled(_)
Squelched(m, func, pc, data) ==
  IF pc = 0 THEN m ELSE SquelchOnce(CallBiFunc(m, func, Zero, pc, data, <<>>), func)
SquelchOnce(p, func) ==
  IF p.kind = "call" THEN Squelched([p.m EXCEPT !.activs = Front(@)], func, p.pc, p.data)
  ELSE p.m

(* The activation that the frame left behind, bi the built-in that called  *)
(* the verb.                                                               *)
Leave(m, bi, why, value) ==
  CASE m.activs = <<>> ->
         [m EXCEPT !.status = "ended", !.unwind = Calm,
                   !.ended = Append(@, IF why = "return" THEN value ELSE Error("aborted"))]
    [] m.activs # <<>> /\ why # "return" -> Squelched(m, bi.func, bi.pc, bi.data)
    [] OTHER ->
         LET calm == [m EXCEPT !.unwind = Calm]
         IN IF bi.pc = 0 THEN WithTop(calm, Push(Top(calm), value))
            ELSE Continued(CallBiFunc(calm, bi.func, value, bi.pc, bi.data, <<>>), bi.func)

UnwindFrame(m, a, why, value, stops) ==
  CASE stops # {} -> WithTop([m EXCEPT !.unwind = Calm], Handle(a, Max(stops), why, value))
    [] stops = {} /\ why = "exit" ->
         WithTop([m EXCEPT !.unwind = Calm],
                 [a EXCEPT !.pc = value[3], !.rts = SubSeq(@, 1, value[2])])
    [] OTHER -> Leave([m EXCEPT !.activs = Front(@)], a.bi, why, value)

(* unwind_stack(), from frame to frame and through what it calls again.    *)
Settled(m) ==
  IF m.unwind = Calm THEN m
  ELSE Settled(UnwindFrame(m, Top(m), m.unwind[1], m.unwind[2],
                           Stops(Top(m), m.unwind[1], m.unwind[2])))

(* PUSH_ERROR(): without the `d' flag the error is the value.              *)
PushError(m, a, code) ==
  IF a.debug THEN RaiseError(WithTop(m, a), code) ELSE WithTop(m, Push(a, code))

(***************************************************************************)
(* run(): one action for each opcode or group of opcodes.                  *)
(***************************************************************************)
A == Top(vm)
Unit(k) == Vector(A.vec).code[A.pc + k]
Oper(k) == Unit(k)[2]
Under(n) == A.rts[Len(A.rts) - n]

Running == vm.status = "running" /\ ~ vm.killed
Executes(ops) == Running /\ Unit(0)[1] \in ops

(* A without its n top values, past the units of the instruction.          *)
After(n, units) == [A EXCEPT !.rts = SubSeq(@, 1, Len(@) - n), !.pc = @ + units]
AfterTo(n, label) == [After(n, 0) EXCEPT !.pc = label]

Becomes(m) == vm' = Settled(m) /\ UNCHANGED <<program, vectors, asked>>
Goes(a) == Becomes(WithTop(vm, a))
Raises(e) == Becomes(RaiseError(vm, Err(e)))

(* The answer of an operator in the place of its n operands.               *)
Yields(n, v) ==
  LET a == After(n, 1)
  IN Becomes(IF v[1] = "raise" THEN PushError(vm, a, Err(v[2]))
             ELSE WithTop(vm, Push(a, v)))

Init ==
  /\ program \in Programs
  /\ vectors = [i \in DOMAIN program.verbs |->
                StmtToCode(program.verbs[i][2], 1)]
  /\ vm = [activs |-> <<Activation(<<1>>, "main", List(<<>>))>>, status |-> "running",
           killed |-> FALSE, ended |-> <<>>, forks |-> <<>>, notes |-> <<>>,
           unwind |-> Calm, loc |-> "hall", prop |-> Num(3)]
  /\ asked = <<>>

DoTest ==
  /\ Executes({"IF", "EIF", "WHILE", "IF_QUES"})
  /\ Goes(IF IsTrue(Under(0)) THEN After(1, 2) ELSE AfterTo(1, Oper(1)))

WhileId ==
  /\ Executes({"WHILE_ID"})
  /\ LET a == IF IsTrue(Under(0)) THEN After(1, 3) ELSE AfterTo(1, Oper(2))
     IN Goes([a EXCEPT !.env[Oper(1)] = Under(0)])

JumpTo ==
  /\ Executes({"JUMP"})
  /\ Goes(AfterTo(0, Oper(1)))

(* A loop that is done drops its two values; a wrong one does without the  *)
(* `d' flag.                                                               *)
ForList ==
  /\ Executes({"FOR_LIST"})
  /\ LET list == Under(1)  i == Under(0)[2]
     IN CASE list[1] # "list" ->
               IF A.debug THEN Raises("E_TYPE") ELSE Goes(AfterTo(2, Oper(2)))
          [] list[1] = "list" ->
               IF i > Len(list[2]) THEN Goes(AfterTo(2, Oper(2)))
               ELSE Goes([Push(After(1, 3), Num(i + 1)) EXCEPT
                            !.env[Oper(1)] = list[2][i]])

ForRange ==
  /\ Executes({"FOR_RANGE"})
  /\ LET from == Under(1)  to == Under(0)
     IN CASE from[1] # to[1] \/ to[1] \notin {"int", "obj"} ->
               IF A.debug THEN Raises("E_TYPE") ELSE Goes(AfterTo(2, Oper(2)))
          [] from[1] = to[1] /\ to[1] \in {"int", "obj"} ->
               IF Comparison(from, to) > 0 THEN Goes(AfterTo(2, Oper(2)))
               ELSE Goes([After(2, 3) EXCEPT !.rts = @ \o <<Successor(from), to>>,
                                             !.env[Oper(1)] = from])

PopValue ==
  /\ Executes({"POP"})
  /\ Goes(After(1, 1))

(* A literal that would be popped at once is not pushed.                   *)
Immediate ==
  /\ Executes({"IMM"})
  /\ Goes(IF Unit(2) = <<"POP">> THEN After(0, 3) ELSE Push(After(0, 2), Oper(1)))

PushNumber ==
  /\ Executes({"NUM"})
  /\ Goes(Push(After(0, 1), Num(Oper(0))))

BuildList ==
  \/ Executes({"MAKE_EMPTY_LIST"}) /\ Yields(0, List(<<>>))
  \/ Executes({"LIST_ADD_TAIL"}) /\ Yields(2, Appended(Under(1), Under(0)))
  \/ Executes({"LIST_APPEND"}) /\ Yields(2, Concatenated(Under(1), Under(0)))

StartList ==
  \/ Executes({"MAKE_SINGLETON_LIST"}) /\ Yields(1, List(<<Under(0)>>))
  \/ Executes({"CHECK_LIST_FOR_SPLICE"})
     /\ Yields(1, IF Under(0)[1] = "list" THEN Under(0) ELSE Error("E_TYPE"))

BuildHash ==
  \/ Executes({"HASH_CREATE"}) /\ Yields(0, EmptyHash)
  \/ Executes({"HASH_INSERT"}) /\ Yields(3, HashInserted(Under(2), Under(0), Under(1)))

(* An operator whose operand is an object calls a verb of it.              *)
Comparisons == {"LT", "LE", "GT", "GE"}
ArithOps    == {"ADD", "MINUS", "MULT", "DIV", "MOD"}
OperatorVerb == ("ADD" :> "operator+" @@ "MINUS" :> "operator-" @@ "MULT" :> "operator*"
                 @@ "DIV" :> "operator/" @@ "MOD" :> "operator%" @@ "LT" :> "operator<"
                 @@ "LE" :> "operator<=" @@ "GT" :> "operator>" @@ "GE" :> "operator>="
                 @@ "IN" :> "operator_in" @@ "NOT" :> "operator!"
                 @@ "UNARY_MINUS" :> "operator~" @@ "REF" :> "operator[]")
OperandAt(op) == IF op \in ArithOps \cup Comparisons \cup {"REF"} THEN 1 ELSE 0
Overloaded ==
  LET op == Unit(0)[1]
  IN /\ op \in DOMAIN OperatorVerb
     /\ Under(OperandAt(op))[1] = "obj"
     /\ op \in Comparisons => Under(0)[1] # "obj"
     /\ op = "NOT" => Under(0)[2] \in Objects

Computes(ops) == Executes(ops) /\ ~ Overloaded

Equal ==
  \/ Executes({"EQ"}) /\ Yields(2, Truth(Same(Under(1), Under(0))))
  \/ Executes({"NE"}) /\ Yields(2, Truth(~ Same(Under(1), Under(0))))
Compare ==
  Computes(Comparisons) /\ Yields(2, Compared(Unit(0)[1], Under(1), Under(0)))
IsIn ==
  Computes({"IN"}) /\ Yields(2, In(Under(1), Under(0)))
Arithmetic ==
  \/ Computes(ArithOps) /\ Yields(2, Arith(Unit(0)[1], Under(1), Under(0)))
  \/ Executes({"EXP"}) /\ Yields(2, Arith("EXP", Under(1), Under(0)))
Not ==
  Computes({"NOT"}) /\ Yields(1, Truth(~ IsTrue(Under(0))))
UnaryMinus ==
  Computes({"UNARY_MINUS"}) /\ Yields(1, Negate(Under(0)))
Ref ==
  Computes({"REF"}) /\ Yields(2, Reference(Under(1), Under(0)))
RangeOf ==
  Executes({"RANGE_REF"}) /\ Yields(3, RangeRef(Under(2), Under(1), Under(0)))

(* The verb's activation is on top when run() pushes what it popped below  *)
(* the operands: once, or twice where the code falls through to the push   *)
(* of an ordinary answer.  (Without the `d' flag an operator that is not   *)
(* there leaves such values as well: only verbs with it are run.)          *)
CallOperator ==
  /\ Executes(DOMAIN OperatorVerb) /\ Overloaded
  /\ LET op     == Unit(0)[1]
         binary == op \in ArithOps \cup Comparisons \cup {"IN", "REF"}
         obj    == Under(OperandAt(op))
         after  == After(IF binary THEN 2 ELSE 1, 1)
         beneath == IF after.rts = <<>> THEN Unset ELSE Last(after.rts)
         called == CallVerb(WithTop(vm, after), obj[2], OperatorVerb[op],
                            IF binary THEN List(<<Under(1 - OperandAt(op))>>) ELSE List(<<>>))
         extra  == CASE op \in ArithOps \cup {"UNARY_MINUS"} -> <<beneath, beneath>>
                     [] op = "NOT" -> <<beneath, Num(1)>>
                     [] OTHER -> <<beneath>>
         err    == IF op \in Comparisons \cup {"IN"} /\ called.err = "E_VERBNF" THEN "E_TYPE"
                   ELSE called.err
     IN Becomes(IF err = "E_NONE"
                THEN WithTop(called.m, [Top(called.m) EXCEPT !.rts = extra])
                ELSE PushError(vm, after, Err(err)))

AndOr ==
  /\ Executes({"AND", "OR"})
  /\ Goes(IF IsTrue(Under(0)) = (Unit(0)[1] = "OR") THEN AfterTo(0, Oper(1))
          ELSE After(1, 2))

PushReference ==
  /\ Executes({"PUSH_REF"})
  /\ Yields(0, PushedReference(Under(1), Under(0)))

SetIndex ==
  Executes({"INDEXSET"}) /\ Yields(3, IndexSet(Under(2), Under(1), Under(0)))
SetRange ==
  Executes({"RANGESET"}) /\ Yields(4, RangeSet(Under(3), Under(2), Under(1), Under(0)))

Length ==
  /\ Executes({"LENGTH"})
  /\ LET v == LengthOf(A.rts[Oper(1)])  a == After(0, 2)
     IN Becomes(IF v[1] = "raise" THEN PushError(vm, a, Err(v[2]))
                ELSE WithTop(vm, Push(a, v)))

Temp ==
  \/ Executes({"PUT_TEMP"}) /\ Goes([After(0, 1) EXCEPT !.temp = Under(0)])
  \/ Executes({"PUSH_TEMP"}) /\ Goes([Push(After(0, 1), A.temp) EXCEPT !.temp = Unset])

PushVariable ==
  /\ Executes({"PUSH"})
  /\ Yields(0, IF A.env[Oper(0)] = Unset THEN Error("E_VARNF") ELSE A.env[Oper(0)])

(* A value that would be popped at once is moved to the variable.          *)
PutVariable ==
  /\ Executes({"PUT"})
  /\ Goes([(IF Unit(1) = <<"POP">> THEN After(1, 2) ELSE After(0, 1)) EXCEPT
             !.env[Oper(0)] = Under(0)])

(* The property `p' is on every object; a list of objects has the list of  *)
(* what they have.                                                         *)
RECURSIVE PropOf(_, _, _)
PropOf(m, obj, name) ==
  CASE obj[1] = "list" ->
         LET all == [i \in DOMAIN obj[2] |-> PropOf(m, obj[2][i], name)]
             bad == {i \in DOMAIN all : all[i][1] = "raise"}
         IN IF bad = {} THEN List(all) ELSE all[Min(bad)]
    [] obj[1] # "obj" -> Error("E_TYPE")
    [] obj[1] = "obj" -> CASE obj[2] \notin Objects -> Error("E_INVIND")
                           [] name # <<"p">>        -> Error("E_PROPNF")
                           [] OTHER                 -> m.prop

Prop(m, obj, name) ==
  IF name[1] # "str" THEN Error("E_TYPE") ELSE PropOf(m, obj, name[2])

GetProp ==
  Executes({"GET_PROP"}) /\ Yields(2, Prop(vm, Under(1), Under(0)))
PushGetProp ==
  /\ Executes({"PUSH_GET_PROP"})
  /\ Yields(0, IF Under(1)[1] = "list" THEN Error("E_TYPE") ELSE Prop(vm, Under(1), Under(0)))

PutProp ==
  /\ Executes({"PUT_PROP"})
  /\ LET old == IF Under(2)[1] = "list" THEN Error("E_TYPE") ELSE Prop(vm, Under(2), Under(1))
         a   == After(3, 1)
     IN Becomes(IF old[1] = "raise" THEN PushError(vm, a, Err(old[2]))
                ELSE [WithTop(vm, Push(a, Under(0))) EXCEPT !.prop = Under(0)])

(* The new task gets a copy of the variables, its own number among them.   *)
TaskNumber == Num(7)
Fork ==
  /\ Executes({"FORK", "FORK_WITH_ID"})
  /\ LET time  == Under(0)
         named == Unit(0)[1] = "FORK_WITH_ID"
         after == After(1, IF named THEN 3 ELSE 2)
         a     == IF named THEN [after EXCEPT !.env[Oper(2)] = TaskNumber] ELSE after
         child == [a EXCEPT !.vec = Append(@, A.pc + 1), !.pc = 1, !.rts = <<>>,
                            !.temp = Unset, !.bi = NoCall]
         err   == IF time[1] # "int" THEN "E_TYPE" ELSE IF time[2] < 0 THEN "E_INVARG" ELSE "E_NONE"
     IN Becomes(CASE err = "E_NONE" -> [WithTop(vm, a) EXCEPT !.forks = Append(@, child)]
                  [] err # "E_NONE" -> IF A.debug THEN RaiseError(WithTop(vm, after), Err(err))
                                       ELSE WithTop(vm, after))

CallOfVerb ==
  /\ Executes({"CALL_VERB"})
  /\ LET args == Under(0)  verb == Under(1)  obj == Under(2)
         after  == After(3, 1)
         called == CallVerb(WithTop(vm, after), obj[2], verb[2][1], args)
         err    == IF verb[1] # "str" \/ args[1] # "list" \/ obj[1] # "obj" THEN "E_TYPE"
                   ELSE called.err
     IN Becomes(IF err = "E_NONE" THEN called.m ELSE PushError(vm, after, Err(err)))

(* What the verb returns is the value of the call.                         *)
Return ==
  \/ Executes({"RETURN"}) /\ Becomes(Unwinding(WithTop(vm, After(1, 1)), "return", Under(0)))
  \/ Executes({"RETURN0", "DONE"}) /\ Becomes(Unwinding(vm, "return", Zero))

AnswersNow == IF Len(asked) < MaxAsks THEN Answers ELSE {<<"value", Zero>>}

(* call_bi_func() and what run() does with its package.  Only a call that  *)
(* asks has a choice.                                                      *)
Asks(args) == Oper(1) = "ask" \/ (Oper(1) = "call_function" /\ args[2][1] = <<"str", <<"ask">>>>)
AfterBi_EarlyPc(p, func) ==   \* wrong: suspended before the pc is past the operand
  CASE p.kind = "return"  -> WithTop(p.m, Push(Top(p.m), p.value))
    [] p.kind = "raise"   -> PushError(p.m, Top(p.m), p.value)
    [] p.kind = "call"    ->
         WithTop(p.m, [Top(p.m) EXCEPT !.bi = [func |-> func, pc |-> p.pc, data |-> p.data]])
    [] p.kind = "suspend" ->
         [WithTop(p.m, [Top(p.m) EXCEPT !.pc = @ - 1]) EXCEPT !.status = "blocked"]
AfterBi(p, func) ==
  CASE p.kind = "return"  -> WithTop(p.m, Push(Top(p.m), p.value))
    [] p.kind = "raise"   -> PushError(p.m, Top(p.m), p.value)
    [] p.kind = "call"    ->
         WithTop(p.m, [Top(p.m) EXCEPT !.bi = [func |-> func, pc |-> p.pc, data |-> p.data]])
    [] p.kind = "suspend" -> [p.m EXCEPT !.status = "blocked"]
BiFuncCall ==
  /\ Executes({"BI_FUNC_CALL"})
  /\ LET args == Under(0)
         m == WithTop(vm, After(1, 2))
     IN IF args[1] # "list"
        THEN Becomes(PushError(m, Top(m), Err("E_TYPE")))
        ELSE \E answer \in IF Asks(args) THEN AnswersNow ELSE {<<>>} :
               /\ vm' = Settled(AfterBi(CallBiFunc(m, Oper(1), args, 1, <<>>, answer), Oper(1)))
               /\ asked' = IF Asks(args) THEN Append(asked, answer) ELSE asked
               /\ UNCHANGED <<program, vectors>>

(* resume_from_previous_vm()                                               *)
Resume ==
  /\ vm.status = "blocked"
  /\ LET with == Last(asked)[2]
         m == [vm EXCEPT !.status = "running"]
     IN Becomes(IF with[1] = "err" THEN PushError(m, A, with)
                ELSE WithTop(m, Push(A, with)))

(* The targets of a scattering, from its operands at k.                    *)
Kinds(k) == [i \in 1 .. Oper(k) |->
               IF i = Oper(k + 2) THEN "rest"
               ELSE IF Oper(k + 2 + 2 * i) = 0 THEN "required" ELSE "optional"]
Labels(k) == [i \in 1 .. Oper(k) |-> Oper(k + 2 + 2 * i)]
Names(k) == [i \in 1 .. Oper(k) |-> Oper(k + 1 + 2 * i)]
DoneLabel(k) == Oper(k + 3 + 2 * Oper(k))

Assigned(a, k, list) ==
  LET s == Scatter(Kinds(k), Labels(k), list)
  IN [FoldLeft(LAMBDA b, i : IF s.given[i] = Unset THEN b
                             ELSE [b EXCEPT !.env[Names(k)[i]] = s.given[i]],
               a, [i \in 1 .. Oper(k) |-> i])
        EXCEPT !.pc = IF s.where = 0 THEN DoneLabel(k) ELSE s.where]

Scattered ==
  /\ Executes({"SCATTER"})
  /\ LET e == ScatterError(Kinds(1), Under(0))
     IN Becomes(IF e = "E_NONE" THEN WithTop(vm, Assigned(A, 1, Under(0)[2]))
                ELSE PushError(vm, AfterTo(1, DoneLabel(1)), Err(e)))

(* Each element of the list is scattered.  Without the `d' flag one that   *)
(* does not fit takes the place of the loop's index.                       *)
ForScatter ==
  /\ Executes({"FOR_SCATTER"})
  /\ LET list == Under(1)  i == Under(0)[2]
         next == Push(After(1, 0), Num(i + 1))
     IN CASE list[1] # "list" ->
               IF A.debug THEN Raises("E_TYPE") ELSE Goes(AfterTo(2, Oper(1)))
          [] list[1] = "list" ->
               IF i > Len(list[2]) THEN Goes(AfterTo(2, Oper(1)))
               ELSE LET e == ScatterError(Kinds(2), list[2][i])
                    IN Becomes(IF e = "E_NONE"
                               THEN WithTop(vm, Assigned(next, 2, list[2][i][2]))
                               ELSE PushError(vm, AfterTo(1, DoneLabel(2)), Err(e)))

(* Handlers on the run-time stack.                                         *)
PushLabel ==
  \/ Executes({"PUSH_LABEL"}) /\ Goes(Push(After(0, 2), Num(Oper(1))))
  \/ Executes({"TRY_FINALLY"}) /\ Goes(Push(After(0, 2), <<"FINALLY", Oper(1)>>))
PushCatch ==
  \/ Executes({"CATCH"}) /\ Goes(Push(After(0, 1), <<"CATCH", 1>>))
  \/ Executes({"TRY_EXCEPT"}) /\ Goes(Push(After(0, 2), <<"CATCH", Oper(1)>>))

EndCatch ==
  \/ Executes({"END_CATCH"}) /\ Goes(Push(AfterTo(4, Oper(1)), Under(0)))
  \/ Executes({"END_EXCEPT"}) /\ Goes(AfterTo(1 + 2 * Under(0)[2], Oper(1)))
EndFinally ==
  /\ Executes({"END_FINALLY"})
  /\ Goes([After(1, 1) EXCEPT !.rts = @ \o <<<<"why", "fall thru">>, Zero>>])

(* The end of a FINALLY handler goes on with what it ran for.              *)
Continue ==
  /\ Executes({"CONTINUE"})
  /\ LET why == Under(1)[2]
     IN Becomes(IF why = "fall thru" THEN WithTop(vm, After(2, 1))
                ELSE Unwinding(WithTop(vm, After(2, 1)), why, Under(0)))

Exit ==
  /\ Executes({"EXIT", "EXIT_ID"})
  /\ LET k == IF Unit(0)[1] = "EXIT" THEN 1 ELSE 2
     IN Becomes(Unwinding(vm, "exit", <<"exit", Oper(k), Oper(k + 1)>>))

(* task_killed is looked at before each instruction.                       *)
Killed ==
  /\ vm.status = "running" /\ vm.killed
  /\ Becomes(Unwinding(vm, "abort", Zero))

(* do_forked_task(): one task runs after the other.                        *)
RunForked ==
  /\ vm.status = "ended" /\ vm.forks # <<>>
  /\ Becomes([vm EXCEPT !.status = "running", !.killed = FALSE, !.forks = Tail(@),
                        !.activs = <<Head(vm.forks)>>])

Next ==
  \/ DoTest \/ WhileId \/ JumpTo \/ ForList \/ ForRange \/ PopValue \/ Immediate
  \/ PushNumber \/ BuildList \/ StartList \/ BuildHash \/ Equal \/ Compare \/ IsIn
  \/ Arithmetic \/ Not \/ UnaryMinus \/ Ref \/ RangeOf \/ CallOperator \/ AndOr
  \/ PushReference \/ SetIndex \/ SetRange \/ Length \/ Temp \/ PushVariable \/ PutVariable
  \/ GetProp \/ PushGetProp \/ PutProp \/ Fork \/ CallOfVerb \/ Return \/ BiFuncCall \/ Resume
  \/ Scattered \/ ForScatter \/ PushLabel \/ PushCatch \/ EndCatch \/ EndFinally
  \/ Continue \/ Exit \/ Killed \/ RunForked

Spec == Init /\ [][Next]_vars
============================================================================
