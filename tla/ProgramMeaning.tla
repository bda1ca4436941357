--------------------------- MODULE ProgramMeaning ---------------------------
(***************************************************************************)
(* What a program means, told from its tree and not from its code: the     *)
(* language as its users know it.  The machine of Interpreter is held      *)
(* against it, and so are decompile.c and find_line_number().              *)
(*                                                                         *)
(* A state s has the variables of the verb, what the world saw, the number *)
(* of answers used, the tasks forked and out, how the part evaluated last  *)
(* came out: <<"value", v>>, <<"raise", code>>, <<"return", v>>,           *)
(* <<"break", loop>>, <<"continue", loop>> or <<"killed", 0>>.  A context  *)
(* c has the verb, its `d' flag, how deep its call is, and the value that  *)
(* `$' measures.                                                           *)
(***************************************************************************)
EXTENDS Interpreter
D == INSTANCE Decompile

Out(s, kind, v) == [s EXCEPT !.out = <<kind, v>>]
Fine(s) == s.out[1] = "value"
Value(s) == s.out[2]

(* Without the `d' flag an error is the value of what failed.              *)
Fail(c, s, code) == Out(s, IF c.debug THEN "raise" ELSE "value", code)
Give(c, s, v) == IF v[1] = "raise" THEN Fail(c, s, Err(v[2])) ELSE Out(s, "value", v)

Measured(c, v) == [c EXCEPT !.dollar = v]
Taken(out, codes) == out[1] = "raise" /\ Matches(out[2], codes)

(* What the part x of a program, a statement or an expression, makes of a  *)
(* state.  The operators up to its definition are the parts of it.         *)
RECURSIVE Run(_, _, _)

Exec(c, s, stmts) ==
  FoldLeft(LAMBDA t, stmt : IF Fine(t) THEN Run(c, t, stmt) ELSE t,
           Out(s, "value", Zero), stmts)

(* The values of expressions, from left to right.  Behind the first one of *)
(* an index `$' measures it.                                               *)
Gathered(values, t) == IF Fine(t) THEN Out(t, "value", Append(values, Value(t))) ELSE t
ValuesOf(c, s, es, indexed) ==
  FoldLeft(LAMBDA t, e :
             IF ~ Fine(t) THEN t
             ELSE Gathered(Value(t), Run(IF indexed /\ Value(t) # <<>>
                                         THEN Measured(c, Value(t)[1]) ELSE c, t, e)),
           Out(s, "value", <<>>), es)

Joined(c, list, kind, t) ==
  IF ~ Fine(t) THEN t
  ELSE Give(c, t, IF kind = "normal" THEN Appended(list, Value(t))
                  ELSE Concatenated(list, Value(t)))
ListOf(c, s, args) ==
  FoldLeft(LAMBDA t, arg : IF Fine(t) THEN Joined(c, Value(t), arg[1], Run(c, t, arg[2])) ELSE t,
           Out(s, "value", List(<<>>)), args)
CodesOf(c, s, codes) ==
  IF codes = <<>> THEN Out(s, "value", Zero) ELSE Run(c, s, <<"list", codes>>)

Inserted(hash, t) ==
  IF Fine(t) THEN Out(t, "value", HashInsert(hash, Value(t)[2], Value(t)[1])) ELSE t
HashOf(c, s, pairs) ==
  FoldLeft(LAMBDA t, pair :
             IF Fine(t) THEN Inserted(Value(t), ValuesOf(c, t, <<pair[2], pair[1]>>, FALSE)) ELSE t,
           Out(s, "value", EmptyHash), pairs)

(* An operator of an object is a verb of it; the programs here have none.  *)
Ordering == {"lt", "le", "gt", "ge"}
OfObject(op, v) ==
  Error(IF v[2] \notin Objects THEN "E_INVIND"
        ELSE IF op \in Ordering \cup {"in"} THEN "E_TYPE"
        ELSE "E_VERBNF")

Overloadable == Ordering \cup {"plus", "minus", "times", "divide", "mod", "index", "negate"}
OperatorValue(s, op, v) ==
  CASE \/ op \in Overloadable /\ v[1][1] = "obj" /\ (op \in Ordering => v[2][1] # "obj")
       \/ op = "not" /\ v[1][1] = "obj" /\ v[1][2] \in Objects -> OfObject(op, v[1])
    [] op = "in" /\ v[2][1] = "obj" -> OfObject(op, v[2])
    [] op = "eq"     -> Truth(Same(v[1], v[2]))
    [] op = "ne"     -> Truth(~ Same(v[1], v[2]))
    [] op \in Ordering -> Compared(OpOf[op], v[1], v[2])
    [] op = "in"     -> In(v[1], v[2])
    [] op \in {"plus", "minus", "times", "divide", "mod", "exp"} ->
         Arith(OpOf[op], v[1], v[2])
    [] op = "prop"   -> Prop(s, v[1], v[2])
    [] op = "not"    -> Truth(~ IsTrue(v[1]))
    [] op = "negate" -> Negate(v[1])
    [] op = "index"  -> Reference(v[1], v[2])
    [] op = "range"  -> RangeRef(v[1], v[2], v[3])
Operators == Binary \cup {"not", "negate", "index", "range"}

(* Where an assignment stores: what holds the place is looked up, and its  *)
(* indexes are computed, before the right side is.                         *)
HeldIn(s, place) ==
  CASE place[1] = "id"    -> IF s.env[place[2]] = Unset THEN Error("E_VARNF") ELSE s.env[place[2]]
    [] place[1] = "prop"  -> IF place[2][1] = "list" THEN Error("E_TYPE")
                             ELSE Prop(s, place[2], place[3])
    [] place[1] = "index" -> PushedReference(place[3], place[4])
Held(c, s, place) == Give(c, s, HeldIn(s, place))

AsPlace(head, t) == IF Fine(t) THEN Out(t, "value", head \o Value(t)) ELSE t
PlaceIn(c, place, t, e) ==
  IF ~ Fine(t) THEN t
  ELSE AsPlace(<<e[1], place, Value(t)>>,
               ValuesOf(Measured(c, Value(t)), t, SubSeq(e, 3, Len(e)), FALSE))
RECURSIVE Place(_, _, _), PlaceWithin(_, _, _)
Place(c, s, e) ==
  CASE e[1] = "id"   -> Out(s, "value", e)
    [] e[1] = "prop" -> AsPlace(<<"prop">>, ValuesOf(c, s, <<e[2], e[3]>>, FALSE))
    [] e[1] \in {"index", "range"} -> PlaceWithin(c, Place(c, s, e[2]), e)
PlaceWithin(c, t, e) == IF Fine(t) THEN PlaceIn(c, Value(t), Held(c, t, Value(t)), e) ELSE t

(* A store in a part of a value is a store of the value so changed.        *)
RECURSIVE Store(_, _, _), StoreIn(_, _, _)
Store(c, s, place) ==
  CASE place[1] = "id" -> [s EXCEPT !.env[place[2]] = Value(s)]
    [] place[1] = "prop" ->
         IF HeldIn(s, place)[1] = "raise" THEN Held(c, s, place) ELSE [s EXCEPT !.prop = Value(s)]
    [] place[1] = "index" ->
         StoreIn(c, Give(c, s, IndexSet(place[3], place[4], Value(s))), place[2])
    [] place[1] = "range" ->
         StoreIn(c, Give(c, s, RangeSet(place[3], place[4], place[5], Value(s))), place[2])
StoreIn(c, s, place) == IF Fine(s) THEN Store(c, s, place) ELSE s

(* The value of an assignment is the value of its right side, but that of  *)
(* a property that cannot be set without the `d' flag is the error.        *)
Stored(v, t, property) == IF Fine(t) /\ ~ property THEN Out(t, "value", v) ELSE t
Assign(c, place, t, property) ==
  IF ~ Fine(t) THEN t ELSE Stored(Value(t), Store(c, t, place), property)
(* A scattering: how many elements a target takes, and from where.         *)
Takes(targets, i, len) ==
  LET required == Count(targets, "required")
      before   == Count(SubSeq(targets, 1, i - 1), "optional")
  IN CASE targets[i][1] = "required" -> 1
       [] targets[i][1] = "optional" -> IF len - required > before THEN 1 ELSE 0
       [] targets[i][1] = "rest" ->
            LET over == len - required - Count(targets, "optional")
            IN IF over > 0 THEN over ELSE 0
Start(targets, i, len) ==
  FoldLeft(LAMBDA n, k : n + Takes(targets, k, len), 1, [k \in 1 .. i - 1 |-> k])

PartOf(targets, list, i) ==
  SubSeq(list, Start(targets, i, Len(list)),
         Start(targets, i, Len(list)) + Takes(targets, i, Len(list)) - 1)
GivenTo(s, targets, i, part) ==
  CASE targets[i][1] = "rest" -> [s EXCEPT !.env[targets[i][2]] = List(part)]
    [] targets[i][1] # "rest" /\ part # <<>> -> [s EXCEPT !.env[targets[i][2]] = part[1]]
    [] OTHER -> s
Given(s, targets, list) ==
  FoldLeft(LAMBDA t, i : GivenTo(t, targets, i, PartOf(targets, list, i)),
           s, [i \in DOMAIN targets |-> i])

(* A default is computed when the others have their elements.              *)
Defaulted(t, x) == IF Fine(t) THEN [t EXCEPT !.env[x] = Value(t)] ELSE t
Defaults(c, s, targets, list) ==
  FoldLeft(LAMBDA t, i : IF Fine(t) /\ targets[i][3] # <<>> /\ PartOf(targets, list, i) = <<>>
                         THEN Defaulted(Run(c, t, targets[i][3]), targets[i][2]) ELSE t,
           s, [i \in DOMAIN targets |-> i])

Scattering(c, s, targets, v) ==
  LET e == ScatterError([i \in DOMAIN targets |-> targets[i][1]], v)
  IN IF e # "E_NONE" THEN Fail(c, s, Err(e))
     ELSE Stored(v, Defaults(c, Given(s, targets, v[2]), targets, v[2]), FALSE)

(* A call of a verb: its return is the call's value, its error the call's. *)
Inside(c, name) ==
  [c EXCEPT !.verb = name, !.debug = name \notin program.quiet, !.depth = @ + 1]
Back(s, t) ==
  [t EXCEPT !.env = s.env,
            !.out = CASE @[1] = "return" -> <<"value", @[2]>>
                      [] @[1] = "value"  -> <<"value", Zero>>
                      [] OTHER           -> @]
CallOn(c, s, obj, name, args) ==
  LET found == VerbIndex(name)
  IN CASE obj \notin Objects -> Out(s, "refused", "E_INVIND")
       [] obj \in Objects /\ found = {} -> Out(s, "refused", "E_VERBNF")
       [] obj \in Objects /\ found # {} /\ c.depth >= MaxDepth -> Out(s, "refused", "E_MAXREC")
       [] OTHER ->
            Back(s, Exec(Inside(c, name),
                         [s EXCEPT !.env = [v \in Vars |-> IF v = "args" THEN args ELSE Unset]],
                         program.verbs[Max(found)][2]))
Called(c, s) == IF s.out[1] = "refused" THEN Fail(c, s, Err(s.out[2])) ELSE s

(* move(): accepted, moved, told the old place and the new one, each if it *)
(* has a verb for it; an error in one of these verbs is the error of all.  *)
Told(t) == IF t.out[1] = "value" \/ t.out = <<"refused", "E_VERBNF">> \/ t.out = <<"refused", "E_INVIND">>
           THEN Out(t, "value", Zero) ELSE t
Entering(c, t, what, where) ==
  IF Fine(t) /\ t.loc = where THEN Told(CallOn(c, t, where, "enterfunc", List(<<what>>))) ELSE t
Moving(c, s, what, where) ==
  Entering(c, Told(CallOn(c, [s EXCEPT !.loc = where], s.loc, "exitfunc", List(<<what>>))),
           what, where)
IfAccepted(c, t, what, where) ==
  CASE ~ Fine(t) /\ t.out # <<"refused", "E_VERBNF">> -> t
    [] Fine(t) /\ IsTrue(Value(t)) ->
         IF t.loc = where THEN Out(t, "value", Zero) ELSE Moving(c, t, what, where)
    [] OTHER -> Out(t, "refused", "E_NACC")
Move(c, s, what, where) ==
  CASE where = Nothing -> IfAccepted(c, Out(s, "value", Num(1)), what, where)
    [] where \in Objects ->
         IfAccepted(c, CallOn(c, s, where, "accept", List(<<what>>)), what, where)
    [] OTHER -> Out(s, "refused", "E_INVARG")

Answer(c, s, answer) ==
  CASE answer[1] = "value" -> Out(s, "value", answer[2])
    [] answer[1] = "kill"  -> Out(s, "killed", 0)
    [] answer[1] \in {"raise", "suspend"} ->
         IF answer[2][1] = "err" THEN Fail(c, s, answer[2]) ELSE Out(s, "value", answer[2])

RECURSIVE CallFunction(_, _, _, _)
CallFunction(c, s, func, args) ==
  CASE func = "note"  -> Out([s EXCEPT !.notes = Append(@, args[1])], "value", args[1])
    [] func = "ask"   -> Answer(c, [s EXCEPT !.used = @ + 1], asked[s.used + 1])
    [] func = "raise" -> Fail(c, s, args[1])
    [] func = "move"  -> Called(c, Move(c, s, args[1], args[2][2]))
    [] func = "pass"  ->
         Called(c, CallOn(c, s, "thing", IF c.verb = "inherited" THEN "" ELSE "inherited",
                          List(args)))
    [] func = "call_function" -> CallFunction(c, s, args[1][2][1], Tail(args))

(* What has its operands' values v in t.                                   *)
Applied(c, t, x, v) ==
  CASE x[1] \in Operators -> Give(c, t, OperatorValue(t, x[1], v))
    [] x[1] = "call" -> IF v[1][1] # "list" THEN Fail(c, t, Err("E_TYPE"))
                        ELSE CallFunction(c, t, x[2], v[1][2])
    [] x[1] = "verb" ->
         IF v[1][1] # "obj" \/ v[2][1] # "str" \/ v[3][1] # "list" THEN Fail(c, t, Err("E_TYPE"))
         ELSE Called(c, CallOn(c, t, v[1][2], v[2][2][1], v[3]))
Operands(x) ==
  CASE x[1] \in Operators -> Tail(x)
    [] x[1] = "call" -> <<<<"list", x[3]>>>>
    [] x[1] = "verb" -> <<x[2], x[3], <<"list", x[4]>>>>
Apply(c, t, x) == IF Fine(t) THEN Applied(c, t, x, Value(t)) ELSE t

(* A loop goes on over the values left while its body comes to its end or  *)
(* says `continue'.                                                        *)
Mine(out, kind, id) == out[1] = kind /\ out[2] \in {None, id}
Continues(t, id) == IF Mine(t.out, "continue", id) THEN Out(t, "value", Zero) ELSE t
Broken(t, id) == IF Mine(t.out, "break", id) THEN Out(t, "value", Zero) ELSE t
Body(c, t, stmts) == IF Fine(t) THEN Exec(c, t, stmts) ELSE t
Bound(c, s, stmt, v) ==
  IF stmt[1] = "forscatter" THEN Scattering(c, s, stmt[2], v) ELSE [s EXCEPT !.env[stmt[2]] = v]
Loop(c, s, stmt, values, id) ==
  Broken(FoldLeft(LAMBDA t, v :
                    IF Fine(t) THEN Continues(Body(c, Bound(c, t, stmt, v), Last(stmt)), id) ELSE t,
                  s, values), id)

Named(t, id, v) == IF id = None THEN t ELSE [t EXCEPT !.env[id] = v]
RECURSIVE While(_, _, _), Again(_, _, _)
While(c, t, stmt) ==    \* t has the value of the condition
  CASE ~ Fine(t) -> t
    [] Fine(t) /\ ~ IsTrue(Value(t)) -> Named(t, stmt[2], Value(t))
    [] OTHER -> Again(c, Continues(Exec(c, Named(t, stmt[2], Value(t)), stmt[4]), stmt[2]), stmt)
Again(c, t, stmt) ==
  IF Fine(t) THEN While(c, Run(c, t, stmt[3]), stmt) ELSE Broken(t, stmt[2])

(* A statement that fails without the `d' flag is skipped.                 *)
Skipped(c, s, e) == IF c.debug THEN Out(s, "raise", Err(e)) ELSE s
ForEach(c, t, stmt) ==
  IF ~ Fine(t) THEN t
  ELSE IF Value(t)[1] # "list" THEN Skipped(c, t, "E_TYPE")
       ELSE Loop(c, t, stmt, Value(t)[2], IF stmt[1] = "for" THEN stmt[2] ELSE stmt[2][1][2])
Between(from, to) ==
  CASE from[1] = "int" -> [i \in 1 .. to[2] - from[2] + 1 |-> Num(from[2] + i - 1)]
    [] from[1] = "obj" ->
         LET names == SubSeq(ObjectNames, Rank(ObjectNames, from[2]), Rank(ObjectNames, to[2]))
         IN [i \in DOMAIN names |-> <<"obj", names[i]>>]
ForRangeOf(c, t, stmt, from, to) ==
  IF from[1] # to[1] \/ from[1] \notin {"int", "obj"} THEN Skipped(c, t, "E_TYPE")
  ELSE Loop(c, t, stmt, Between(from, to), stmt[2])
ForNumbers(c, t, stmt) ==
  IF Fine(t) THEN ForRangeOf(c, t, stmt, Value(t)[1], Value(t)[2]) ELSE t

Forked(c, t, stmt) ==
  [t EXCEPT !.forks = Append(@, [body |-> stmt[4], env |-> t.env, verb |-> c.verb,
                                 debug |-> c.debug])]
ForkAfter(c, t, stmt) ==
  CASE ~ Fine(t) -> t
    [] Fine(t) /\ Value(t)[1] # "int" -> Skipped(c, t, "E_TYPE")
    [] Fine(t) /\ Value(t)[1] = "int" /\ Value(t)[2] < 0 -> Skipped(c, t, "E_INVARG")
    [] OTHER -> Forked(c, Named(t, stmt[2], TaskNumber), stmt)

RECURSIVE If(_, _, _, _), IfArm(_, _, _, _)
If(c, s, arms, otherwise) ==
  IF arms = <<>> THEN Exec(c, s, otherwise) ELSE IfArm(c, Run(c, s, arms[1][1]), arms, otherwise)
IfArm(c, t, arms, otherwise) ==
  CASE ~ Fine(t) -> t
    [] Fine(t) /\ IsTrue(Value(t)) -> Exec(c, t, arms[1][2])
    [] OTHER -> If(c, t, Tail(arms), otherwise)

(* The codes of a handler are computed before what it protects runs.       *)
AllCodes(c, s, arms) ==
  FoldLeft(LAMBDA t, arm : IF Fine(t) THEN Gathered(Value(t), CodesOf(c, t, arm[2])) ELSE t,
           Out(s, "value", <<>>), arms)
Rescued(c, t, arms, codes) ==
  LET take == {i \in DOMAIN arms : Taken(t.out, codes[i])}
  IN IF take = {} THEN t
     ELSE Exec(c, Named(t, arms[Min(take)][1], List(<<t.out[2]>>)), arms[Min(take)][3])
Except(c, t, stmt) ==
  IF Fine(t) THEN Rescued(c, Exec(c, t, stmt[2]), stmt[3], Value(t)) ELSE t

Resumed(out, t) == IF Fine(t) THEN [t EXCEPT !.out = out] ELSE t
FinallyDo(c, t, handler) ==
  IF t.out[1] = "killed" THEN t ELSE Resumed(t.out, Exec(c, t, handler))

Unless(c, t, codes, e) ==
  CASE ~ Taken(t.out, codes) -> t
    [] Taken(t.out, codes) /\ e = <<>> -> Out(t, "value", t.out[2])
    [] OTHER -> Run(c, Out(t, "value", Zero), e[1])
Catch(c, t, x) == IF Fine(t) THEN Unless(c, Run(c, t, x[2]), Value(t), x[4]) ELSE t

Choose(c, t, x) ==
  CASE ~ Fine(t) -> t
    [] Fine(t) /\ x[1] = "cond" -> Run(c, t, IF IsTrue(Value(t)) THEN x[3] ELSE x[4])
    [] OTHER -> IF IsTrue(Value(t)) = (x[1] = "or") THEN t ELSE Run(c, t, x[3])
ScatterIn(c, t, x) == IF Fine(t) THEN Scattering(c, t, x[2][2], Value(t)) ELSE t
AssignTo(c, t, x) ==
  IF Fine(t) THEN Assign(c, Value(t), Run(c, t, x[3]), x[2][1] = "prop") ELSE t

Returned(t) == IF Fine(t) THEN Out(t, "return", Value(t)) ELSE t
Run(c, s, x) ==
  CASE x[1] = "var"    -> Out(s, "value", x[2])
    [] x[1] = "id"     -> Held(c, s, x)
    [] x[1] = "length" -> Give(c, s, LengthOf(c.dollar))
    [] x[1] \in {"and", "or", "cond"} -> Choose(c, Run(c, s, x[2]), x)
    [] x[1] \in Operators \cup {"call", "verb"} ->
         Apply(c, ValuesOf(c, s, Operands(x), x[1] \in {"index", "range"}), x)
    [] x[1] = "list"   -> ListOf(c, s, x[2])
    [] x[1] = "hash"   -> HashOf(c, s, x[2])
    [] x[1] = "asgn"   -> IF x[2][1] = "scatter" THEN ScatterIn(c, Run(c, s, x[3]), x)
                          ELSE AssignTo(c, Place(c, s, x[2]), x)
    [] x[1] = "catch"  -> Catch(c, CodesOf(c, s, x[3]), x)
    [] x[1] = "expr"   -> Run(c, s, x[2])
    [] x[1] = "return" -> IF x[2] = <<>> THEN Out(s, "return", Zero)
                          ELSE Returned(Run(c, s, x[2]))
    [] x[1] \in {"break", "continue"} -> Out(s, x[1], x[2])
    [] x[1] = "if"     -> If(c, s, x[2], x[3])
    [] x[1] \in {"for", "forscatter"} -> ForEach(c, Run(c, s, x[3]), x)
    [] x[1] = "forrange" -> ForNumbers(c, ValuesOf(c, s, <<x[3], x[4]>>, FALSE), x)
    [] x[1] = "while"  -> While(c, Run(c, s, x[3]), x)
    [] x[1] = "fork"   -> ForkAfter(c, Run(c, s, x[3]), x)
    [] x[1] = "except" -> Except(c, AllCodes(c, s, x[3]), x)
    [] x[1] = "finally" -> FinallyDo(c, Exec(c, s, x[2]), x[3])

(* A task, then the tasks it forked.                                       *)
Ended(t) ==
  [t EXCEPT !.ended = Append(@, IF t.out[1] = "return" THEN t.out[2]
                                ELSE IF Fine(t) THEN Zero ELSE Error("aborted"))]
RECURSIVE RunTasks(_)
RunTasks(s) ==
  IF s.forks = <<>> THEN s
  ELSE RunTasks(Ended(Exec([verb |-> s.forks[1].verb, debug |-> s.forks[1].debug, depth |-> 1,
                            dollar |-> Zero],
                           [s EXCEPT !.forks = Tail(@), !.env = s.forks[1].env],
                           s.forks[1].body)))

Meaning ==
  RunTasks([env |-> <<>>, notes |-> <<>>, loc |-> "hall", prop |-> Num(3), used |-> 0,
            ended |-> <<>>, out |-> <<"value", Zero>>,
            forks |-> <<[body |-> program.verbs[1][2], verb |-> "main",
                         env |-> [v \in Vars |-> IF v = "args" THEN List(<<>>) ELSE Unset],
                         debug |-> "main" \notin program.quiet]>>])

(***************************************************************************)
(* Properties.                                                             *)
(***************************************************************************)

(* A program does what it says, whatever it is answered: the values noted, *)
(* the end of each task, the place of the thing and the property are those *)
(* of its meaning, through every handler, call, suspension and fork.       *)
Agrees(s) == /\ s.notes = vm.notes /\ s.ended = vm.ended /\ s.used = Len(asked)
             /\ s.loc = vm.loc /\ s.prop = vm.prop
RunsAsWritten == vm.status = "ended" /\ vm.forks = <<>> => Agrees(Meaning)

(* The height of an activation's stack is the one that code_gen.c counted  *)
(* for the instruction it is at (alloc_rt_stack() gave it no more), but    *)
(* for the value that a call under way has still to push.                  *)
StackAsCounted ==
  \A i \in DOMAIN vm.activs :
    LET a == vm.activs[i]
        code == Vector(a.vec)
        pending == i < Len(vm.activs) \/ vm.status = "blocked"
    IN /\ Len(a.rts) = code.at[a.pc] - (IF pending THEN 1 ELSE 0)
       /\ code.at[a.pc] <= code.max

(* check_pc_validity(): a checkpoint saves a suspended task, and loading   *)
(* it refuses an activation that is not after a call.                      *)
SavedAccepted ==
  vm.status = "blocked" =>
    \A i \in DOMAIN vm.activs :
      LET code == Vector(vm.activs[i].vec).code
          pc   == vm.activs[i].pc
      IN /\ pc <= Len(code)
         /\ \/ code[pc - 1] = <<"CALL_VERB">>
            \/ code[pc - 2] = <<"BI_FUNC_CALL">>

(* The verbs of the program that is about to start, and their forks'       *)
(* vectors.  The next two properties are about a program, not about a run: *)
(* they look at it once.                                                   *)
Fresh == asked = <<>> /\ vm.status = "running" /\ Len(vm.activs) = 1
         /\ A.vec = <<1>> /\ A.pc = 1 /\ vm.notes = <<>>
Verbs == program.verbs

(* A verb that is listed, or saved and loaded again, is the same verb: the *)
(* decompiler finds the tree of its code, and panics nowhere.  Not so for  *)
(* a hash of three or more mappings, of which decompile.c drops some       *)
(* (lines 502 to 515): the programs that run have none.                    *)
IsOf(d, body) == d.ok /\ d.stmts = body
DecompilesBack ==
  Fresh => \A i \in DOMAIN Verbs : IsOf(D!ProgramToTree(vectors[i].code, <<>>), Verbs[i][2])

(* Where an error can be raised, a task can run out of ticks, or a task    *)
(* that is suspended or resumed can stand.                                 *)
FaultOps ==
  {"IF", "WHILE", "EIF", "FORK", "FORK_WITH_ID", "FOR_LIST", "FOR_RANGE", "INDEXSET",
   "PUSH_GET_PROP", "CALL_VERB", "PUT_PROP", "BI_FUNC_CALL", "IF_QUES", "REF", "RANGE_REF",
   "MAKE_SINGLETON_LIST", "CHECK_LIST_FOR_SPLICE", "UNARY_MINUS", "NOT", "AND", "OR", "PUT",
   "PUSH", "LIST_APPEND", "PUSH_REF", "RANGESET", "LENGTH", "SCATTER", "FOR_SCATTER"}
  \cup {OpOf[k] : k \in Binary}
FaultPoints(code) ==
  {pc \in DOMAIN code : \/ code[pc][1] \in FaultOps
                        \/ pc > 1 /\ code[pc - 1] = <<"CALL_VERB">>
                        \/ pc > 2 /\ code[pc - 2] = <<"BI_FUNC_CALL">>}

(* The vectors of the forks in a vector, each named by the operands that   *)
(* lead to it, and the vector itself.                                      *)
RECURSIVE Ways(_)
Ways(code) ==
  {<<>>} \cup UNION {{<<pc + 1>> \o way : way \in Ways(code[pc + 1][2].code)} :
                       pc \in {k \in DOMAIN code : code[k][1] \in {"FORK", "FORK_WITH_ID"}}}

(* Where an error stands, or a task can wait, in a vector: queued_tasks()  *)
(* asks for the line of a forked task that is still to start.              *)
Asked(code, way) == FaultPoints(code) \cup (IF way = <<>> THEN {} ELSE {1})

(* A traceback, task_stack() and queued_tasks() name the line of each      *)
(* activation, in the main vector of a verb or in one of its forks':       *)
(* find_line_number() finds the one where the instruction came from, and   *)
(* does not panic.                                                         *)
LinesRight ==
  Fresh => \A i \in DOMAIN Verbs : \A way \in Ways(vectors[i].code) :
             LET v == Vector(<<i>> \o way)
             IN \A pc \in Asked(v.code, way) :
                  v.line[pc] # 0 =>
                    D!FindLineNumber(vectors[i].code, Append(way, pc), 1) = v.line[pc]
============================================================================
