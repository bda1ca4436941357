----------------------------- MODULE Decompile -----------------------------
(***************************************************************************)
(* decompile.c: the code of a verb becomes its tree again, which is how a  *)
(* verb is listed, saved in the database and searched for the line of an   *)
(* error.                                                                  *)
(*                                                                         *)
(* The unit at hot is the one whose line is wanted, 0 if it is not in the  *)
(* vector being decompiled: way is where it is from there, the operands    *)
(* of the forks on the way to it and its place.  An expression on the      *)
(* stack is <<tree, hot?>>, hot when hot_node is that node.  hotNode is    *)
(* Nowhere (a null hot_node), Inside (it is an expression), or the place   *)
(* of a statement: at is the way down to its list, each step a statement   *)
(* and the number of its body, i its index there, arm the arm of it        *)
(* (0 for itself) and pos the hot_position.                                *)
(***************************************************************************)
EXTENDS CodeGen

Place(i, arm, pos) == [at |-> <<>>, i |-> i, arm |-> arm, pos |-> pos]
Nowhere == Place(0, 0, "nowhere")
Inside  == Place(0, 0, "inside")

TreeKind(op) == CHOOSE k \in DOMAIN OpOf : OpOf[k] = op

(* d: the state of decompile().  ok is lost where the code would panic.    *)
Fresh(way) == [pc |-> 1, exprs |-> <<>>, stmts |-> <<>>, arms |-> <<>>,
               start |-> 1, hotNode |-> Nowhere, ok |-> TRUE, way |-> way]

HotIn(way) == IF Len(way) = 1 THEN way[1] ELSE 0
Check(d, expected) == [d EXCEPT !.ok = @ /\ expected]
Skip(d, n) == [d EXCEPT !.pc = @ + n]
Expr(d, n) == d.exprs[Len(d.exprs) - n][1]        \* n below the top
AnyHot(d, n) == \E i \in 0 .. n - 1 : d.exprs[Len(d.exprs) - i][2]
Drop(d, n) == [d EXCEPT !.exprs = SubSeq(@, 1, Len(@) - n)]

(* push_expr(HOT(...)) of a node made from the n top ones.                 *)
Build(d, n, isHot, e) ==
  LET hot == isHot \/ AnyHot(d, n)
  IN [Drop(d, n) EXCEPT !.exprs = Append(@, <<e, hot>>),
                        !.hotNode = IF hot THEN Inside ELSE @]

Next1(d) == Len(d.stmts) + 1   \* the index that the next statement gets

(* ADD_STMT(HOT(...)) of a statement made from the n top expressions.      *)
AddStmt(d, n, isHot, s) ==
  LET hot == isHot \/ AnyHot(d, n)
  IN [Drop(d, n) EXCEPT !.stmts = Append(@, s), !.start = d.pc,
        !.hotNode = IF hot THEN Place(Next1(d), 0, "top") ELSE @]

Mark(d, isHot, i, arm, pos) ==
  IF isHot THEN [d EXCEPT !.hotNode = Place(i, arm, pos)] ELSE d

(* What encloses a body that was decompiled keeps its own statements; the  *)
(* place of a node that became hot inside is seen from outside.            *)
Around(d, inner, body) ==
  [inner EXCEPT
     !.stmts = d.stmts, !.arms = d.arms, !.start = d.start,
     !.hotNode = IF @ = d.hotNode \/ @ \in {Nowhere, Inside} THEN @
                 ELSE [@ EXCEPT !.at = <<<<Next1(d), body>>>> \o @]]

EarlyExits == {"END_CATCH", "END_EXCEPT", "END_FINALLY", "CONTINUE"}

RECURSIVE Run(_, _, _, _), Step(_, _, _, _)

(* decompile(): up to end, or to what closes the body of a handler.        *)
Run(code, hot, d, end) ==
  IF d.pc >= end \/ code[d.pc][1] \in EarlyExits THEN d
  ELSE Run(code, hot, Step(code, hot, d, end), end)

Body(code, hot, d, end) ==
  Run(code, hot, [d EXCEPT !.stmts = <<>>, !.arms = <<>>, !.start = d.pc], end)

(* read_jump()                                                             *)
JumpTo(code, d) == code[d.pc + 1][2]
ReadJump(code, d, target) ==
  Skip(Check(d, code[d.pc][1] = "JUMP" /\ JumpTo(code, d) = target), 2)

(* A loop's body, its jump and the statement, whose first n parts are on   *)
(* the stack; the code of its test starts at top.                          *)
FinishLoop(code, hot, d, isHot, n, top, done, s) ==
  LET inner == Body(code, hot, d, done - 2)
      outer == Around(d, inner, 1)
      after == ReadJump(code, outer, top)
  IN AddStmt(Mark(after, inner.pc = hot, Next1(d), 0, "bottom"), n, isHot,
             Append(s, inner.stmts))

(* An arm of an `if', whose condition is on the stack: `elseif' arms are   *)
(* met in the frame of the rest of the statement, which knows its index    *)
(* only when it ends, and leaves 0 for it.                                 *)
Arm(code, hot, d, isHot, i, n) ==
  LET inner == Body(code, hot, Skip(d, 2), code[d.pc + 1][2] - 2)
      outer == Around(d, inner, n)
      shown == IF outer.hotNode = d.hotNode \/ outer.hotNode.at = <<>>
               THEN outer
               ELSE [outer EXCEPT !.hotNode.at[1] = <<i, n>>]
      arm   == Mark(shown, isHot \/ AnyHot(d, 1), i, n, "top")
  IN [d    |-> Drop(Mark([arm EXCEPT !.pc = @ + 2, !.start = inner.pc + 2],
                         inner.pc = hot, i, n, "bottom"), 1),
      arm  |-> <<Expr(d, 0), inner.stmts>>,
      done |-> JumpTo(code, inner),
      ok   |-> code[inner.pc][1] = "JUMP"]

(* What became hot in the frame of the rest: an arm, a place in an arm or  *)
(* a place in the `else' part.                                             *)
OfStatement(place, before, i, otherwise) ==
  CASE place = before \/ place \in {Nowhere, Inside} -> place
    [] place # before /\ place.at = <<>> /\ place.i = 0 -> [place EXCEPT !.i = i]
    [] place.at # <<>> /\ place.at[1][1] = 0 -> [place EXCEPT !.at[1][1] = i]
    [] OTHER -> [place EXCEPT !.at = <<<<i, otherwise>>>> \o @]

DecompileIf(code, hot, d, isHot) ==
  LET i     == Next1(d)
      first == Arm(code, hot, d, isHot, i, 1)
      rest  == Body(code, hot, first.d, first.done)
      arms  == <<first.arm>> \o rest.arms
      done  == [rest EXCEPT !.stmts = d.stmts, !.arms = d.arms,
                            !.hotNode = OfStatement(@, first.d.hotNode, i,
                                                    Len(arms) + 1)]
  IN AddStmt(Check(done, first.ok /\ rest.pc = first.done), 0, FALSE,
             <<"if", arms, rest.stmts>>)

DecompileElseIf(code, hot, d, isHot, end) ==
  LET next == Arm(code, hot, d, isHot, 0, Len(d.arms) + 2)
  IN Check([next.d EXCEPT !.arms = Append(d.arms, next.arm)],
           next.ok /\ next.done = end)

(* The targets of a scattering, from its operands.                         *)
ScatterTargets_NoOptional(code, first, nargs, rest) ==   \* wrong: optional only if it has a default
  [i \in 1 .. nargs |->
     LET label == code[first + 2 * i - 1][2]
     IN [kind  |-> IF i = rest THEN "rest"
                   ELSE IF label <= 1 THEN "required" ELSE "optional",
         id    |-> code[first + 2 * i - 2][2],
         label |-> IF label > 1 THEN label ELSE 0]]
ScatterTargets(code, first, nargs, rest) ==
  [i \in 1 .. nargs |->
     LET label == code[first + 2 * i - 1][2]
     IN [kind  |-> IF i = rest THEN "rest"
                   ELSE IF label = 0 THEN "required" ELSE "optional",
         id    |-> code[first + 2 * i - 2][2],
         label |-> IF label > 1 THEN label ELSE 0]]

(* The defaults, each an assignment and a POP; hot when one of them was.   *)
Defaults(code, hot, d, targets, done) ==
  LET with == {i \in DOMAIN targets : targets[i].label # 0}
      End(i) == IF \E k \in with : k > i
                THEN targets[Min({k \in with : k > i})].label ELSE done
      One(acc, i) ==
        LET r == Run(code, hot, acc.d, End(i) - 1)
            e == Expr(r, 0)
            fits == /\ acc.d.pc = targets[i].label /\ e[1] = "asgn"
                    /\ e[2] = <<"id", targets[i].id>> /\ code[r.pc] = <<"POP">>
        IN [d     |-> Skip(Check(Drop(r, 1), fits), 1),
            hot   |-> acc.hot \/ AnyHot(r, 1) \/ r.pc = hot,
            exprs |-> [acc.exprs EXCEPT ![i] = e[3]]]
  IN FoldLeft(One, [d |-> d, hot |-> FALSE,
                    exprs |-> [i \in DOMAIN targets |-> <<>>]],
              SetToSortSeq(with, <))

(* The operands of a scattering at pc, its defaults and its tree.          *)
Scattering(code, hot, d, pc) ==
  LET nargs   == code[pc][2]
      targets == ScatterTargets(code, pc + 3, nargs, code[pc + 2][2])
      after   == pc + 3 + 2 * nargs
      done    == code[after][2]
      found   == Defaults(code, hot, [d EXCEPT !.pc = after + 1], targets, done)
  IN [d    |-> Check(found.d, found.d.pc = done),
      hot  |-> found.hot,
      tree |-> [i \in 1 .. nargs |->
                  <<targets[i].kind, targets[i].id, found.exprs[i]>>]]

DecompileScatter(code, hot, d, isHot) ==
  LET found == Scattering(code, hot, d, d.pc + 1)
  IN Build(found.d, 1, isHot \/ found.hot,
           <<"asgn", <<"scatter", found.tree>>, Expr(found.d, 0)>>)

IsOne(e) == e = <<"var", <<"int", 1>>>>

(* In a loop, hot_node is made null where a default was hot (`was e').     *)
DecompileForScatter(code, hot, d, isHot) ==
  LET found == Scattering(code, hot, d, d.pc + 2)
      ready == [found.d EXCEPT !.hotNode = IF found.hot THEN Nowhere ELSE @]
  IN FinishLoop(code, hot, Check(ready, IsOne(Expr(d, 0))), isHot, 2, d.pc,
                code[d.pc + 1][2], <<"forscatter", found.tree, Expr(d, 1)>>)

Codes(e) == IF e[1] = "list" THEN e[2] ELSE <<>>
IsCodes(e) == e[1] = "list" \/ e = <<"var", <<"int", 0>>>>

DecompileCatch(code, hot, d, isHot) ==
  LET label == Expr(d, 0)[2][2]
      codes == Expr(d, 1)
      body  == Run(code, hot, Skip(Drop(d, 2), 1), Len(code) + 1)
      try   == Expr(body, 0)
      start == Skip(Check(body, ~ isHot /\ code[body.pc][1] = "END_CATCH"
                                /\ body.pc + 2 = label /\ IsCodes(codes)), 2)
      done  == code[body.pc + 1][2]
      none  == code[label] = <<"NUM", 1>>
      after == IF none THEN Skip(start, 2)
               ELSE Run(code, hot, Skip(start, 1), done)
      edge  == isHot \/ AnyHot(d, 2) \/ hot \in {body.pc, label}
               \/ (none /\ hot = label + 1)
  IN Build(Check(after, after.pc = done
                        /\ code[label][1] \in {"NUM", "POP"}),
           IF none THEN 1 ELSE 2, edge,
           <<"catch", try, Codes(codes), IF none THEN <<>> ELSE <<Expr(after, 0)>>>>)

(* The arms were pushed in their order, so they are popped from the last.  *)
DecompileExcept(code, hot, d, isHot) ==
  LET count    == code[d.pc + 1][2]
      i        == Next1(d)
      Label(k) == Expr(d, 2 * (count - k))[2][2]
      CodesOf(k) == Expr(d, 2 * (count - k) + 1)
      ArmHot(k) == \E n \in {2 * (count - k), 2 * (count - k) + 1} :
                     d.exprs[Len(d.exprs) - n][2]
      marked   == FoldLeft(LAMBDA m, k : Mark(m, ArmHot(k), i, k, "top"),
                           Mark(d, isHot, i, 0, "top"),
                           [k \in 1 .. count |-> k])
      inner    == Body(code, hot, Skip(Drop(marked, 2 * count), 2), Len(code) + 1)
      outer    == Mark(Around(marked, inner, 1), inner.pc = hot, i, 0, "endbody")
      done     == code[inner.pc + 1][2]
      Handler(acc, k) ==
        LET named == code[acc.d.pc][1] = "PUT"
            pop   == IF named THEN acc.d.pc + 1 ELSE acc.d.pc
            start == Mark(acc.d, hot \in {acc.d.pc, pop}, i, k, "top")
            stop  == IF k < count THEN Label(k + 1) - 2 ELSE done
            stmts == Body(code, hot, [start EXCEPT !.pc = pop + 1], stop)
            found == Around(start, stmts, k + 1)
            fits  == acc.d.pc = Label(k) /\ code[pop] = <<"POP">>
        IN [d    |-> Check(IF k < count
                           THEN Mark(ReadJump(code, found, done),
                                     stmts.pc = hot, i, k, "bottom")
                           ELSE found, fits),
            arms |-> Append(acc.arms,
                            <<IF named THEN code[acc.d.pc][2] ELSE None,
                              Codes(CodesOf(k)), stmts.stmts>>)]
      all == FoldLeft(Handler,
               [d |-> Skip(Check(outer, code[inner.pc][1] = "END_EXCEPT"), 2),
                arms |-> <<>>], [k \in 1 .. count |-> k])
  IN AddStmt(Check(all.d, all.d.pc = done), 0, FALSE,
             <<"except", inner.stmts, all.arms>>)

DecompileFinally(code, hot, d, isHot) ==
  LET i       == Next1(d)
      label   == code[d.pc + 1][2]
      try     == Skip(Mark(d, isHot, i, 0, "top"), 2)
      body    == Body(code, hot, try, Len(code) + 1)
      between == Mark(Around(try, body, 1), body.pc = hot, i, 0, "endbody")
      handler == Body(code, hot,
                      Skip(Check(between, code[body.pc][1] = "END_FINALLY"
                                          /\ body.pc + 1 = label), 1),
                      Len(code) + 1)
      outer   == Mark(Around(between, handler, 2), handler.pc = hot, i, 0, "bottom")
  IN AddStmt(Skip(Check(outer, code[handler.pc][1] = "CONTINUE"), 1), 0, FALSE,
             <<"finally", body.stmts, handler.stmts>>)

(* A mapping after the second takes the place of the second, and only the  *)
(* parts of the first are looked at for what is hot.                       *)
AddMapping(d, isHot) ==
  LET new  == <<Expr(d, 0), Expr(d, 1)>>
      old  == Expr(d, 2)[2]
      made == Build(IF old = <<>> THEN d
                    ELSE [d EXCEPT !.exprs = [j \in DOMAIN @ |->
                           IF j > Len(@) - 2 THEN <<@[j][1], FALSE>> ELSE @[j]]],
                    3, isHot,
                    <<"hash", IF old = <<>> THEN <<new>> ELSE <<old[1], new>>>>)
  IN made

(* After the first INDEXSET or RANGESET the rest of an assignment says     *)
(* nothing new; what is hot there marks a node that is no longer in sight. *)
FinishIndexed(code, hot, d) ==
  LET stop == Min({pc \in d.pc .. Len(code) : code[pc] = <<"PUSH_TEMP">>})
  IN [d EXCEPT !.pc = stop + 1,
               !.hotNode = IF hot \in d.pc .. stop - 1 THEN Inside ELSE @]

(* hot_byte and hot_node are static, so that the unit wanted may be in the *)
(* vector of a fork, whose DONE is the bottom of the fork.                 *)
WayWithin_Nowhere(d) == <<>>   \* wrong: hot_byte is only looked for in the main vector
WayWithin(d) ==
  IF Len(d.way) > 1 /\ d.way[1] = d.pc + 1 THEN Tail(d.way) ELSE <<>>
DecompileFork(code, d, isHot, named) ==
  LET vector == code[d.pc + 1][2].code
      body   == Run(vector, HotIn(WayWithin(d)),
                    [Fresh(WayWithin(d)) EXCEPT !.hotNode = d.hotNode], Len(vector) + 1)
      outer  == [Skip(d, IF named THEN 3 ELSE 2) EXCEPT
                   !.ok = @ /\ body.ok, !.hotNode = Around(d, body, 1).hotNode]
  IN AddStmt(Mark(outer, WayWithin(d) = <<Len(vector)>>, Next1(d), 0, "bottom"), 1, isHot,
             <<"fork", IF named THEN code[d.pc + 2][2] ELSE None, Expr(d, 0), body.stmts>>)

Step(code, hot, d, end) ==
  LET op == code[d.pc][1]
      isHot == d.pc = hot
      Arg(k) == code[d.pc + k][2]
      Make(n, units, e) == Build(Skip(d, units), n, isHot, e)
      putTemp == d.pc > 1 /\ hot = d.pc - 1 /\ code[hot] = <<"PUT_TEMP">>
  IN
  CASE op = "PUSH" -> Make(0, 1, <<"id", code[d.pc][2]>>)
    [] op = "PUT"  -> Make(1, 1, <<"asgn", <<"id", code[d.pc][2]>>, Expr(d, 0)>>)
    [] op = "NUM"  -> Make(0, 1, <<"var", <<"int", code[d.pc][2]>>>>)
    [] op = "IMM"  -> Make(0, 2, <<"var", Arg(1)>>)
    [] op = "IF"   -> DecompileIf(code, hot, d, isHot)
    [] op = "EIF"  -> DecompileElseIf(code, hot, d, isHot, end)
    [] op = "FOR_LIST" ->
         FinishLoop(code, hot, Check(Skip(d, 3), IsOne(Expr(d, 0))), isHot, 2,
                    d.pc, Arg(2), <<"for", Arg(1), Expr(d, 1)>>)
    [] op = "FOR_RANGE" ->
         FinishLoop(code, hot, Skip(d, 3), isHot, 2, d.pc, Arg(2),
                    <<"forrange", Arg(1), Expr(d, 1), Expr(d, 0)>>)
    [] op = "FOR_SCATTER" -> DecompileForScatter(code, hot, d, isHot)
    [] op = "WHILE" ->
         FinishLoop(code, hot, Skip(d, 2), isHot, 1, d.start, Arg(1),
                    <<"while", None, Expr(d, 0)>>)
    [] op = "WHILE_ID" ->
         FinishLoop(code, hot, Skip(d, 3), isHot, 1, d.start, Arg(2),
                    <<"while", Arg(1), Expr(d, 0)>>)
    [] op \in {"FORK", "FORK_WITH_ID"} ->
         DecompileFork(code, d, isHot, op = "FORK_WITH_ID")
    [] op = "POP"     -> AddStmt(Skip(d, 1), 1, isHot, <<"expr", Expr(d, 0)>>)
    [] op = "RETURN"  -> AddStmt(Skip(d, 1), 1, isHot, <<"return", Expr(d, 0)>>)
    [] op = "RETURN0" -> AddStmt(Skip(d, 1), 0, isHot, <<"return", <<>>>>)
    [] op = "DONE"    -> Check(Skip(d, 1), d.pc + 1 = end)
    [] op \in {"AND", "OR"} ->
         LET rhs == Run(code, hot, Skip(d, 2), Arg(1))
         IN Build(Check(rhs, rhs.pc = Arg(1)), 2, isHot,
                  <<TreeKind(op), Expr(d, 0), Expr(rhs, 0)>>)
    [] op \in {"NOT", "UNARY_MINUS"} -> Make(1, 1, <<TreeKind(op), Expr(d, 0)>>)
    [] op = "PUSH_GET_PROP" -> Make(2, 1, <<"prop", Expr(d, 1), Expr(d, 0)>>)
    [] op \in {OpOf[k] : k \in Binary} ->
         Make(2, 1, <<TreeKind(op), Expr(d, 1), Expr(d, 0)>>)
    [] op \in {"REF", "PUSH_REF"} -> Make(2, 1, <<"index", Expr(d, 1), Expr(d, 0)>>)
    [] op = "RANGE_REF" ->
         Make(3, 1, <<"range", Expr(d, 2), Expr(d, 1), Expr(d, 0)>>)
    [] op = "LENGTH" -> Make(0, 2, <<"length">>)
    [] op = "BI_FUNC_CALL" ->
         Make(1, 2, <<"call", Arg(1), Expr(Check(d, Expr(d, 0)[1] = "list"), 0)[2]>>)
    [] op = "CALL_VERB" ->
         Make(3, 1, <<"verb", Expr(d, 2), Expr(d, 1), Expr(d, 0)[2]>>)
    [] op = "IF_QUES" ->
         LET then == Run(code, hot, Skip(Drop(d, 1), 2), Arg(1) - 2)
             done == JumpTo(code, then)
             else == Run(code, hot, ReadJump(code, then, done), done)
         IN Build(Check(else, else.pc = done), 2,
                  isHot \/ then.pc = hot \/ AnyHot(d, 1),
                  <<"cond", Expr(d, 0), Expr(then, 0), Expr(else, 0)>>)
    [] op = "PUT_TEMP" -> Skip(d, 1)
    [] op = "INDEXSET" ->
         FinishIndexed(code, hot, Build(Skip(d, 1), 3, isHot \/ putTemp,
           <<"asgn", <<"index", Expr(d, 2), Expr(d, 1)>>, Expr(d, 0)>>))
    [] op = "RANGESET" ->
         FinishIndexed(code, hot, Build(Skip(d, 1), 4, isHot \/ putTemp,
           <<"asgn", <<"range", Expr(d, 3), Expr(d, 2), Expr(d, 1)>>, Expr(d, 0)>>))
    [] op = "PUT_PROP" ->
         Make(3, 1, <<"asgn", <<"prop", Expr(d, 2), Expr(d, 1)>>, Expr(d, 0)>>)
    [] op = "HASH_CREATE" -> Make(0, 1, <<"hash", <<>>>>)
    [] op = "HASH_INSERT" -> AddMapping(Skip(d, 1), isHot)
    [] op = "MAKE_EMPTY_LIST" -> Make(0, 1, <<"list", <<>>>>)
    [] op = "MAKE_SINGLETON_LIST" ->
         Make(1, 1, <<"list", <<<<"normal", Expr(d, 0)>>>>>>)
    [] op = "CHECK_LIST_FOR_SPLICE" ->
         Make(1, 1, <<"list", <<<<"splice", Expr(d, 0)>>>>>>)
    [] op \in {"LIST_ADD_TAIL", "LIST_APPEND"} ->
         Make(2, 1, <<"list", Append(Expr(d, 1)[2],
           <<IF op = "LIST_APPEND" THEN "splice" ELSE "normal", Expr(d, 0)>>)>>)
    [] op = "SCATTER" -> DecompileScatter(code, hot, d, isHot)
    [] op = "PUSH_LABEL" -> Make(0, 2, <<"var", <<"int", Arg(1)>>>>)
    [] op = "CATCH" -> DecompileCatch(code, hot, d, isHot)
    [] op = "TRY_EXCEPT" -> DecompileExcept(code, hot, d, isHot)
    [] op = "TRY_FINALLY" -> DecompileFinally(code, hot, d, isHot)
    [] op \in {"EXIT", "EXIT_ID"} ->
         LET n == IF op = "EXIT" THEN 3 ELSE 4
         IN AddStmt(Skip(d, n), 0, isHot,
              <<IF Arg(n - 1) < d.pc + n THEN "continue" ELSE "break",
                IF op = "EXIT" THEN None ELSE Arg(1)>>)

(* The body of a vector, and the place in it of the unit that is wanted.   *)
ProgramToTree(code, way) == Run(code, HotIn(way), Fresh(way), Len(code) + 1)

(* find_hot_node(): the line of a place in a body that starts at line.     *)
BodyLine(s, body, line) ==
  CASE s[1] = "if"     -> line + 1 + ArmLines(SubSeq(s[2], 1, body - 1), 2)
    [] s[1] = "except" -> line + 1 + (IF body = 1 THEN 0
                            ELSE BodyLines(s[2]) + 1
                                 + ArmLines(SubSeq(s[3], 1, body - 2), 3))
    [] s[1] = "finally" /\ body = 2 -> line + 2 + BodyLines(s[2])
    [] OTHER -> line + 1

BodyOf(s, body) ==
  CASE s[1] = "if" -> IF body > Len(s[2]) THEN s[3] ELSE s[2][body][2]
    [] s[1] = "except" -> IF body = 1 THEN s[2] ELSE s[3][body - 1][3]
    [] s[1] = "finally" -> s[body + 1]
    [] OTHER -> s[Len(s)]

RECURSIVE LineAt(_, _, _)
LineAt(body, place, line) ==
  LET i == IF place.at = <<>> THEN place.i ELSE place.at[1][1]
      s == body[i]
      top == line + BodyLines(SubSeq(body, 1, i - 1))
      arm == IF s[1] = "except" THEN place.arm + 1 ELSE place.arm
      head == BodyLine(s, arm, top) - 1
  IN IF place.at # <<>>
     THEN LET n == place.at[1][2]
          IN LineAt(BodyOf(s, n), [place EXCEPT !.at = Tail(@)], BodyLine(s, n, top))
     ELSE CASE place.pos = "top" -> IF place.arm = 0 THEN top ELSE head
            [] place.pos = "bottom" -> IF place.arm = 0 THEN top + Lines(s) - 1
                                       ELSE head + BodyLines(BodyOf(s, arm))
            [] place.pos = "endbody" -> BodyLine(s, 1, top) + BodyLines(BodyOf(s, 1))
                                        - (IF s[1] = "except" THEN 1 ELSE 0)

(* find_line_number(): 0 is its panic, "Can't do job".                     *)
LineOf(d, first) ==
  CASE d.hotNode = Nowhere -> 0
    [] d.hotNode = Inside -> first + BodyLines(d.stmts)
    [] OTHER -> LineAt(d.stmts, d.hotNode, first)
FindLineNumber(code, way, first) == LineOf(ProgramToTree(code, way), first)
============================================================================
