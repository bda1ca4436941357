------------------------------ MODULE CodeGen ------------------------------
(***************************************************************************)
(* code_gen.c: a verb's syntax tree becomes a vector of code.              *)
(*                                                                         *)
(* A tree node is a tuple headed by its kind, e.g. <<"index", a, b>>; a    *)
(* list of statements is a sequence.  The code is a sequence of units, an  *)
(* opcode (with its prefix OP_EXTENDED, the slot of PUT_n and PUSH_n or    *)
(* the value of a number opcode) or an operand, whatever its width in      *)
(* bytes.  Program counters and stack indexes start at 1, so a label or a  *)
(* stack index is the code's plus one; the pseudo-labels 0 and 1 of a      *)
(* scattering stay.  A literal or a fork vector is held where the code     *)
(* holds its number.                                                       *)
(***************************************************************************)
EXTENDS Integers, Sequences, SequencesExt

NoTop == 0    \* saved_stack == UINT_MAX
None  == ""   \* a variable slot of -1: a loop, an exit or a handler unnamed

(* The generator's state.  at (the height of the stack before each unit)   *)
(* and line (the statement that each unit belongs to) are not in the code: *)
(* they say where the run-time stack and find_line_number() should be.     *)
InitState == [code |-> <<>>, at |-> <<>>, line |-> <<>>, now |-> 0,
              cur |-> 0, max |-> 0, saved |-> NoTop, loops |-> <<>>]

Here(g) == Len(g.code) + 1

(* emit_byte() or emit_extended_byte(), then push_stack() or pop_stack().  *)
Emit(g, unit, change) ==
  LET height == g.cur + change
  IN [g EXCEPT !.code = Append(@, unit), !.at = Append(@, g.cur),
               !.line = Append(@, g.now), !.cur = height,
               !.max = IF height > @ THEN height ELSE @]

Op(g, name, change) == Emit(g, <<name>>, change)
Operand(g, kind, value) == Emit(g, <<kind, value>>, 0)

(* add_label() leaves a place that define_label() fills, with every place  *)
(* linked to it, when the code that it jumps to is about to be written.    *)
AddLabel(g) == Operand(g, "label", 0)
DefineLabel(g, places) ==
  [g EXCEPT !.code = [i \in DOMAIN @ |-> IF i \in places
                                         THEN <<"label", Here(g)>> ELSE @[i]]]

(* Code that find_line_number() is known not to place: see LinesRight.     *)
OffLine(g) == [g EXCEPT !.now = 0]
AtLine(g, line) == [g EXCEPT !.now = line]

SaveStackTop(g) == [g EXCEPT !.saved = g.cur]
RestoreStackTop(g, old) == [g EXCEPT !.saved = old]
SetHeight(g, height) == [g EXCEPT !.cur = height]

EnterLoop(g, id, top, bottom, below) ==
  [g EXCEPT !.loops = Append(@, [id |-> id, top |-> top, topStack |-> g.cur,
                                 bottom |-> {bottom},
                                 bottomStack |-> g.cur - below])]
ExitLoop(g) == [g EXCEPT !.loops = Front(@)]
BottomLabels(g) == Last(g.loops).bottom

Binary == {"eq", "ne", "lt", "le", "gt", "ge", "in", "plus", "minus", "times", "divide",
           "mod", "prop", "exp"}
OpOf == [eq |-> "EQ", ne |-> "NE", lt |-> "LT", le |-> "LE", gt |-> "GT", ge |-> "GE",
         in |-> "IN", plus |-> "ADD", minus |-> "MINUS", times |-> "MULT",
         divide |-> "DIV", mod |-> "MOD", prop |-> "GET_PROP", exp |-> "EXP",
         not |-> "NOT", negate |-> "UNARY_MINUS", and |-> "AND", or |-> "OR"]

(* A number that has an opcode of its own, or a literal of the program.    *)
OptimNums == -10 .. 130
PushValue(g, v) ==
  IF v[1] = "int" /\ v[2] \in OptimNums THEN Emit(g, <<"NUM", v[2]>>, 1)
  ELSE Operand(Op(g, "IMM", 1), "lit", v)

RECURSIVE GenExpr(_, _), GenArgs(_, _), PushLvalue(_, _, _), GenStores(_, _),
          GenDefaults(_, _, _), GenMappings(_, _)

(* A list is built from its first element on; "splice" marks an `@'.       *)
GenArgs(g, args) ==
  IF args = <<>> THEN Op(g, "MAKE_EMPTY_LIST", 1)
  ELSE FoldLeftDomain(
         LAMBDA h, i :
           LET value == GenExpr(h, args[i][2])
               splice == args[i][1] = "splice"
           IN IF i = 1
              THEN Op(value, IF splice THEN "CHECK_LIST_FOR_SPLICE"
                                       ELSE "MAKE_SINGLETON_LIST", 0)
              ELSE Op(value, IF splice THEN "LIST_APPEND"
                                       ELSE "LIST_ADD_TAIL", -1),
         g, args)

GenCodes(g, codes) ==
  IF codes = <<>> THEN Emit(g, <<"NUM", 0>>, 1) ELSE GenArgs(g, codes)

(* The mappings of a hash, the value of each before its key.               *)
GenMappings(g, mappings) ==
  AtLine(FoldLeft(LAMBDA h, m : OffLine(Op(GenExpr(GenExpr(h, m[2]), m[1]),
                                           "HASH_INSERT", -2)),
                  g, mappings), g.now)

(* The part of an assignment's left side that is computed before its right *)
(* side; what is indexed above also pushes the value that it indexes.      *)
PushLvalue(g, e, indexedAbove) ==
  CASE e[1] = "range" ->
         LET base == PushLvalue(g, e[2], TRUE)
         IN RestoreStackTop(GenExpr(GenExpr(SaveStackTop(base), e[3]), e[4]),
                            base.saved)
    [] e[1] = "index" ->
         LET base == PushLvalue(g, e[2], TRUE)
             both == RestoreStackTop(GenExpr(SaveStackTop(base), e[3]),
                                     base.saved)
         IN IF indexedAbove THEN Op(both, "PUSH_REF", 1) ELSE both
    [] e[1] = "id" ->
         IF indexedAbove THEN Emit(g, <<"PUSH", e[2]>>, 1) ELSE g
    [] e[1] = "prop" ->
         LET both == GenExpr(GenExpr(g, e[2]), e[3])
         IN IF indexedAbove THEN Op(both, "PUSH_GET_PROP", 1) ELSE both

(* What follows the right side: the nested values are put back one into    *)
(* the other, up to the variable or the property that holds them all.      *)
GenStores(g, e) ==
  CASE e[1] = "range" -> GenStores(OffLine(Op(g, "RANGESET", -3)), e[2])
    [] e[1] = "index" -> GenStores(OffLine(Op(g, "INDEXSET", -2)), e[2])
    [] e[1] = "id"    -> Emit(g, <<"PUT", e[2]>>, 0)
    [] e[1] = "prop"  -> Op(g, "PUT_PROP", -2)

(* A scattering is a sequence of targets <<kind, variable, default>>, the  *)
(* default an expression or <<>>.                                          *)
Count(targets, kind) == Len(SelectSeq(targets, LAMBDA t : t[1] = kind))
RestPlace(targets) ==
  IF Count(targets, "rest") = 0 THEN Len(targets) + 1
  ELSE Max({i \in DOMAIN targets : targets[i][1] = "rest"})

(* The defaults, each at the label that the operands of the target name;   *)
(* first is the place of the first operand.                                *)
GenDefaults(g, targets, first) ==
  FoldLeftDomain(
    LAMBDA h, i :
      IF targets[i][1] = "optional" /\ targets[i][3] # <<>>
      THEN LET value == GenExpr(DefineLabel(h, {first + 2 * i - 1}),
                                targets[i][3])
           IN Op(Emit(value, <<"PUT", targets[i][2]>>, 0), "POP", -1)
      ELSE h,
    g, targets)

GenScatterData(g, targets) ==
  LET counts == Operand(Operand(Operand(g, "byte", Len(targets)), "byte",
                                Count(targets, "required")),
                        "byte", RestPlace(targets))
      vars == FoldLeft(LAMBDA h, t :
                         Operand(Operand(h, "var", t[2]), "label",
                                 IF t[1] = "optional" THEN 1 ELSE 0),
                       counts, targets)
      done == Here(vars)
  IN DefineLabel(GenDefaults(AddLabel(vars), targets, Here(counts)), {done})

GenExpr(g, e) ==
  CASE e[1] = "var" -> PushValue(g, e[2])
    [] e[1] = "id"  -> Emit(g, <<"PUSH", e[2]>>, 1)
    [] e[1] \in {"and", "or"} ->
         LET test == Op(GenExpr(g, e[2]), OpOf[e[1]], 0)
             rhs  == GenExpr(SetHeight(AddLabel(test), test.cur - 1), e[3])
         IN DefineLabel(rhs, {Here(test)})
    [] e[1] \in {"not", "negate"} -> Op(GenExpr(g, e[2]), OpOf[e[1]], 0)
    [] e[1] \in Binary ->
         Op(GenExpr(GenExpr(g, e[2]), e[3]), OpOf[e[1]], -1)
    [] e[1] = "index" ->
         LET base == GenExpr(g, e[2])
         IN Op(RestoreStackTop(GenExpr(SaveStackTop(base), e[3]), base.saved),
               "REF", -1)
    [] e[1] = "range" ->
         LET base == GenExpr(g, e[2])
         IN Op(RestoreStackTop(GenExpr(GenExpr(SaveStackTop(base), e[3]), e[4]),
                               base.saved),
               "RANGE_REF", -2)
    [] e[1] = "length" -> Operand(Op(g, "LENGTH", 1), "stack", g.saved)
    [] e[1] = "hash" -> GenMappings(Op(g, "HASH_CREATE", 1), e[2])
    [] e[1] = "list" -> GenArgs(g, e[2])
    [] e[1] = "call" ->
         Operand(Op(GenArgs(g, e[3]), "BI_FUNC_CALL", 0), "func", e[2])
    [] e[1] = "verb" ->
         Op(GenArgs(GenExpr(GenExpr(g, e[2]), e[3]), e[4]), "CALL_VERB", -2)
    [] e[1] = "cond" ->
         LET test == Op(GenExpr(g, e[2]), "IF_QUES", -1)
             then == Op(GenExpr(AddLabel(test), e[3]), "JUMP", -1)
             else == DefineLabel(AddLabel(then), {Here(test)})
         IN DefineLabel(GenExpr(else, e[4]), {Here(then)})
    [] e[1] = "asgn" /\ e[2][1] = "scatter" ->
         GenScatterData(Op(GenExpr(g, e[3]), "SCATTER", 0), e[2][2])
    [] e[1] = "asgn" /\ e[2][1] \in {"range", "index"} ->
         LET value == GenExpr(PushLvalue(g, e[2], FALSE), e[3])
             stored == GenStores(Op(value, "PUT_TEMP", 0), e[2])
         IN AtLine(Op(Op(stored, "POP", -1), "PUSH_TEMP", 1), g.now)
    [] e[1] = "asgn" ->
         GenStores(GenExpr(PushLvalue(g, e[2], FALSE), e[3]), e[2])
    [] e[1] = "catch" ->
         LET codes   == Op(GenCodes(g, e[3]), "PUSH_LABEL", 1)
             catch   == Op(AddLabel(codes), "CATCH", 1)
             body    == Op(GenExpr(catch, e[2]), "END_CATCH", -3)
             handler == DefineLabel(AddLabel(body), {Here(codes)})
             except  == IF e[4] = <<>>
                        THEN Op(Emit(handler, <<"NUM", 1>>, 1), "REF", -1)
                        ELSE GenExpr(Op(handler, "POP", -1), e[4][1])
         IN DefineLabel(except, {Here(body)})

(***************************************************************************)
(* Statements.  now is the line of the statement being generated, in the   *)
(* listing that unparse.c makes: a line for each simple statement, for the *)
(* head of each arm and for the end of a compound one.                     *)
(***************************************************************************)
RECURSIVE Lines(_)
BodyLines(body) == FoldLeft(LAMBDA n, s : n + Lines(s), 0, body)
ArmLines(arms, part) == FoldLeft(LAMBDA n, a : n + 1 + BodyLines(a[part]), 0, arms)
Lines(s) ==
  CASE s[1] \in {"expr", "return", "break", "continue"} -> 1
    [] s[1] = "if" -> ArmLines(s[2], 2) + 1
                      + (IF s[3] = <<>> THEN 0 ELSE 1 + BodyLines(s[3]))
    [] s[1] = "except" -> BodyLines(s[2]) + ArmLines(s[3], 3) + 2
    [] s[1] = "finally" -> BodyLines(s[2]) + BodyLines(s[3]) + 3
    [] s[1] \in {"while", "for", "forscatter", "fork", "forrange"} ->
         2 + BodyLines(s[Len(s)])

NextLine(g) == AtLine(g, g.now + 1)

RECURSIVE GenStmt(_, _), StmtToCode(_, _)
(* The state that a statement starts from is a member of a set so that TLC *)
(* computes it there, not when it is first used, deep in the statement.    *)
GenNext(g, s) == CHOOSE next \in {GenStmt(now, s) : now \in {g}} : TRUE
GenBody(g, body) == FoldLeft(GenNext, g, body)

(* The body of a loop, the jump back to its test and the label past it.    *)
LoopEnd(jump) == ExitLoop(NextLine(DefineLabel(jump, BottomLabels(jump))))
GenLoop(g, body, top) ==
  LoopEnd(Operand(Op(GenBody(NextLine(g), body), "JUMP", 0), "label", top))

(* The arms, each its test, its body and a jump to the end.                *)
ArmEnd(ends, place, body) ==
  [g    |-> DefineLabel(AddLabel(body), {place}),
   ends |-> ends \cup {Here(body)}]
ArmBody(ends, test, stmts) ==
  ArmEnd(ends, Here(test), Op(GenBody(NextLine(AddLabel(test)), stmts), "JUMP", 0))
GenArm(acc, i, arm) ==
  ArmBody(acc.ends, Op(GenExpr(acc.g, arm[1]), IF i = 1 THEN "IF" ELSE "EIF", -1), arm[2])
EndIf(all, otherwise) ==
  NextLine(DefineLabel(IF otherwise = <<>> THEN all.g
                       ELSE GenBody(NextLine(all.g), otherwise), all.ends))
GenIf(g, arms, otherwise) ==
  EndIf(FoldLeftDomain(LAMBDA acc, i : GenArm(acc, i, arms[i]),
                       [g |-> g, ends |-> {}], arms),
        otherwise)

(* A loop over a list keeps the list and the index of the next element on  *)
(* the stack, one over a range its two ends; ready is where these are, and *)
(* the test at the loop's top.  They are gone at its end.                  *)
EnterFor(ready, test, id) ==
  EnterLoop(AddLabel(test), id, Here(ready), Here(test), 2)
GenFor_KeepValues(ready, entered, body, height) ==   \* wrong: the stack is not popped
  GenLoop(entered, body, Here(ready))
GenFor(ready, entered, body, height) ==
  SetHeight(GenLoop(entered, body, Here(ready)), height)
GenForList(ready, id, body, height) ==
  GenFor(ready, EnterFor(ready, Operand(Op(ready, "FOR_LIST", 0), "var", id), id),
         body, height)
GenForRange(ready, id, body, height) ==
  GenFor(ready, EnterFor(ready, Operand(Op(ready, "FOR_RANGE", 0), "var", id), id),
         body, height)
GenForScatter(ready, targets, body, height) ==
  GenFor(ready,
         GenScatterData(EnterFor(ready, Op(ready, "FOR_SCATTER", 0), targets[1][2]),
                        targets),
         body, height)

WhileTest(test, id, top, height, body) ==
  GenLoop(EnterLoop(SetHeight(AddLabel(test), height), id, top, Here(test), 0), body, top)
GenWhile(g, value, id, body) ==
  WhileTest(IF id = None THEN Op(value, "WHILE", 0)
            ELSE Operand(Op(value, "WHILE_ID", 0), "var", id),
            id, Here(g), g.cur, body)

GenFork(g, value, id, body) ==
  LET fork == Operand(Op(value, IF id = None THEN "FORK" ELSE "FORK_WITH_ID", -1),
                      "fork", StmtToCode(body, g.now + 1))
  IN AtLine(IF id = None THEN fork ELSE Operand(fork, "var", id),
            g.now + 2 + BodyLines(body))

(* break and continue name the height and the label of the loop they leave *)
(* or start again, which they search from the innermost out.               *)
GenExit(g, kind, id) ==
  LET n == IF id = None THEN Len(g.loops)
           ELSE Max({i \in DOMAIN g.loops : g.loops[i].id = id})
      loop == g.loops[n]
      exit == IF id = None THEN Op(g, "EXIT", 0)
              ELSE Operand(Op(g, "EXIT_ID", 0), "var", id)
      height == Operand(exit, "stack", IF kind = "continue" THEN loop.topStack
                                       ELSE loop.bottomStack)
  IN NextLine(IF kind = "continue" THEN Operand(height, "label", loop.top)
              ELSE [AddLabel(height) EXCEPT
                      !.loops[n].bottom = @ \cup {Here(height)}])

(* The arms' codes and labels are pushed before the body, in their order;  *)
(* places are those of the labels.                                         *)
ArmPushed(places, codes) == [g |-> AddLabel(codes), places |-> Append(places, Here(codes))]
PushArms(g, body, arms) ==
  LET ArmLine(i) == g.now + 1 + BodyLines(body)
                    + ArmLines(SubSeq(arms, 1, i - 1), 3)
  IN FoldLeftDomain(
       LAMBDA acc, i :
         ArmPushed(acc.places,
                   Op(GenCodes(AtLine(acc.g, ArmLine(i)), arms[i][2]), "PUSH_LABEL", 1)),
       [g |-> g, places |-> <<>>], arms)

GenHandler(start, name, stmts) ==
  GenBody(NextLine(Op(IF name = None THEN start ELSE Emit(start, <<"PUT", name>>, 0),
                      "POP", -1)), stmts)
HandlerEnd(ends, jump) == [g |-> AddLabel(jump), ends |-> ends \cup {Here(jump)}]
GenHandlers(inside, places, arms) ==
  FoldLeftDomain(
    LAMBDA acc, i :
      LET stmts == GenHandler(SetHeight(DefineLabel(acc.g, {places[i]}), acc.g.cur + 1),
                           arms[i][1], arms[i][3])
      IN IF i = Len(arms) THEN [g |-> stmts, ends |-> acc.ends]
         ELSE HandlerEnd(acc.ends, Op(stmts, "JUMP", 0)),
    [g |-> AddLabel(inside), ends |-> {Here(inside)}], arms)

TryBody(pushed, now, body, n) ==
  Op(GenBody(NextLine(Operand(AtLine(Op(pushed, "TRY_EXCEPT", 1), now), "byte", n)), body),
     "END_EXCEPT", -(2 * n + 1))
EndExcept(all) == NextLine(DefineLabel(all.g, all.ends))
ExceptArms(pushed, now, body, arms) ==
  EndExcept(GenHandlers(TryBody(pushed.g, now, body, Len(arms)), pushed.places, arms))
GenExcept(g, body, arms) == ExceptArms(PushArms(g, body, arms), g.now, body, arms)

(* The handler runs above the reason it runs for and a value.              *)
GenFinally(g, body, handler) ==
  LET inside == Op(GenBody(NextLine(AddLabel(Op(g, "TRY_FINALLY", 1))), body),
                   "END_FINALLY", -1)
      start  == SetHeight(DefineLabel(inside, {Here(g) + 1}), g.cur + 2)
  IN NextLine(Op(GenBody(NextLine(start), handler), "CONTINUE", -2))

(* A `for' over a list starts with its first element.                      *)
GenStmt(g, s) ==
  CASE s[1] = "if"         -> GenIf(g, s[2], s[3])
    [] s[1] = "for"        -> GenForList(Emit(GenExpr(g, s[3]), <<"NUM", 1>>, 1), s[2], s[4], g.cur)
    [] s[1] = "forscatter" -> GenForScatter(Emit(GenExpr(g, s[3]), <<"NUM", 1>>, 1), s[2], s[4], g.cur)
    [] s[1] = "forrange"   -> GenForRange(GenExpr(GenExpr(g, s[3]), s[4]), s[2], s[5], g.cur)
    [] s[1] = "while"      -> GenWhile(g, GenExpr(g, s[3]), s[2], s[4])
    [] s[1] = "fork"       -> GenFork(g, GenExpr(g, s[3]), s[2], s[4])
    [] s[1] = "expr"       -> NextLine(Op(GenExpr(g, s[2]), "POP", -1))
    [] s[1] = "return"     ->
         NextLine(IF s[2] = <<>> THEN Op(g, "RETURN0", 0)
                  ELSE Op(GenExpr(g, s[2]), "RETURN", -1))
    [] s[1] = "except"     -> GenExcept(g, s[2], s[3])
    [] s[1] = "finally"    -> GenFinally(g, s[2], s[3])
    [] s[1] \in {"break", "continue"} -> GenExit(g, s[1], s[2])

(* The vector; its stack must be empty at the end, no index saved, and     *)
(* its line numbers start at line.                                         *)
EndVector(g) == [code |-> g.code, at |-> g.at, line |-> g.line, max |-> g.max,
                 end |-> g.cur, saved |-> g.saved]
StmtToCode(body, line) ==
  EndVector(Op(GenBody(AtLine(InitState, line), body), "DONE", 0))
============================================================================
