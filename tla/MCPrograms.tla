----------------------------- MODULE MCPrograms -----------------------------
(***************************************************************************)
(* The programs that the runs of ProgramMeaning look at, in families:      *)
(* statements nested in statements, calls that unwind through verbs and    *)
(* through built-in functions, and expressions.                            *)
(***************************************************************************)
EXTENDS ProgramMeaning

CONSTANTS Families  \* the ones to run

I(n)     == <<"var", Num(n)>>
V(x)     == <<"id", x>>
Str(s)   == <<"var", <<"str", s>>>>
E_(e)    == <<"var", Err(e)>>
Obj(o)   == <<"var", <<"obj", o>>>>
Args(es) == [i \in DOMAIN es |-> <<"normal", es[i]>>]
L(es)    == <<"list", Args(es)>>
Call(f, es) == <<"call", f, Args(es)>>
Verb(o, v, es) == <<"verb", Obj(o), Str(<<v>>), Args(es)>>
Asgn(p, e) == <<"asgn", p, e>>
Do(e)    == <<"expr", e>>
Note(e)  == Do(Call("note", <<e>>))
Ask      == Call("ask", <<>>)
Main(stmts) == [verbs |-> <<<<"main", stmts>>>>, quiet |-> {}]

(***************************************************************************)
(* Statements in statements.  A hole is a sequence of statements.          *)
(***************************************************************************)
Compounds == {"while", "for", "range", "scatter", "try", "arm", "named", "body", "handler",
              "if", "fork"}
Loops == {"while", "for", "range", "scatter"}

Counter(depth) == V(<<"x", "y", "b">>[depth])
Compound(kind, depth, hole) ==
  CASE kind = "while" ->
         LET n == Counter(depth)
         IN <<Do(Asgn(n, I(2))),
              <<"while", "w", n, <<Do(Asgn(n, <<"minus", n, I(1)>>))>> \o hole \o <<Note(n)>>>>>>
    [] kind = "for" -> <<<<"for", "i", L(<<I(7), I(8)>>), hole \o <<Note(V("i"))>>>>>>
    [] kind = "range" -> <<<<"forrange", "j", I(4), I(5), hole \o <<Note(V("j"))>>>>>>
    [] kind = "scatter" ->
         <<<<"forscatter", <<<<"required", "a", <<>>>>, <<"optional", "t", <<>>>>,
                             <<"rest", "r", <<>>>>>>,
             L(<<L(<<I(1)>>), L(<<I(2), I(3), I(4)>>)>>), hole \o <<Note(V("r"))>>>>>>
    [] kind = "try" ->
         <<<<"except", hole, <<<<"", Args(<<E_("E_DIV")>>), <<Note(I(11))>>>>,
                               <<"e", <<>>, <<Note(V("e"))>>>>>>>>>>
    [] kind = "arm" ->
         <<<<"except", <<Note(Ask)>>, <<<<"", <<>>, hole>>>>>>>>
    [] kind = "named" ->
         <<<<"except", hole, <<<<"e", Args(<<E_("E_DIV"), E_("E_ARGS")>>), <<Note(V("e"))>>>>>>>>>>
    [] kind = "body" -> <<<<"finally", hole, <<Note(I(12))>>>>>>
    [] kind = "handler" -> <<<<"finally", <<Note(Ask)>>, hole \o <<Note(I(13))>>>>>>
    [] kind = "if" ->
         <<<<"if", <<<<Ask, hole>>, <<I(1), <<Note(I(14))>>>>>>, <<Note(I(15))>>>>>>
    [] kind = "fork" -> <<<<"fork", "t", I(0), hole>>, Note(V("t"))>>

LoopName(kind) == CASE kind = "while" -> "w" [] kind = "for" -> "i"
                    [] kind = "range" -> "j" [] kind = "scatter" -> "a"

(* What may stand in the innermost hole: an exit needs its loop around it, *)
(* in the same vector.                                                     *)
Leaves(around) ==
  LET fork  == {k \in DOMAIN around : around[k] = "fork"}
      loops == {k \in DOMAIN around : around[k] \in Loops /\ \A f \in fork : f < k}
  IN {<<Note(Ask)>>, <<<<"return", I(16)>>>>}
     \cup (IF loops = {} THEN {} ELSE {<<<<"break", "">>>>, <<<<"continue", "">>>>})
     \cup {<<<<exit, LoopName(around[k])>>>> : exit \in {"break", "continue"}, k \in loops}

RECURSIVE Nested(_, _)
Nested(around, leaf) ==
  IF around = <<>> THEN leaf
  ELSE Nested(Front(around), Compound(Last(around), Len(around), leaf) \o <<Note(I(20 + Len(around)))>>)

Nestings == {<<a, b>> : a \in Compounds, b \in Compounds}
            \cup {<<a, b, c>> : a \in {"for", "while"}, b \in {"body", "handler", "try"},
                                c \in {"body", "handler", "named", "range"}}
StatementPrograms == UNION {{Main(Nested(n, leaf)) : leaf \in Leaves(n)} : n \in Nestings}

(***************************************************************************)
(* Calls: move() calls accept, exitfunc and enterfunc; pass() calls the    *)
(* inherited verb; a verb calls itself.                                    *)
(***************************************************************************)
Thing == Obj("thing")
MoveTo(o) == Call("move", <<Thing, Obj(o)>>)
Returns(e) == <<<<"return", e>>>>
Caught(e) == <<<<"except", <<Note(e)>>, <<<<"e", <<>>, <<Note(V("e"))>>>>>>>>>>
Finally(e) == <<<<"finally", <<Note(e)>>, <<Note(I(30))>>>>>>
Handled(e) == <<Note(<<"catch", e, <<>>, <<I(31)>>>>)>>
Callers(e) == {Caught(e), Finally(e) \o <<Note(I(32))>>, Handled(e),
               <<Note(e), Note(I(33))>>}

MoveVerbs ==
  {<<>>} \cup
  {<<<<"accept", a>>>> \o rest :
     a \in {Returns(I(1)), Returns(Ask), <<Note(MoveTo("room"))>> \o Returns(I(1))},
     rest \in {<<>>, <<<<"exitfunc", <<Note(Ask)>>>>>>, <<<<"enterfunc", <<Note(Ask)>>>>>>,
               <<<<"exitfunc", <<Note(MoveTo("#-1"))>>>>, <<"enterfunc", <<Note(Ask)>>>>>>,
               <<<<"exitfunc", <<Note(I(34))>>>>, <<"enterfunc", <<Note(Call("raise", <<E_("E_DIV")>>))>>>>>>}}
Moves ==
  {[verbs |-> <<<<"main", body>>>> \o verbs, quiet |-> quiet] :
     body \in UNION {Callers(e) : e \in {MoveTo("room"), Call("call_function",
                       <<Str(<<"move">>), Thing, Obj("room")>>)}}
              \cup {Handled(MoveTo("hall")), Handled(MoveTo("nowhere")), <<Note(MoveTo("#-1"))>>},
     verbs \in MoveVerbs, quiet \in {{}, {"accept", "exitfunc"}}}

Self == Verb("room", "v", <<Ask>>)
Passes ==
  {[verbs |-> <<<<"main", Caught(Verb("room", "v", <<I(40)>>))>>, <<"v", v>>>> \o inherited,
    quiet |-> quiet] :
     v \in {Returns(Call("pass", <<V("args")>>)), Finally(Call("pass", <<I(41)>>)),
            Returns(Self), Finally(Self)},
     inherited \in {<<>>, <<<<"inherited", <<Note(V("args")), Note(Ask)>>>>>>,
                    <<<<"inherited", <<<<"return", Call("pass", <<>>)>>>>>>>>},
     quiet \in {{}, {"v"}, {"main", "inherited"}}}
CallPrograms == Moves \cup Passes

(***************************************************************************)
(* Expressions, where an error is raised and where it is a value.          *)
(***************************************************************************)
Atoms == {I(0), I(2), L(<<I(5), I(6)>>), E_("E_DIV"), Str(<<"a", "b">>), V("x"), Thing}
Small == {I(0), I(2), L(<<I(5), I(6)>>), Str(<<"a", "b">>), V("x"), Ask}
Hash(ps) == <<"hash", ps>>
PropertyOf(o, p) == <<"prop", o, p>>
X1(e) == <<"index", V("x"), e>>
Dollar == <<"length">>
Target(kind, x, default) == <<kind, x, default>>

Expressions ==
  {<<op, a, b>> : op \in {"eq", "ne", "lt", "le", "gt", "ge", "in", "plus", "minus", "times",
                                    "divide", "mod", "exp", "and", "or"},
                  a \in Small, b \in Small}
  \cup {<<op, a>> : op \in {"not", "negate"}, a \in Small}
  \cup {<<"index", a, b>> : a \in Small \cup {Hash(<<<<I(2), I(9)>>>>)}, b \in {I(0), I(2), Ask, Dollar}}
  \cup {<<"range", a, b, c>> : a \in Small, b \in {I(0), I(1), Ask}, c \in {I(0), I(2), Dollar}}
  \cup {PropertyOf(a, p) : a \in {Thing, Obj("nowhere"), I(2), Ask}, p \in {Str(<<"p">>), Str(<<"q">>), I(2)}}
  \cup {<<"cond", Ask, a, b>> : a \in {Ask, V("x")}, b \in {I(3), L(<<I(200)>>)}}
  \cup {<<"list", <<<<k, a>>, <<m, b>>>>>> : k \in {"normal", "splice"}, m \in {"normal", "splice"},
                                             a \in {L(<<I(5)>>), Ask}, b \in {L(<<>>), Ask}}
  \cup {Hash(<<<<I(1), Ask>>, <<k, I(2)>>>>) : k \in {I(1), I(2), Ask}}
  \cup {<<"catch", e, codes, except>> :
          e \in {Ask, V("x"), <<"catch", Ask, Args(<<E_("E_PERM")>>), <<I(50)>>>>, Note(Ask)[2]},
          codes \in {<<>>, Args(<<E_("E_DIV"), E_("E_PERM")>>), Args(<<Ask>>)},
          except \in {<<>>, <<Ask>>}}
Stores ==
  {Asgn(p, e) : p \in {V("x"), X1(I(2)), X1(Dollar), X1(I(0)),
                       <<"index", X1(I(1)), <<"plus", Dollar, I(0)>>>>,
                       <<"range", V("x"), I(1), Dollar>>, <<"range", V("x"), I(2), I(1)>>,
                       <<"range", X1(I(1)), Dollar, Dollar>>,
                       PropertyOf(Thing, Str(<<"p">>)), PropertyOf(Thing, Str(<<"q">>)),
                       <<"index", PropertyOf(Thing, Str(<<"p">>)), Dollar>>, X1(X1(Dollar))},
                e \in {I(60), Ask, L(<<I(61), I(62), I(63)>>), Asgn(X1(I(1)), I(64)), Str(<<"c">>)}}
HashStores ==   \* keys that are numbers: see IndexSet
  {Asgn(p, e) : p \in {X1(I(0)), X1(I(1)), X1(I(2)), <<"index", X1(I(1)), Dollar>>,
                       <<"index", X1(I(2)), I(1)>>}, e \in {I(65), Ask}}
Scatterings ==
  {Asgn(<<"scatter", ts>>, list) :
     ts \in {<<Target("required", "x", <<>>)>>,
             <<Target("optional", "x", Ask), Target("required", "y", <<>>)>>,
             <<Target("optional", "x", I(70)), Target("optional", "y", V("x")), Target("rest", "r", <<>>)>>,
             <<Target("required", "y", <<>>), Target("rest", "r", <<>>), Target("optional", "x", <<>>)>>,
             <<Target("optional", "y", <<>>), Target("optional", "x", Asgn(V("r"), I(71)))>>},
     list \in {L(<<>>), L(<<I(1)>>), L(<<I(1), I(2)>>), L(<<I(1), I(2), I(3), I(4)>>), I(5)}}

(* An object without a verb for the operator, and the error noted.         *)
Failing ==
  {Main(Caught(<<op, a, b>>)) : op \in {"plus", "minus", "mod", "lt", "ge", "index"},
                                a \in {Thing, Obj("nowhere")}, b \in {I(2), Ask}}
  \cup {Main(Caught(<<op, I(2), Thing>>)) : op \in {"plus", "lt"}}
  \cup {Main(Caught(<<"in", a, b>>)) : a \in {I(2), Ask, Thing}, b \in {Thing, Obj("nowhere")}}
  \cup {Main(Caught(<<op, a>>)) : op \in {"not", "negate"}, a \in {Thing, Obj("nowhere")}}

Both(stmts) == {[verbs |-> <<<<"main", stmts>>>>, quiet |-> quiet] : quiet \in {{}, {"main"}}}

(* Objects compared and ranges of them.                                    *)
Ends == {Obj("#-1"), Obj("room"), Thing, Obj("nowhere"), I(1)}
OfObjects ==
  {Main(Caught(<<op, Obj("room"), b>>)) : op \in {"lt", "le", "gt", "ge", "eq"},
                                          b \in {Obj("hall"), Obj("room"), Thing}}
  \cup UNION {Both(<<<<"forrange", "i", from, to, <<Note(V("i"))>>>>, Note(V("i"))>>) :
                from \in Ends, to \in Ends}

Whole == L(<<L(<<I(1), I(2)>>), I(3)>>)
ExpressionPrograms ==
  Failing \cup OfObjects \cup UNION {Both(<<Note(e), Note(I(80))>>) : e \in Expressions}
  \cup UNION {Both(<<Do(Asgn(V("x"), value)), Note(e), Note(V("x")), Note(PropertyOf(Thing, Str(<<"p">>)))>>)
              : e \in Stores, value \in {Whole, Str(<<"a", "b">>)}}
  \cup UNION {Both(<<Do(Asgn(V("x"), Hash(<<<<I(1), L(<<I(2)>>)>>>>))), Note(e), Note(V("x"))>>)
              : e \in HashStores}
  \cup UNION {Both(<<Note(e), Note(L(<<V("y")>>)), Note(V("r")), Note(V("x"))>>) : e \in Scatterings}
  \cup UNION {Both(<<s>> \o <<Note(I(81))>>) :
                s \in {<<"for", "i", I(1), <<Note(V("i"))>>>>, <<"forrange", "i", I(1), Whole, <<>>>>,
                       <<"forscatter", <<Target("required", "i", <<>>)>>, I(1), <<>>>>,
                       <<"fork", "", Whole, <<Note(I(82))>>>>, <<"fork", "t", I(-1), <<Note(I(83))>>>>,
                       Note(Verb("nowhere", "v", <<>>)), Note(Verb("room", "w", <<>>)),
                       Note(<<"verb", I(1), Str(<<"v">>), <<>>>>),
                       Note(<<"call", "note", <<<<"splice", I(1)>>>>>>)}}

(***************************************************************************)
(* Families in which the code fails: a verb of an object for its operator  *)
(* (StackAsCounted, SavedAccepted), and a default in the head of a `for'   *)
(* (LinesRight).                                                           *)
(***************************************************************************)
OperatorPrograms ==
  {[verbs |-> <<<<"main", <<Note(e)>>>>, <<v, Returns(Ask)>>>>, quiet |-> {}] :
     <<e, v>> \in {<<<<"lt", Thing, I(1)>>, "operator<">>, <<<<"plus", Thing, I(1)>>, "operator+">>,
                   <<<<"negate", Thing>>, "operator~">>}}
DefaultPrograms ==
  {Main(<<<<"forscatter", <<Target("required", "x", <<>>), Target("optional", "y", default)>>,
            L(<<L(<<I(1)>>)>>), <<Note(V("y"))>>>>>>) : default \in {I(3), V("e"), Ask}}

Family == [operators |-> OperatorPrograms, defaults |-> DefaultPrograms, statements |-> StatementPrograms, calls |-> CallPrograms,
           expressions |-> ExpressionPrograms]

MCPrograms == UNION {Family[f] : f \in Families}
MCVars == {"args", "x", "y", "i", "j", "w", "a", "b", "r", "e", "t"}
MCAnswers == {<<"value", Num(1)>>, <<"raise", Err("E_DIV")>>, <<"raise", Err("E_PERM")>>,
              <<"suspend", Num(2)>>, <<"suspend", Err("E_DIV")>>, <<"kill">>}
=============================================================================
