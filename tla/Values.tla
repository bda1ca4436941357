------------------------------- MODULE Values -------------------------------
(***************************************************************************)
(* The values of a program and what its operators make of them (execute.c, *)
(* utils.c, list.c, hash.c, numbers.c): <<"int", n>>, <<"obj", o>>,        *)
(* <<"err", e>>, <<"str", characters>>, <<"list", elements>> and           *)
(* <<"hash", function>>.  An operator that fails answers <<"raise", e>>.   *)
(* Floats are left out, and so is what an integer loses past its width;    *)
(* a character of a string is one byte here.                               *)
(***************************************************************************)
EXTENDS Integers, Sequences, SequencesExt

Num(n)   == <<"int", n>>
List(s)  == <<"list", s>>
Err(e)   == <<"err", e>>
Error(e) == <<"raise", e>>
Zero     == Num(0)
Unset    == <<"none", 0>>       \* TYPE_NONE: a variable with no value yet
EmptyHash == <<"hash", <<>>>>

Type(v) == v[1]
Truth(b) == Num(IF b THEN 1 ELSE 0)

(* is_true(): an object or an error is not.                                *)
IsTrue(v) == CASE v[1] = "int" -> v[2] # 0
               [] v[1] \in {"str", "list"} -> v[2] # <<>>
               [] v[1] = "hash" -> DOMAIN v[2] # {}
               [] OTHER -> FALSE

Same(v, w) == v[1] = w[1] /\ v[2] = w[2]
IsMember(v, list) == \E i \in DOMAIN list[2] : Same(v, list[2][i])
MemberAt(v, list) ==
  IF IsMember(v, list) THEN Min({i \in DOMAIN list[2] : Same(v, list[2][i])}) ELSE 0

(* enum error, and the letters that strings here are made of, in order.    *)
ErrorCodes ==
  <<"E_NONE", "E_TYPE", "E_DIV", "E_PERM", "E_PROPNF", "E_VERBNF", "E_VARNF", "E_INVIND",
    "E_RECMOVE", "E_MAXREC", "E_RANGE", "E_ARGS", "E_NACC", "E_INVARG", "E_QUOTA", "E_FLOAT",
    "E_OTHER">>
Letters == <<"a", "b", "c">>
Rank(order, x) == CHOOSE i \in DOMAIN order : order[i] = x

(* mystrcasecmp(), as less, equal or more than 0.                          *)
CompareStrings(s, t) ==
  LET differ == {i \in DOMAIN s \cap DOMAIN t : s[i] # t[i]}
  IN IF differ = {} THEN Len(s) - Len(t)
     ELSE Rank(Letters, s[Min(differ)]) - Rank(Letters, t[Min(differ)])

(* The objects in the order of their numbers, from #-1: the programs know  *)
(* them by name, and no object has the two last numbers.                   *)
ObjectNames == <<"#-1", "hall", "room", "thing", "nowhere", "beyond">>

(* The comparison of two values of a type; two hashes are found equal.     *)
Comparison(v, w) == CASE v[1] = "int"  -> v[2] - w[2]
                      [] v[1] = "obj"  -> Rank(ObjectNames, v[2]) - Rank(ObjectNames, w[2])
                      [] v[1] = "err"  -> Rank(ErrorCodes, v[2]) - Rank(ErrorCodes, w[2])
                      [] v[1] = "str"  -> CompareStrings(v[2], w[2])
                      [] v[1] = "hash" -> 0

(* OP_LT, OP_LE, OP_GT and OP_GE, but for the verbs of an object.          *)
Compared(op, v, w) ==
  IF v[1] # w[1] \/ v[1] = "list" THEN Error("E_TYPE")
  ELSE LET c == Comparison(v, w)
       IN Truth(CASE op = "LT" -> c < 0 [] op = "LE" -> c <= 0
                  [] op = "GT" -> c > 0 [] op = "GE" -> c >= 0)

(* The next one of a range.                                                *)
Successor(v) == CASE v[1] = "int" -> Num(v[2] + 1)
                  [] v[1] = "obj" -> <<"obj", ObjectNames[Rank(ObjectNames, v[2]) + 1]>>

In(v, list) == IF list[1] # "list" THEN Error("E_TYPE") ELSE Num(MemberAt(v, list))

Abs(n) == IF n < 0 THEN -n ELSE n

RECURSIVE Power(_, _)
Power(a, b) == IF b = 0 THEN 1 ELSE a * Power(a, b - 1)

(* do_power() for integers.                                                *)
DoPower(a, b) ==
  IF b >= 0 THEN Num(Power(a, b))
  ELSE CASE a = 0  -> Error("E_DIV")
         [] a = 1  -> Num(1)
         [] a = -1 -> Num(IF b % 2 = 0 THEN 1 ELSE -1)
         [] OTHER  -> Num(0)

(* The quotient of integers in C, cut towards zero.                        *)
Quotient(a, b) == LET q == Abs(a) \div Abs(b) IN IF (a < 0) = (b < 0) THEN q ELSE -q

Arith(op, v, w) ==
  CASE v[1] = "int" /\ w[1] = "int" ->
         (CASE op = "ADD"   -> Num(v[2] + w[2])
            [] op = "MINUS" -> Num(v[2] - w[2])
            [] op = "MULT"  -> Num(v[2] * w[2])
            [] op \in {"DIV", "MOD"} /\ w[2] = 0 -> Error("E_DIV")
            [] op = "DIV"   -> Num(Quotient(v[2], w[2]))
            [] op = "MOD"   -> Num(v[2] - w[2] * Quotient(v[2], w[2]))
            [] op = "EXP"   -> DoPower(v[2], w[2]))
    [] op = "ADD" /\ v[1] = "str" /\ w[1] = "str" -> <<"str", v[2] \o w[2]>>
    [] OTHER -> Error("E_TYPE")

Negate(v) == IF v[1] = "int" THEN Num(-v[2]) ELSE Error("E_TYPE")

(* Lists being built: listappend() and listconcat().                       *)
Appended(list, v) ==
  IF list[1] # "list" THEN Error("E_TYPE") ELSE List(Append(list[2], v))
Concatenated(list, tail) ==
  IF list[1] # "list" \/ tail[1] # "list" THEN Error("E_TYPE")
  ELSE List(list[2] \o tail[2])

(* A hash keeps one value for each key.                                    *)
HashInsert(hash, key, v) ==
  <<"hash", [k \in DOMAIN hash[2] \cup {key} |-> IF k = key THEN v ELSE hash[2][k]]>>
HashInserted(hash, key, v) ==
  IF hash[1] # "hash" THEN Error("E_TYPE") ELSE HashInsert(hash, key, v)

(* OP_REF and OP_PUSH_REF, which does not look into a string.              *)
Reference(v, i) ==
  CASE v[1] = "hash" -> IF i \in DOMAIN v[2] THEN v[2][i] ELSE Error("E_PROPNF")
    [] v[1] \in {"list", "str"} /\ i[1] = "int" ->
         (CASE i[2] \notin DOMAIN v[2] -> Error("E_RANGE")
            [] v[1] = "list" -> v[2][i[2]]
            [] v[1] = "str"  -> <<"str", <<v[2][i[2]]>>>>)
    [] OTHER -> Error("E_TYPE")

PushedReference(v, i) ==
  IF v[1] = "str" THEN Error("E_TYPE") ELSE Reference(v, i)

(* OP_INDEXSET.  The index of a hash is looked at as a number, too: one    *)
(* below 1 is refused.  Its key is an integer here.                        *)
IndexSet(v, i, new) ==
  CASE \/ v[1] \notin {"list", "str", "hash"}
       \/ v[1] \in {"list", "str"} /\ i[1] # "int"
       \/ v[1] = "str" /\ new[1] # "str" -> Error("E_TYPE")
    [] OTHER ->
       CASE i[2] < 1 \/ (v[1] # "hash" /\ i[2] > Len(v[2])) -> Error("E_RANGE")
         [] v[1] = "str" /\ Len(new[2]) # 1 -> Error("E_INVARG")
         [] v[1] = "hash" -> HashInsert(v, i, new)
         [] v[1] = "list" -> List([v[2] EXCEPT ![i[2]] = new])
         [] v[1] = "str"  -> <<"str", [v[2] EXCEPT ![i[2]] = new[2][1]]>>

(* OP_RANGE_REF: an inverted range is empty wherever it is.                *)
RangeRef(v, from, to) ==
  CASE v[1] \notin {"list", "str"} \/ from[1] # "int" \/ to[1] # "int" -> Error("E_TYPE")
    [] from[2] > to[2] -> <<v[1], <<>>>>
    [] from[2] < 1 \/ to[2] > Len(v[2]) -> Error("E_RANGE")
    [] OTHER -> <<v[1], SubSeq(v[2], from[2], to[2])>>

(* EOP_RANGESET: rangeset_check(), then listrangeset() or strrangeset().   *)
RangeSet(v, from, to, new) ==
  CASE \/ from[1] # "int" \/ to[1] # "int" \/ v[1] \notin {"list", "str"}
       \/ v[1] # new[1] -> Error("E_TYPE")
    [] from[2] > Len(v[2]) + 1 \/ to[2] < 0 -> Error("E_RANGE")
    [] OTHER -> <<v[1], SubSeq(v[2], 1, from[2] - 1) \o new[2]
                        \o SubSeq(v[2], to[2] + 1, Len(v[2]))>>

LengthOf(v) == IF v[1] \in {"str", "list"} THEN Num(Len(v[2])) ELSE Error("E_TYPE")

(* What a scattering gives its targets, for a list that fits: the required *)
(* and the optional ones one element each from the left as far as the list *)
(* goes, the rest what is over.  where is the first optional target left   *)
(* without, that has a default to compute, 0 if none.                      *)
Scatter(kinds, labels, list) ==
  LET n      == Len(kinds)
      len    == Len(list)
      nreq   == Len(SelectSeq(kinds, LAMBDA k : k = "required"))
      nrest  == IF len >= n THEN len - n + 1 ELSE 0
      One(acc, i) ==
        CASE kinds[i] = "rest" ->
               [acc EXCEPT !.given = Append(@, List(SubSeq(list, i, i + nrest - 1))),
                           !.offset = @ + nrest - 1]
          [] kinds[i] = "optional" /\ acc.avail <= 0 ->
               [acc EXCEPT !.given = Append(@, Unset), !.offset = @ - 1,
                           !.where = IF @ = 0 /\ labels[i] # 1 THEN labels[i] ELSE @]
          [] OTHER ->
               [acc EXCEPT !.given = Append(@, list[i + acc.offset]),
                           !.avail = IF kinds[i] = "optional" THEN @ - 1 ELSE @]
  IN FoldLeft(One, [given |-> <<>>, offset |-> 0, where |-> 0, avail |-> len - nreq],
              [i \in 1 .. n |-> i])

ScatterError(kinds, v) ==
  IF v[1] # "list" THEN "E_TYPE"
  ELSE IF \/ Len(v[2]) < Len(SelectSeq(kinds, LAMBDA k : k = "required"))
          \/ (Len(v[2]) > Len(kinds) /\ \A i \in DOMAIN kinds : kinds[i] # "rest")
       THEN "E_ARGS" ELSE "E_NONE"
============================================================================
