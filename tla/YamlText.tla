------------------------------- MODULE YamlText ------------------------------
(***************************************************************************)
(* What suminuri writes of a YAML value and what it reads back: emit.rs    *)
(* and indent.rs, and parse.rs over libyaml, which is external and reads   *)
(* block structure off the columns.                                        *)
(*                                                                         *)
(* A text is a sequence of tokens with their line and column.  What a      *)
(* scalar looks like inside is not modelled: its style keeps it one token. *)
(***************************************************************************)
EXTENDS YamlTree, FiniteSets

Default == 4        \* the indent of a text that shows none

-----------------------------------------------------------------------------
\* Writing.  col = -1 is the indent no collection has set yet.

Blank(width) == [toks |-> <<>>, line |-> 1, at |-> 0, width |-> width]

Column(col) == IF col < 0 THEN 0 ELSE col

Put(o, kind, x) ==
    [o EXCEPT !.toks = Append(@, [kind |-> kind, x |-> x,
                                  line |-> o.line, col |-> o.at]),
              !.at = @ + 1]

Space(o, n) == [o EXCEPT !.at = @ + n]

\* Mutant: what follows goes over it.
NewLineOver(o) == [o EXCEPT !.at = 0]

NewLine(o) == [o EXCEPT !.line = @ + 1, !.at = 0]

\* Mutant: libyaml's rule, for items too.
IncreaseAlike(o, col, ctx) ==
    IF col < 0 THEN 0 ELSE o.width * ((col + o.width) \div o.width)

\* The Indenter: into a list item by its dash, else up to the next multiple.
Increase(o, col, ctx) ==
    CASE col < 0       -> 0
      [] ctx = "item"  -> col + 2
      [] OTHER         -> o.width * ((col + o.width) \div o.width)

\* What continues the line of "key:" or of "-" is set off by a space.
Inline(o, ctx) == IF ctx = "root" THEN o ELSE Space(o, 1)

EmitComment(o, col, i) == NewLine(Put(Space(o, Column(col)), "comment", i))

\* A plain scalar that stopped being safe is quoted as a new one would be.
StructurallyUnsafe(text) == text = "" \/ ~AnalysisOf(text).plain

Safe(s) == IF s.style = "plain" /\ s.enc = None /\ StructurallyUnsafe(s.text)
           THEN [s EXCEPT !.style = IF StyleForNewValue(s.text) = "single"
                                    THEN "single" ELSE "double"]
           ELSE s

\* A block's lines are one token below the key or dash, further in.
EmitBlock(o, s, col, ctx) ==
    NewLine(Put(Space(NewLine(Put(Inline(o, ctx), "scalar", s)), Increase(o, col, ctx)),
                "body", None))

EmitScalar(o, s, col, ctx) ==
    IF s.style = "literal" THEN EmitBlock(o, s, col, ctx)
    ELSE NewLine(Put(Inline(o, ctx), "scalar", Safe(s)))

\* A mapping without a pair: its comments, and the braces that stand for it.
EmitKeyless(o, v, col, ctx) ==
    LET c == FoldLeft(LAMBDA p, i : EmitComment(p, col, i), o, v.items)
    IN  NewLine(Put(Inline(c, ctx), "empty", Mapping(<<>>)))

RECURSIVE EmitValue(_, _, _, _)

\* On the line of a dash a mapping's first key follows; a comment leaves it.
EmitPair(o, i, col) ==
    CASE o.at > 0 /\ i.t = "comment" -> EmitComment(NewLine(o), col, i)
      [] o.at = 0 /\ i.t = "comment" -> EmitComment(o, col, i)
      [] i.t = "pair" -> EmitValue(
            Space(Put(Space(o, IF o.at > 0 THEN 1 ELSE Column(col)), "key", i.key), 1),
            i.value, col, "value")

EmitElem(o, i, col) ==
    IF i.t = "comment" THEN EmitComment(o, col, i)
    ELSE EmitValue(Put(Space(o, Column(col)), "dash", None), i.value, col, "item")

EmitMapping(o, v, col, ctx) ==
    LET in == Increase(o, col, ctx)
        o1 == IF ctx = "value" THEN NewLine(o) ELSE o
    IN  FoldLeft(LAMBDA p, i : EmitPair(p, i, in), o1, v.items)

EmitSequence(o, v, col, ctx) ==
    LET in == Increase(o, col, ctx)
        o1 == IF ctx = "value" THEN NewLine(o) ELSE o
    IN  FoldLeft(LAMBDA p, i : EmitElem(p, i, in), o1, v.items)

EmitValue(o, v, col, ctx) ==
    CASE v.t = "scalar" -> EmitScalar(o, v, col, ctx)
      [] v.t = "seq" /\ v.items = <<>> ->
            NewLine(Put(Inline(o, ctx), "empty", List(<<>>)))
      [] v.t = "seq" -> EmitSequence(o, v, col, ctx)
      [] v.t = "map" /\ (\A k \in DOMAIN v.items : v.items[k].t # "pair") ->
            EmitKeyless(o, v, col, ctx)
      [] OTHER -> EmitMapping(o, v, col, ctx)

Emit(v, width) == EmitValue(Blank(width), v, -1, "root").toks

OwnLine(toks, k) == k = 1 \/ toks[k - 1].line < toks[k].line

\* detect_indent: the first step of one line's start to the right of the last.
DetectIndent(toks) ==
    LET starts == SelectSeq([k \in 1..Len(toks) |-> k], LAMBDA k : OwnLine(toks, k))
        Step(j)  == toks[starts[j]].col - toks[starts[j - 1]].col
        deeper == {j \in 2..Len(starts) : Step(j) > 0}
    IN  IF deeper = {} THEN Default ELSE Step(Min(deeper))
-----------------------------------------------------------------------------
(***************************************************************************)
(* Reading.  Comments on lines of their own are set aside; any other is    *)
(* refused.  A reader's state is the next token, the next comment and what *)
(* it has read.  libyaml: a collection is the tokens of one column; deeper *)
(* ones belong to a value, shallower ones close it.                        *)
(***************************************************************************)
Trailing(toks) == \E k \in DOMAIN toks : toks[k].kind = "comment" /\ ~OwnLine(toks, k)

CommentsOf(toks) == SelectSeq(toks, LAMBDA x : x.kind = "comment")
NodesOf(toks)    == SelectSeq(toks, LAMBDA x : x.kind \notin {"comment", "body"})

\* The comments a reader takes next: those from c on, while Takes holds.
Drain(cs, c, Takes(_)) ==
    CHOOSE d \in c..Len(cs) + 1 :
        /\ d > Len(cs) \/ ~Takes(cs[d])
        /\ \A k \in c..d - 1 : Takes(cs[k])

DrainBefore(cs, c, line) == Drain(cs, c, LAMBDA x : x.line < line)

DrainFoot(cs, c, line, min) ==
    Drain(cs, c, LAMBDA x : x.line < line /\ x.col >= min)

Taken(cs, c, d) == [k \in 1..(d - c) |-> cs[c + k - 1].x]

LineAt(ns, i) == IF i <= Len(ns) THEN ns[i].line ELSE 1000000

RECURSIVE ReadNode(_, _, _, _), ReadMapping(_, _, _, _, _), ReadList(_, _, _, _, _)

\* The node that starts at token i.
ReadNode(ns, cs, i, c) ==
    CASE ns[i].kind = "key"  -> ReadMapping(ns, cs, [i |-> i, c |-> c], ns[i].col, <<>>)
      [] ns[i].kind = "dash" -> ReadList(ns, cs, [i |-> i, c |-> c], ns[i].col, <<>>)
      [] OTHER               -> [v |-> ns[i].x, i |-> i + 1, c |-> c]

\* The value of a key or a dash at token i: on its line, deeper, or missing.
HasNode(ns, i) ==
    /\ i < Len(ns)
    /\ \/ ns[i + 1].line = ns[i].line
       \/ ns[i + 1].col > ns[i].col
       \/ ns[i].kind = "key" /\ ns[i + 1].kind = "dash" /\ ns[i + 1].col = ns[i].col

ReadValue(ns, cs, i, c) ==
    IF ~HasNode(ns, i) THEN [v |-> Missing, i |-> i + 1, c |-> c]
    ELSE IF ns[i].kind = "key" /\ ns[i + 1].line = ns[i].line
            /\ ns[i + 1].kind \in {"key", "dash"}
    THEN [v |-> Error("not allowed here"), i |-> i, c |-> c]
    ELSE ReadNode(ns, cs, i + 1, c)

\* A mapping takes head comments before each key, foot comments as it closes.
ReadMapping(ns, cs, s, col, items) ==
    IF s.i > Len(ns) \/ ns[s.i].col < col THEN
        LET d == DrainFoot(cs, s.c, LineAt(ns, s.i), col)
        IN  [v |-> Mapping(items \o Taken(cs, s.c, d)), i |-> s.i, c |-> d]
    ELSE IF ns[s.i].col > col \/ ns[s.i].kind # "key" THEN
        [v |-> Error("expected a key"), i |-> s.i, c |-> s.c]
    ELSE LET d == DrainBefore(cs, s.c, ns[s.i].line)
             r == ReadValue(ns, cs, s.i, d)
         IN  IF IsError(r.v) THEN r
             ELSE ReadMapping(ns, cs, [i |-> r.i, c |-> r.c], col,
                    items \o Taken(cs, s.c, d) \o <<Pair(ns[s.i].x, r.v)>>)

\* A list takes those above each element, and none as it closes.
ReadList(ns, cs, s, col, items) ==
    IF s.i > Len(ns) \/ ns[s.i].col < col
       \/ (ns[s.i].col = col /\ ns[s.i].kind = "key") THEN
        [v |-> List(items), i |-> s.i, c |-> s.c]
    ELSE IF ns[s.i].col > col \/ ns[s.i].kind # "dash" THEN
        [v |-> Error("expected a dash"), i |-> s.i, c |-> s.c]
    ELSE LET at == IF HasNode(ns, s.i) THEN LineAt(ns, s.i + 1) ELSE ns[s.i].line
             d  == DrainBefore(cs, s.c, at)
             r  == ReadValue(ns, cs, s.i, d)
         IN  IF IsError(r.v) THEN r
             ELSE ReadList(ns, cs, [i |-> r.i, c |-> r.c], col,
                    items \o Taken(cs, s.c, d) \o <<Elem(r.v)>>)

\* What is left at the end goes to the end of the document.
WithTail(v, tail) ==
    IF tail = <<>> THEN v
    ELSE IF v.t = "scalar" THEN Error("trailing comment")
    ELSE [v EXCEPT !.items = @ \o tail]

\* The document, once its root is read.
Rooted(ns, cs, r) ==
    IF IsError(r.v) THEN r.v
    ELSE IF r.i <= Len(ns) THEN Error("expected the end")
    ELSE WithTail(r.v, Taken(cs, r.c, Len(cs) + 1))

Parse(toks) ==
    LET ns == NodesOf(toks)
        cs == CommentsOf(toks)
    IN  IF Trailing(toks) THEN Error("trailing comment")
        ELSE IF ns = <<>> THEN Mapping(Taken(cs, 1, Len(cs) + 1))
        ELSE Rooted(ns, cs, ReadNode(ns, cs, 1, 1))
=============================================================================
