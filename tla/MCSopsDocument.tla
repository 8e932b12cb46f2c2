--------------------------- MODULE MCSopsDocument ---------------------------
(***************************************************************************)
(* Small files, each with one thing that makes a round trip hard: a list   *)
(* with a comment in it, typed scalars and a null, a list laid out as the  *)
(* emitter would not, comments a policy goes by.                           *)
(***************************************************************************)
EXTENDS SopsDocument

CONSTANTS me, them

Plain(w) == Scalar(w, "plain")
Quoted(w) == Scalar(w, "double")

Listed == Mapping(<<Comment("note"), Pair("a", Plain("x")),
    Pair("l", List(<<Elem(Plain("x")), Comment("second"), Elem(Plain("y")),
                     Elem(Plain("w"))>>)),
    Pair("p", List(<<Elem(Plain("ab")), Elem(Plain("c"))>>)),
    Pair("b_unencrypted", Plain("clear"))>>)

Typed == Mapping(<<Pair("a", Quoted("")), Pair("m", Mapping(<<Comment("typed"),
    Pair("k", Plain("True")), Pair("n", Plain("null")), Pair("f", Plain("1.50")),
    Pair("q", Quoted("7")), Pair("i", Plain("007"))>>)), Pair("y", Quoted("yes"))>>)

Guided == Mapping(<<Comment("public"), Pair("a", Plain("x")),
    Pair("m", Mapping(<<Comment("secret"), Comment("secret"), Pair("k", Plain("y")),
                        Pair("n", Plain("z")), Comment("foot")>>)),
    Comment("end")>>)

\* l:, its dashes at its own column, two keys under each.
Tok(kind, x, line, col) == [kind |-> kind, x |-> x, line |-> line, col |-> col]
Loose == <<Tok("key", "l", 1, 0),
           Tok("dash", None, 2, 0), Tok("key", "a", 2, 2), Tok("scalar", Plain("x"), 2, 5),
           Tok("comment", Comment("inner"), 3, 2),
           Tok("key", "b", 4, 2), Tok("scalar", Plain("x"), 4, 5),
           Tok("dash", None, 5, 0), Tok("key", "a", 5, 2), Tok("scalar", Plain("y"), 5, 5)>>

Below(t, more) == t \o [k \in DOMAIN more |-> [more[k] EXCEPT !.line = @ + t[Len(t)].line]]

MCDrafts == {Emit(Listed, 4), Below(Emit(Typed, 2), Loose), Emit(Guided, 4)}

\* l: a list in a list.
MCNested == {<<Tok("key", "l", 1, 0), Tok("dash", None, 2, 2),
               Tok("dash", None, 2, 4), Tok("scalar", Plain("x"), 2, 6),
               Tok("dash", None, 3, 4), Tok("scalar", Plain("y"), 3, 6)>>}

NoPolicy == [f \in Stages |-> None] @@ [mac_only_encrypted |-> FALSE]

MCPolicies ==
    {[cli |-> NoPolicy, rule |-> NoPolicy],
     [cli  |-> [NoPolicy EXCEPT !.encrypted_regex = "^(a|m)$"],
      rule |-> [NoPolicy EXCEPT !.encrypted_regex = "secret", !.mac_only_encrypted = TRUE]],
     [cli |-> NoPolicy, rule |-> [NoPolicy EXCEPT !.encrypted_comment_regex = "secret"]],
     [cli |-> NoPolicy, rule |-> [NoPolicy EXCEPT !.unencrypted_comment_regex = "public"]]}

MCAgeLists == {<<me>>, <<me, them>>}

MCSets == {<<<<Key("a")>>, "z">>, <<<<Key("l"), Index(1)>>, "7">>,
           <<<<Key("l"), Index(3)>>, "two lines">>, <<<<Key("m"), Key("k")>>, "True">>,
           <<<<Key("new"), Key("k")>>, "p: q">>}

MCUnsets == {<<Key("a")>>, <<Key("l"), Index(0)>>, <<Key("m"), Key("n")>>}

MCLetters == [w \in {"ab", "bc"} |-> IF w = "ab" THEN <<"a", "b">> ELSE <<"b", "c">>]

\* An editor turns the first two items around and adds a line at each end,
\* or has every x replaced, and ab, c by a, bc.
MCRewrites(t) ==
    LET v == Parse(t)
        to == [w \in {"x", "ab", "c"} |->
                 IF w = "x" THEN "w" ELSE IF w = "ab" THEN "a" ELSE "bc"]
    IN
    {[k \in DOMAIN t |-> IF t[k].kind = "scalar" /\ t[k].x.text \in DOMAIN to
                         THEN [t[k] EXCEPT !.x = Plain(to[@.text])] ELSE t[k]],
     Emit(Mapping(<<Comment("top"), v.items[2], v.items[1]>>
                  \o SubSeq(v.items, 3, Len(v.items)) \o <<Pair("z", Plain("x"))>>), 2)}

MCColons == [k \in {"a", "l", "b_unencrypted", "m", "k", "n", "f", "q", "i", "y",
                    "b", "new", "z", "p"} |-> <<k>>]
MCMatches == [p \in {"_unencrypted", "^(a|m)$", "secret", "public"} |->
                CASE p = "_unencrypted" -> {"b_unencrypted"}
                  [] p = "^(a|m)$"      -> {"a", "m"}
                  [] OTHER              -> {p}]
MCInts   == [w \in {"7", "007"} |-> "7"]
MCFloats == [w \in {"1.50", "1.5"} |-> "1.5"]
MCAnalyses ==
    [w \in {"two lines", "p: q"} |->
        [newline |-> w = "two lines", plain |-> FALSE, single |-> w = "p: q", block |-> TRUE]]
MCShown  == [w \in {"1.5"} |-> "1.5"]
=============================================================================
