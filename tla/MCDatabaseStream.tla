--------------------------- MODULE MCDatabaseStream ---------------------------
(* Small instances of DatabaseStream. *)
EXTENDS DatabaseStream, TLC

\* Values: scalars, absence, and what is below a child or a field.
S(x) == <<>> :> x
Nothing == [p \in {} |-> Null]
F(f, x) == <<f>> :> x
C(k, v) == [p \in {<<k>> \o q : q \in DOMAIN v} |-> v[Tail(p)]]

Put(path, data) == [type |-> "put", path |-> path, data |-> data]
Patch(path, fields) == [type |-> "patch", path |-> path, fields |-> fields]

\* What the program writes to the strokes of a drawing: a patch of the node with
\* strokes or nulls (desktop), a patch, put or removal of one stroke and a put or
\* removal of the node (iPad, upload).
StrokeWrites ==
    {Patch(<<>>, "a" :> F("f", "y")), Patch(<<>>, "a" :> Nothing @@ "b" :> F("f", "x")),
     Patch(<<"a">>, "f" :> S("y")), Patch(<<"b">>, "f" :> S("y")),
     Put(<<"a">>, Nothing), Put(<<>>, C("b", F("f", "x"))), Put(<<>>, Nothing)}

\* What it writes to a drawing: the whole model, some attributes, or selections.
DrawingWrites ==
    {Put(<<>>, C("b", S("y"))), Patch(<<>>, "b" :> S("y")),
     Patch(<<"a">>, "f" :> Nothing), Patch(<<"a">>, "f" :> S("y") @@ "g" :> S("x"))}

\* Messages and conversations: new children, put (desktop) or patched (iPad).
MessageWrites ==
    {Put(<<"b">>, F("f", "y")), Put(<<"c">>, F("f", "z")), Patch(<<"d">>, "f" :> S("x"))}

\* What any client of the database may write.
AnyWrites ==
    {Put(<<"a">>, F("f", "y")), Put(<<"a">>, S("y")), Put(<<"a", "f">>, S("y")), Put(<<"a", "g">>, Nothing),
     Put(<<"a", "f">>, Nothing), Put(<<"b", "f">>, S("y")), Put(<<"b">>, S("x")), Put(<<"b">>, Nothing),
     Patch(<<"a">>, "f" :> Nothing @@ "g" :> Nothing), Patch(<<"a">>, "g" :> S("y")),
     Patch(<<>>, "b" :> F("f", "x")), Patch(<<"b">>, "f" :> S("x")), Patch(<<"a", "f">>, "g" :> S("x")),
     Put(<<"a", "f", "g">>, S("y")), Put(<<"a", "f", "g">>, Nothing), Patch(<<>>, "a" :> C("f", F("g", "x")))}

Scenario(v, h, ws, most, troubles, stops) ==
    [node |-> v, handler |-> h, writes |-> ws,
     left |-> [writes |-> most, troubles |-> troubles, stops |-> stops]]

OneChild == C("a", F("f", "x"))
Drawing == C("a", F("f", "x")) @@ C("b", S("x"))

MCScenarios ==
    {Scenario(OneChild, "ValueChanged", StrokeWrites, 3, 1, 0),
     Scenario(OneChild, "ValueChanged", StrokeWrites, 2, 2, 1),
     Scenario(Drawing, "ValueChanged", DrawingWrites, 4, 1, 0),
     Scenario(OneChild, "ChildAdded", MessageWrites, 3, 2, 1)}
    \cup {Scenario(C("a", F("f", "x") @@ F("g", "x")), h, AnyWrites, 3, 0, 0) : h \in Handlers}
=============================================================================
