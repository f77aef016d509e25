----------------------------- MODULE LexiconsMC -----------------------------
(* Small directories of lexicon files for TLC, every shape of inheritance   *)
(* among them.                                                              *)
EXTENDS Lexicons, TLC

MCIds == {"a", "b", "c", "d", "x"}
MCFiles == 1..5
MCIdOf == <<"a", "b", "c", "d", "c">>      \* 5 sorts behind 3, with its id
MCHooks == [h \in {"derive", "gone", "broken"} |->
    CASE h = "derive" -> "imported" [] h = "gone" -> "missing" [] OTHER -> "raises"]
MCRoots == {"a"}

With(key, value) == key :> value
Extends(l) == With(<<"extends">>, l)
P == With(<<"statuses">>, {"p"})

\* Every "extends" among four lexicons, with a base nobody has.
Shapes ==
    {[f \in 1..4 |-> P @@ Extends(s[f])] : s \in [1..4 -> {"", "a", "b", "c", "d", "x"}]}

\* What a lexicon may say, in lines a-b-c and in forks a-b, a-c.
Says ==
    { P, Nothing, With(<<"statuses">>, {"p", "q"}),
      With(<<"statuses">>, {"p", "q"}) @@ With(<<"dir_map", "t">>, "q"),
      P @@ With(<<"transitions", "p">>, {"q"}), With(<<"transitions", "q">>, {}),
      With(<<"dir_map", "t">>, "q"), With(<<"actionable_statuses">>, {"q"}),
      P @@ With(<<"metadata_fields", "m", "type">>, "date"),
      With(<<"metadata_fields", "m", "set_on">>, "q"),
      P @@ With(<<"derive_hook">>, "gone"), With(<<"derive_hook">>, ""),
      With(<<"derive_hook">>, "derive"), With(<<"derive_hook">>, "broken") }
Contents ==
    {<<d, e @@ Extends("a"), f @@ Extends(b)>> : d \in Says, e \in Says, f \in Says, b \in {"a", "b"}}

\* Subsidiary lexicons, inherited or not, one of them unknown.
Subs == {Nothing} \cup {With(<<"sub_dirs", "n">>, l) : l \in {"a", "b", "c", "x"}}
Nestings ==
    {<<P @@ d, P @@ e @@ Extends(b), P @@ f @@ Extends(c)>> :
        d \in Subs, e \in Subs, f \in Subs, b \in {"", "a"}, c \in {"", "a", "b"}}

\* Subsidiary lexicons with an error of their own.
Faulty ==
    {<<P @@ With(<<"sub_dirs", "n">>, l) @@ With(<<"dir_map", "t">>, s), P @@ e>> :
        l \in {"b", "x"}, s \in {"p", "q"}, e \in Subs \cup {With(<<"dir_map", "t">>, "q")}}

\* Files that cannot be read, are missing, or are hidden behind another.
Damaged ==
    {[f \in S |-> IF f \in V THEN Unreadable ELSE P @@ IF f = 2 THEN Extends("c") ELSE Nothing] :
        S \in SUBSET {1, 2, 3, 5}, V \in SUBSET {2, 3, 5}}

MCDirectories == {NoDirectory} \cup Shapes \cup Contents \cup Nestings \cup Faulty \cup Damaged
=============================================================================
