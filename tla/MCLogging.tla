----------------------------- MODULE MCLogging -----------------------------
(* Logging on small instances. *)
EXTENDS Logging

\* Attributes whose keys collide with the handler's own, by each of its names for
\* them, alone, with others, and in a group.
SmallLists ==
    {<<>>, <<Plain(<<"user">>, "a"), Plain(<<"msg">>, "b")>>, <<Plain(keyTrace, "c")>>,
     <<Plain(<<"time">>, "d")>>, <<GroupOf(<<"request">>, <<Plain(<<"level">>, "e")>>)>>}

\* Both sides of two boundaries.
SmallLevels == {-1, 7, 8}
=============================================================================
