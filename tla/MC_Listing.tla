----------------------------- MODULE MC_Listing -----------------------------
(* Listing on small instances: two runs of one project and one of another. *)
EXTENDS Listing

CONSTANTS r1, r2, r3, p1, p2

MCProjectOf == (r1 :> p1) @@ (r2 :> p1) @@ (r3 :> p2)
MCVerdicts == <<"true_positive", "unmarked">>

Rule(id, score, level) == [id |-> id, score |-> score, level |-> level]
Result(rule, level, invocation) == [rule |-> rule, level |-> level, invocation |-> invocation]
Of(rules, invocations, results) == [rules |-> rules, invocations |-> invocations, results |-> results]

\* Scores on and beside the bounds; a score that is none, and one that is
\* zero; a rule described twice, and an invocation with two overrides.
Boundaries == Of(<<Rule(1, 90, "note"), Rule(2, 69, "error"), Rule(3, 0, "warning")>>, <<>>,
                 <<Result(1, "note", None), Result(2, None, None), Result(3, "error", None)>>)
Malformed == Of(<<Rule(1, Junk, "error"), Rule(2, NaN, "error"), Rule(3, 39, "error")>>, <<>>,
                <<Result(1, None, None), Result(2, None, None), Result(3, "other", 0)>>)
Levels == Of(<<Rule(1, None, "note"), Rule(1, 40, "error"), Rule(2, None, "none")>>,
             <<<<[id |-> 1, level |-> "error"], [id |-> 2, level |-> None]>>>>,
             <<Result(1, None, None), Result(2, None, 0), Result(1, None, 1)>>)
Short == Of(<<Rule(1, None, "error")>>, <<>>, <<Result(1, None, None)>>)
Empty == Of(<<>>, <<>>, <<>>)

Says(i, r) == [identity |-> i, rule |-> r]
MCReports == (r1 :> {Short}) @@ (r2 :> {Boundaries, Malformed, Levels}) @@ (r3 :> {Empty})

\* One finding per identity; two findings of an edited file on one identity,
\* the rule of one of them edited too.
MCMetas == (r1 :> {<<Says(1, 1), Says(2, 2)>>})
        @@ (r2 :> {<<Says(3, 1), Says(1, 2), Says(2, 3)>>, <<Says(1, 2), Says(1, 2), Says(3, 3)>>})
        @@ (r3 :> {<<Says(4, 1)>>})

MCRowIds == {<<1, 2, 3>>, <<3, 1, 2>>}

Query(sort, dir, verdicts, size) == [sort |-> sort, dir |-> dir, verdicts |-> verdicts, size |-> size]
MCQueries == {Query("severity", "asc", None, 2), Query("verdict", "desc", None, 1),
              Query("unknown", "desc", None, 0), Query("swb_id", "asc", {"true_positive"}, 1)}
=============================================================================
