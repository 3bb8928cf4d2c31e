---------------------------- MODULE MCMigrations ----------------------------
(* Three runners, whose releases add, change, drop and misname files.      *)
EXTENDS Readiness

CONSTANTS f1, f2, f3, bad

Ordered == {<<f1, f2>>, <<f1, f3>>, <<f2, f3>>,
            <<f1, bad>>, <<f2, bad>>, <<f3, bad>>}

\* f2 is 0002_stock.sql and f3 is 0002_stock_index.sql: a full stop comes
\* before an underscore in code units, and after it in a dictionary.
Dictionary == (Ordered \ {<<f2, f3>>}) \cup {<<f3, f2>>}

Release(names) == [n \in Names |-> IF n \in names THEN "a" ELSE Absent]

McReleases ==
    {Release({f1}), Release({f1, f3}), Release({f1, f2, f3}), Release({f1, bad}),
     [Release({f1, f2}) EXCEPT ![f1] = "b"]}
=============================================================================
