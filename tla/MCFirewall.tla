---------------------------- MODULE MCFirewall ----------------------------
(* Small projects for TLC.                                                 *)
EXTENDS Firewall, TLC

CONSTANTS e1, e2, p, q

A == <<"app", "a">>
B == <<"app", "b">>
Main == <<"app", "main">>
C == <<"lib", "c">>
Util == <<"util">>

OrderDef == <<A, B, Main, C, Util>>

From(level, module, names) == [level |-> level, module |-> module, names |-> names]

Text(imports, symbols) ==
    [parses |-> TRUE, blank |-> FALSE, imports |-> imports, symbols |-> symbols]

\* from . import a / import app.a, util / from app.b import f / from lib import c
TextsDef ==
    [chain |-> Text({From(1, <<>>, {"a"})}, <<"main">>),
     both |-> Text({From(0, <<"app", "a">>, {}), From(1, <<"b">>, {"f"})}, <<"main">>),
     toB |-> Text({From(0, <<"app", "b", "f">>, {})}, <<"dynamic", "g">>),
     toC |-> Text({From(0, <<"lib">>, {"c"})}, <<"f">>),
     toUtil |-> Text({From(0, <<"util">>, {}), From(1, <<"main">>, {}), From(0, <<"os">>, {})},
                     <<"k", "h">>),
     leaf |-> Text({}, <<"x", "y">>),
     other |-> Text({}, <<"z">>),
     blank |-> [Text({}, <<>>) EXCEPT !.blank = TRUE],
     broken |-> [Text({}, <<>>) EXCEPT !.parses = FALSE]]

Lay(a, b, main, c, util) ==
    A :> a @@ B :> b @@ Main :> main @@ C :> c @@ Util :> util

\* A chain of five; a diamond whose long side is longer; texts that repeat.
Chain == Lay("toB", "toC", "chain", "toUtil", "leaf")
Diamond == Lay("toC", "toUtil", "both", "toUtil", "other")
Repeats == Lay("toC", "blank", "both", "toC", "broken")
Small == Lay("toC", None, "chain", "other", None)

LayoutsDef == {p :> Chain @@ q :> Small, p :> Diamond @@ q :> Small, p :> Repeats @@ q :> Small}

Unset == [max_depth |-> None, distractors |-> None, ambient |-> None,
          clamping |-> None, stale |-> None]

Asked(project, mode, tripped, rc, env) ==
    [project |-> project, target |-> Main, mode |-> mode, tripped |-> tripped,
     rc |-> rc, env |-> env]

Deep == [Unset EXCEPT !.max_depth = 3]
Wide == [Unset EXCEPT !.max_depth = Malformed, !.ambient = TRUE, !.clamping = FALSE,
                      !.distractors = 9]
Odd == [Unset EXCEPT !.max_depth = 1, !.distractors = 9]
Flat == [Unset EXCEPT !.max_depth = 0, !.stale = FALSE]

RequestsDef ==
    {Asked(p, "distance", FALSE, Deep, Unset),
     Asked(p, "distance", FALSE, Unset, Wide),
     Asked(p, "distance", TRUE, Flat, Unset),
     Asked(p, "passthrough", FALSE, Odd, Unset),
     Asked(q, "distance", TRUE, Unset, Unset)}

Saved(project, m, text) == [project |-> project, module |-> m, text |-> text]
SavesDef == {Saved(p, C, "other"), Saved(p, C, None), Saved(p, B, "broken"),
             Saved(p, B, "blank"), Saved(q, C, "leaf")}

WorkspaceOfDef == p :> "P" @@ q :> "Q"

=============================================================================
