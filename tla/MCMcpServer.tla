---------------------------- MODULE MCMcpServer ----------------------------
(* Small instances of McpServer for TLC.                                     *)
EXTENDS McpServer, TLC

CONSTANTS s1, s2, claude, cursor, builtin, v1, v2, system, callA, callB, callC, callD

\* Three contents: v3 keeps the rule of v1 on its line and adds one; the rule of
\* v2 is another, after a fenced block.
Directive(text, pattern, target) ==
    [kind |-> "directive", text |-> text, conditional |-> FALSE, ast |-> None, import |-> None,
     backtick |-> [pattern |-> pattern, name |-> target], command |-> None, path |-> None]

Blank == [kind |-> "blank"]
Fence == [kind |-> "fence"]

Path(name) == [pattern |-> "PATH_PREFIX", name |-> name]

EnvRule == Directive("never read .env", "PATH_PREFIX", ".env")
KeyRule == Directive("never read .key", "PATH_PREFIX", ".key")
EvalRule == Directive("do not eval", "AST_CALL", "eval")
SystemRule == Directive("do not modify", "PATH_PREFIX", "system")

ContentsDef ==
    v1 :> [refused |-> FALSE, lines |-> <<Blank, EnvRule>>]
    @@ v2 :> [refused |-> FALSE, lines |-> <<Fence, Blank, Fence, KeyRule>>]
    @@ "v3" :> [refused |-> FALSE, lines |-> <<Blank, EnvRule, EvalRule>>]
    @@ system :> [refused |-> FALSE, lines |-> <<SystemRule>>]

RuleFilesDef == {claude, cursor}
FilesOfDef == "w" :> <<claude, cursor>> @@ "bare" :> <<>>

TouchesDef ==
    Path(".env") :> {callA}
    @@ Path(".key") :> {callB}
    @@ [pattern |-> "AST_CALL", name |-> "eval"] :> {callA}
    @@ Path("system") :> {}

\* Texts: clean, with a command outside the allowlist (0.45), with a role marker
\* (0.35), and one that validate_raw refuses.
Said(kind) == [kind |-> kind, text |-> kind, allowed |-> FALSE]
Text(directives) == [invalid |-> FALSE, directives |-> directives]
Clean == Text(<<>>)
Commanding == Text(<<Said("command")>>)
Role == Text(<<Said("role_open")>>)
Binary == [invalid |-> TRUE, directives |-> <<>>]

Line(decisions, ignore) == [decisions |-> decisions, ignore |-> ignore, imports |-> {}]
Patch(ok, files) ==
    [metaOk |-> ok, reportOk |-> TRUE, diffOk |-> TRUE, commit |-> "c", digest |-> "d",
     passed |-> 1, failed |-> 0, repoId |-> None, repoName |-> "heuristico/ctxfw",
     files |-> files]
GoodPatch == Patch(TRUE, <<[python |-> TRUE, added |-> <<Line(1, FALSE)>>, removed |-> <<>>]>>)
BadPatch == Patch(TRUE, <<[python |-> TRUE, added |-> <<Line(2, TRUE)>>, removed |-> <<>>]>>)
OddPatch == [Patch(FALSE, <<>>) EXCEPT !.repoId = "REPO-x", !.repoName = "other"]
ClashingPatch == [GoodPatch EXCEPT !.repoId = "heuristico/ctxfw", !.repoName = "other"]

Call(tool, call) ==
    [kind |-> "call", tool |-> tool, framed |-> FALSE, root |-> "w", call |-> call,
     traversal |-> FALSE, patch |-> None, writes |-> None, texts |-> <<>>]

Notification == [Call("none", callA) EXCEPT !.kind = "notification"]
Prune == [Call("prune_file", callA) EXCEPT !.texts = <<Clean, Clean>>]
PruneBinary == [Call("prune_file", callB) EXCEPT !.texts = <<Binary, Binary>>, !.framed = TRUE]
Bundle == [Call("resolve_context_bundle", callC)
              EXCEPT !.texts = <<Clean, Commanding, Role>>, !.patch = GoodPatch]
Strip == [Call("prune_file", callC) EXCEPT !.texts = <<Clean, Commanding>>]
Missing == [Call("prune_file", callC) EXCEPT !.patch = GoodPatch]
Apply == [Call("apply_patch", callC) EXCEPT !.patch = GoodPatch, !.writes = <<claude, v2>>]
Verify == [Call("verify_patch", callB) EXCEPT !.patch = BadPatch, !.root = "bare"]
VerifyOdd == [Call("verify_patch", callA) EXCEPT !.patch = OddPatch, !.root = "bare"]
VerifyClash == [Call("verify_patch", callB) EXCEPT !.patch = ClashingPatch, !.root = "bare"]
Escaping == [Call("prune_file", callD) EXCEPT !.traversal = TRUE]
Sieve == [Call("evaluate_spec_axioms", callA) EXCEPT !.root = "bare"]

AllRequests ==
    [Notification |-> Notification, Prune |-> Prune, PruneBinary |-> PruneBinary,
     Bundle |-> Bundle, Strip |-> Strip, Missing |-> Missing, Apply |-> Apply,
     Verify |-> Verify, VerifyOdd |-> VerifyOdd, VerifyClash |-> VerifyClash,
     Escaping |-> Escaping, Sieve |-> Sieve]

\* A call that the rules are about.
RuledRequests == [Prune |-> Prune]

\* CLAUDE.md begins as v1, .cursorrules as v2; or there is only CLAUDE.md.
InitialRulesDef == {claude :> v1 @@ cursor :> v2}
OneFile == {claude :> v1 @@ cursor :> None}

=============================================================================
