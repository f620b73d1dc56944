--------------------------- MODULE MCWorkstation ---------------------------
(* A small machine for TLC.                                                *)
EXTENDS Workstation, TLC

CONSTANTS p1, p2

ProcsDef == {p1, p2}

\* Files and backups whose time is that of the write that made them, and no odd keys.
Document(kind, other, own, tools, time) ==
    [kind |-> kind, other |-> other, own |-> own, tools |-> tools, odd |-> {},
     time |-> time, born |-> time]

Odd(keys, doc) == [doc EXCEPT !.odd = keys]

Servers(v, time) == Document("json", v, None, FALSE, time)

Backup(second, doc) == [name |-> <<second, 0>>, doc |-> doc]

DefaultsDef == [mode |-> "distance", model |-> "auto", input_price |-> 3, output_price |-> 15]

AcceptsDef == [mode |-> {"distance", "passthrough"}, model |-> {"auto", "opus", "other"},
               input_price |-> {3, 15}, output_price |-> {15, 75}]

PricesDef == "opus" :> [input_price |-> 15, output_price |-> 75]

\* Agents configured by an older interpreter, the backups a killed command left, a repository.
Used ==
    [file |-> "code" :> Odd({"allowedTools"}, Document("json", "v2", "old", FALSE, 2))
              @@ "desktop" :> Odd({"mcpServers"}, Servers("v1", 1))
              @@ "gemini" :> Document("text", "r1", None, FALSE, 1)
              @@ "antigravity" :> Document("json", "v1", "py", FALSE, 1)
              @@ "antigravityIde" :> Document("json", "v1", "py", FALSE, 1)
              @@ ".mcp.json" :> Servers("v1", 1),
     backups |-> "code" :> {Backup(0, Servers("u0", 1)), Backup(1, Servers("u1", 1))},
     settings |-> [DefaultsDef EXCEPT !.mode = "passthrough"],
     present |-> {"codeium", ".git"}, now |-> 3]

\* Nothing yet but a file that is not JSON and one that is not UTF-8.
New ==
    [file |-> "desktop" :> Document("broken", "v1", None, FALSE, 1)
              @@ "antigravity" :> Document("binary", "v1", None, FALSE, 1)
              @@ "code" :> Document("blank", None, None, FALSE, 1),
     backups |-> <<>>, settings |-> None, present |-> {}, now |-> 2]

HomesDef == {Used, New}

\* The backups of five merges, and a file written after them.
Kept ==
    [file |-> "code" :> Servers("v1", 6),
     backups |-> "code" :> {Backup(i, Servers("u1", i)) : i \in 1..5},
     settings |-> None, present |-> {}, now |-> 12]

KeptDef == {Kept}

Command(kind, exe) == [kind |-> kind, exe |-> exe]
Set(field, value) == [kind |-> "set", exe |-> None, field |-> field, value |-> value]

ClaudeDef == {Command("claude", "py")}

CommandsDef == ClaudeDef \cup
    {Command("claude", "venv"), Command("install", "py"), Command("global", "py"),
     Command("repo", "py"), Set("mode", "distance"), Set("model", "opus"), Set("mode", "fast")}

Saved(path, doc, restored) == [path |-> path, doc |-> doc, restored |-> restored]

\* The restoration of an old copy; a save, a deletion, a slip.
RestoredDef == {Saved("code", Servers("v5", 0), TRUE)}

EditorsDef == RestoredDef \cup
    {Saved("code", Servers("v3", 0), FALSE), Saved("code", None, FALSE),
     Saved("code", Document("broken", "v4", None, FALSE, 0), FALSE)}

Block(tag, known, parses, gain) == [tag |-> tag, known |-> known, parses |-> parses, gain |-> gain]

Request(by, bypass, over, inspectable, blocks) ==
    [by |-> by, bypass |-> bypass, over |-> over, inspectable |-> inspectable, blocks |-> blocks]

Mixed == <<Block("full", TRUE, TRUE, 5), Block("interface", TRUE, TRUE, 3), Block("untagged", TRUE, TRUE, 7)>>
Plain == <<Block("untagged", TRUE, TRUE, 2), Block("untagged", FALSE, TRUE, 9), Block("untagged", TRUE, FALSE, 9)>>

OneRequestDef == {Request("cli", FALSE, FALSE, TRUE, Plain)}

RequestsDef == {Request("proxy", FALSE, FALSE, TRUE, Mixed), Request("cli", FALSE, FALSE, TRUE, Plain),
                Request("proxy", TRUE, FALSE, TRUE, Mixed), Request("proxy", FALSE, TRUE, TRUE, Plain)}

Symmetry == Permutations(ProcsDef)

=============================================================================
