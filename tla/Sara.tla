-------------------------------- MODULE Sara --------------------------------
(***************************************************************************)
(* SARA: what a tool read is scanned for directives, the directives give a *)
(* risk, the risk a verdict, and the verdict is committed to the audit     *)
(* database together with the payload it quarantines.                      *)
(*                                                                         *)
(* A text is a record: invalid when validate_raw raises on it (too long,   *)
(* or with a NUL), and its directives in the order of the four tiers of    *)
(* the parser.  A directive is [kind, text, allowed].  Risks are           *)
(* hundredths.                                                             *)
(***************************************************************************)
EXTENDS Naturals, Sequences

CONSTANTS
    MaxDirectives   \* the most directives of one observation

VARIABLES
    saraLog,        \* execution id -> verdict
    vault           \* execution id -> the raw output quarantined

saraDb == <<saraLog, vault>>

-----------------------------------------------------------------------------
(* Risk and verdict.                                                       *)

Tier(d) == IF d.kind \in {"critical_escape", "hidden_escape", "ignore_clause",
                          "ignore_open", "role_open", "role_close", "destructive"} THEN 1
           ELSE IF ~d.allowed THEN 2
           ELSE IF d.kind = "command" THEN 3 ELSE 4

\* The parser's result: by tiers, in order, as many as fit.
Capped(ds) ==
    LET inTier(k) == SelectSeq(ds, LAMBDA d : Tier(d) = k)
        all == inTier(1) \o inTier(2) \o inTier(3) \o inTier(4)
    IN SubSeq(all, 1, IF Len(all) > MaxDirectives THEN MaxDirectives ELSE Len(all))

\* What each directive adds by itself.
Weight(d) ==
    CASE d.kind \in {"critical_escape", "destructive"} -> 80
      [] d.kind \in {"ignore_clause", "ignore_open"} -> 50
      [] d.kind = "command" -> IF d.allowed THEN 30 ELSE 45
      [] d.kind = "path" -> IF d.allowed THEN 0 ELSE 45
      [] OTHER -> 0

\* Plain hidden characters count once, and so do role markers, closing ones
\* and those inside an ignore clause included.
RiskScore(ds) ==
    LET some(kinds) == \E i \in DOMAIN ds : ds[i].kind \in kinds
        sum[i \in 0..Len(ds)] == IF i = 0 THEN 0 ELSE sum[i - 1] + Weight(ds[i])
        risk == sum[Len(ds)]
                + (IF some({"hidden_escape"}) THEN 35 ELSE 0)
                + (IF some({"ignore_open", "role_open", "role_close"}) THEN 35 ELSE 0)
    IN IF risk > 100 THEN 100 ELSE risk

QuarantineRisk == 80
StripRisk == 30

VerdictForRisk(r) ==
    IF r >= QuarantineRisk THEN "QUARANTINE_TOOL"
    ELSE IF r >= StripRisk THEN "STRIP_COMMANDS" ELSE "ALLOW"

Parse(text) == Capped(text.directives)

\* The server judges the output and every source it was made from: the
\* riskiest text wins, the first of them on a tie, and the distinct directives
\* of the others are added to it as long as there is room.
Merge(texts) ==
    LET parsed == [i \in DOMAIN texts |-> Parse(texts[i])]
        risk(i) == RiskScore(parsed[i])
        worst == CHOOSE i \in DOMAIN texts :
                    /\ \A j \in DOMAIN texts : risk(j) <= risk(i)
                    /\ \A j \in 1..(i - 1) : risk(j) < risk(i)
        flat[i \in 0..Len(texts)] == IF i = 0 THEN <<>> ELSE flat[i - 1] \o parsed[i]
        all == flat[Len(texts)]
        add[i \in 0..Len(all)] ==
            IF i = 0 THEN parsed[worst]
            ELSE IF Len(add[i - 1]) >= MaxDirectives
                    \/ \E k \in DOMAIN add[i - 1] : add[i - 1][k] = all[i]
            THEN add[i - 1] ELSE Append(add[i - 1], all[i])
        merged == add[Len(all)]
    IN [directives |-> merged,
        source |-> worst,
        risk |-> IF RiskScore(merged) > risk(worst) THEN RiskScore(merged)
                 ELSE risk(worst)]

\* Raised while judging, before anything is written.
JudgingFails(texts) == \E i \in DOMAIN texts : texts[i].invalid

-----------------------------------------------------------------------------
(* The audit sink.  One committed transaction; the log row's primary key is *)
(* the execution id, and a payload needs its QUARANTINE_TOOL row.           *)

CommitIsRefused(exe) == exe \in DOMAIN saraLog

AuditCommit(exe, verdict, raw) ==
    /\ ~CommitIsRefused(exe)
    /\ saraLog' = [e \in DOMAIN saraLog \cup {exe} |->
                      IF e = exe THEN verdict ELSE saraLog[e]]
    /\ vault' = IF verdict # "QUARANTINE_TOOL" THEN vault
                ELSE [e \in DOMAIN vault \cup {exe} |->
                         IF e = exe THEN raw ELSE vault[e]]

SaraInit ==
    /\ saraLog = [e \in {} |-> "ALLOW"]
    /\ vault = [e \in {} |-> "ALLOW"]

=============================================================================
