---------------------------- MODULE MCForecast ----------------------------
(* Every small session the breaker may meet, one turn at a time: a session *)
(* takes turns until the breaker halts it.                                  *)
EXTENDS Forecast, SequencesExt

CONSTANTS MaxTokens,    \* bound: prompt and completion tokens of a turn
          Limits,       \* soft and hard limits
          MaxTurnsSet,  \* max_turns of a budget
          HorizonTurns  \* horizon_turns: 4 by default

ASSUME BoundsAssumption ==
    /\ MaxTokens \in Nat /\ Limits \subseteq Nat
    /\ MaxTurnsSet \subseteq Nat \ {0} /\ HorizonTurns \in Nat \ {0}

VARIABLES history, budget

Turns == [prompt : 0 .. MaxTokens, completion : 0 .. MaxTokens]

Init ==
    /\ history \in {<<t>> : t \in Turns}
    /\ budget \in {b \in [soft : Limits, hard : Limits, max_turns : MaxTurnsSet] : b.soft <= b.hard}

Decision(b) == Decide(b, history, HorizonTurns)

TakeTurn(t) ==
    /\ Decision(budget) # "EMERGENCY_HALT"
    /\ history' = Append(history, t)
    /\ UNCHANGED budget

Next == \E t \in Turns : TakeTurn(t)

Spec == Init /\ [][Next]_<<history, budget>>

\* The forecast of the next turn alone.
NextTurn == Last(history).prompt + MeanCompletion(history) + Growth(history)

\* The closed form of the forecast is the sum, turn by turn, of a prompt that
\* grows by the same step each turn and of the mean completion; it stops at
\* the session's last turn.
ClosedFormIsTurnByTurn ==
    LET left == budget.max_turns - Len(history)
        ahead == {k \in 1 .. HorizonTurns : k <= left}
    IN
    Predict(history, budget.max_turns, HorizonTurns).predicted =
        Observed(history)
          + SumFunction([k \in ahead |->
                Last(history).prompt + MeanCompletion(history) + Growth(history) * k])

\* "A confidence interval shall never exclude its own point forecast"
\* (budget/contracts.py), nor go below what was already spent.
IntervalHoldsForecast ==
    LET f == Predict(history, budget.max_turns, HorizonTurns) IN
    Observed(history) <= f.low /\ f.low <= f.predicted /\ f.predicted <= f.high

Severity(kind) ==
    CASE kind = "CONTINUE" -> 0 [] kind = "FORCE_D3_PRUNING" -> 1 [] kind = "EMERGENCY_HALT" -> 2

\* How far the breaker looks ahead under b.
Reach(b) == Horizon(history, b.max_turns, HorizonTurns)

\* Lower limits, soft and hard, never get a milder decision; nor does a lower
\* turn limit that is reached already, or under which the breaker looks as far
\* ahead.  A turn limit that cuts the horizon may: the breaker expects fewer
\* turns, and so fewer tokens.  After one turn of 2 + 2 tokens, with both limits
\* at 14 and a horizon of two turns or more, it halts under 4 turns and goes on
\* under 2.
TighterIsNeverMilder ==
    \A b \in [soft : Limits, hard : Limits, max_turns : MaxTurnsSet] :
        /\ b.soft <= budget.soft /\ b.soft <= b.hard /\ b.hard <= budget.hard
        /\ Len(history) <= b.max_turns /\ b.max_turns <= budget.max_turns
        /\ b.max_turns = Len(history) \/ Reach(b) = Reach(budget)
        => Severity(Decision(b)) >= Severity(Decision(budget))

\* The breaker acts one turn before it is too late: after CONTINUE a turn that
\* keeps to its forecast stays within the soft limit, after FORCE_D3_PRUNING
\* within the hard one, and no decision lets a session pass its last turn.
ActsInTime ==
    [][/\ Len(history') <= budget.max_turns
       /\ Observed(history') - Observed(history) <= NextTurn =>
             Observed(history') <=
                 IF Decision(budget) = "CONTINUE" THEN budget.soft ELSE budget.hard]_<<history, budget>>

=============================================================================
