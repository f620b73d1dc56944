------------------------------ MODULE Forecast ------------------------------
(***************************************************************************)
(* TokenCast's integer arithmetic: the token trajectory forecast           *)
(* (budget/forecaster.py) and the circuit breaker's decision over it       *)
(* (budget/breaker.py).  A history is the sequence of a session's turns,   *)
(* each with its prompt and completion tokens.                             *)
(***************************************************************************)
EXTENDS Integers, Sequences, Functions

\* ceil_div
CeilDiv(a, b) == -((-a) \div b)

\* ceil_isqrt: math.isqrt, plus one unless the root is exact
CeilIsqrt(v) == CHOOSE r \in 0 .. v : r * r >= v /\ (r > 0 => (r - 1) * (r - 1) < v)

Tokens(history) == [i \in DOMAIN history |-> history[i].prompt + history[i].completion]
Observed(history) == SumFunction(Tokens(history))

\* How far the forecast looks: never past the session's last turn.
\* Faulty variant: one turn short.
HorizonShort(history, max_turns, horizon_turns) ==
    LET left == max_turns - Len(history) - 1 IN
    IF left < 0 THEN 0 ELSE IF horizon_turns <= left THEN horizon_turns ELSE left
Horizon(history, max_turns, horizon_turns) ==
    LET left == max_turns - Len(history) IN
    IF horizon_turns <= left THEN horizon_turns ELSE left

MeanCompletion(history) ==
    CeilDiv(SumFunction([i \in DOMAIN history |-> history[i].completion]), Len(history))

\* Prompt growth per turn; a single turn's completion stands in for it.
Growth(history) ==
    LET n == Len(history)
        rise == history[n].prompt - history[1].prompt
    IN
    IF n = 1 THEN history[1].completion
    ELSE CeilDiv(IF rise > 0 THEN rise ELSE 0, n - 1)

\* Faulty variant: the triangular number stops one turn early.
AdditionalNoFirstGrowth(history, horizon) ==
    horizon * (history[Len(history)].prompt + MeanCompletion(history))
      + (Growth(history) * horizon * (horizon - 1)) \div 2
Additional(history, horizon) ==
    IF horizon <= 0 THEN 0
    ELSE horizon * (history[Len(history)].prompt + MeanCompletion(history))
           + (Growth(history) * horizon * (horizon + 1)) \div 2

\* Half the confidence interval: 1.96 sigma sqrt(horizon), in integers.
Width(history, horizon, additional) ==
    LET n == Len(history)
        t == Tokens(history)
        total == SumFunction(t)
        spread == n * SumFunction([i \in DOMAIN t |-> t[i] * t[i]]) - total * total
        sigma == CeilIsqrt(CeilDiv(IF spread > 0 THEN spread ELSE 0, n * n))
    IN
    IF n = 1 THEN CeilDiv(additional, 2)
    ELSE (196 * sigma * CeilIsqrt(horizon) + 99) \div 100

\* Faulty variant: the interval is not cut at the tokens already observed.
PredictNoClamp(history, max_turns, horizon_turns) ==
    LET horizon == Horizon(history, max_turns, horizon_turns)
        additional == Additional(history, horizon)
        width == Width(history, horizon, additional)
        predicted == Observed(history) + additional
    IN
    [predicted |-> predicted, low |-> predicted - width, high |-> predicted + width]

\* predict_token_trajectory, for a history that is not empty and not longer
\* than max_turns (it raises on any other)
Predict(history, max_turns, horizon_turns) ==
    LET horizon == Horizon(history, max_turns, horizon_turns)
        additional == Additional(history, horizon)
        width == Width(history, horizon, additional)
        total == Observed(history)
        predicted == total + additional
    IN
    [predicted |-> predicted,
     low |-> IF predicted - width >= total THEN predicted - width ELSE total,
     high |-> predicted + width]

DecisionKinds == {"CONTINUE", "FORCE_D3_PRUNING", "EMERGENCY_HALT"}

\* Faulty variant: the soft limit is tested before the hard one.
DecideSoftFirst(budget, history, horizon_turns) ==
    LET predicted == Predict(history, budget.max_turns, horizon_turns).predicted IN
    IF predicted > budget.soft THEN "FORCE_D3_PRUNING"
    ELSE IF Len(history) >= budget.max_turns THEN "EMERGENCY_HALT"
    ELSE "CONTINUE"

\* CircuitBreaker.decide
Decide(budget, history, horizon_turns) ==
    LET predicted == Predict(history, budget.max_turns, horizon_turns).predicted IN
    IF \/ Observed(history) > budget.hard
       \/ predicted > budget.hard
       \/ Len(history) >= budget.max_turns
    THEN "EMERGENCY_HALT"
    ELSE IF predicted > budget.soft THEN "FORCE_D3_PRUNING"
    ELSE "CONTINUE"

=============================================================================
