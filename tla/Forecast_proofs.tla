-------------------------- MODULE Forecast_proofs --------------------------
(***************************************************************************)
(* Theorems about the breaker's arithmetic, for turns of every size, every *)
(* budget, every horizon and a session of any length.                      *)
(***************************************************************************)
EXTENDS MCForecast, Induction

-----------------------------------------------------------------------------
(* Integer arithmetic *)

\* ceil_div of natural numbers is a natural number.
LEMMA CeilDivType ==
  ASSUME NEW a \in Nat, NEW b \in Nat \ {0}
  PROVE  CeilDiv(a, b) \in Nat
<1>1. PICK q \in Int : q = (-a) \div b
  OBVIOUS
<1>2. b * q <= -a
  BY <1>1
<1>3. q <= 0
  <2>1. ASSUME q >= 1 PROVE FALSE
    <3>1. b * q >= b
      BY <2>1
    <3> QED
      BY <1>2, <3>1
  <2> QED
    BY <2>1
<1> QED
  BY <1>1, <1>3 DEF CeilDiv

LEMMA HalfOfTwice ==
  ASSUME NEW x \in Int
  PROVE  (2 * x) \div 2 = x
  OBVIOUS

\* ceil_isqrt has a root to choose: the least number whose square is enough.
LEMMA CeilIsqrtType ==
  ASSUME NEW v \in Nat
  PROVE  CeilIsqrt(v) \in Nat
<1> DEFINE Enough == {r \in Nat : r * r >= v}
<1>1. v * v >= v
  <2>1. CASE v = 0
    BY <2>1
  <2>2. CASE v >= 1
    BY <2>2
  <2> QED
    BY <2>1, <2>2
<1>2. v \in Enough /\ Enough \in SUBSET Nat
  BY <1>1
<1>3. PICK r \in Enough : \A y \in Enough : r <= y
  <2> HIDE DEF Enough
  <2> QED
    BY <1>2, LeastNatural
<1>4. r \in 0 .. v /\ r * r >= v
  BY <1>2, <1>3
<1>5. r > 0 => (r - 1) * (r - 1) < v
  <2> SUFFICES ASSUME r > 0, ~((r - 1) * (r - 1) < v) PROVE FALSE
    OBVIOUS
  <2>1. PICK y \in Nat : y = r - 1
    BY <1>4
  <2>2. y * y \in Nat /\ ~(y * y < v)
    BY <2>1
  <2>3. y \in Enough
    BY <2>2
  <2> QED
    BY <1>3, <1>4, <2>1, <2>3
<1>6. \E x \in 0 .. v : x * x >= v /\ (x > 0 => (x - 1) * (x - 1) < v)
  BY <1>4, <1>5
<1>7. CeilIsqrt(v) \in 0 .. v
  BY <1>6 DEF CeilIsqrt
<1> QED
  BY <1>7

\* The terms of a forecast, one for each turn ahead, add up to its closed form.
LEMMA ClosedForm ==
  ASSUME NEW p \in Nat, NEW g \in Nat, NEW h \in Nat
  PROVE  SumFunction([k \in 1 .. h |-> p + g * k]) =
            IF h <= 0 THEN 0 ELSE h * p + (g * h * (h + 1)) \div 2
<1> DEFINE term(n) == [k \in 1 .. n |-> p + g * k]
           Closes(n) == /\ SumFunction(term(n)) \in Int
                        /\ 2 * SumFunction(term(n)) = 2 * (n * p) + g * n * (n + 1)
           T == {n \in Nat : Closes(n)}
<1>1. 0 \in T
  <2>1. DOMAIN term(0) = {}
    OBVIOUS
  <2>2. SumFunction(term(0)) = 0
    BY <2>1, EmptySum
  <2> QED
    BY <2>2
<1>2. ASSUME NEW n \in T PROVE n + 1 \in T
  <2>1. PICK m \in Nat : m = n + 1 /\ 1 <= m
    OBVIOUS
  <2>2. PICK f : f = term(m)
    OBVIOUS
  <2>3. Terms(f, 1 .. m)
    <3>1. IsFiniteSet(1 .. m)
      BY FS_Interval
    <3> QED
      BY <2>2, <3>1 DEF Terms
  <2>4. SumFunction(f) = SumFunction([k \in 1 .. (m - 1) |-> f[k]]) + f[m]
    <3>1. 1 \in Int /\ m \in Int
      OBVIOUS
    <3> QED
      BY <2>1, <2>3, <3>1, SumToTheLast
  <2>5. [k \in 1 .. (m - 1) |-> f[k]] = term(n) /\ f[m] = p + g * m
    BY <2>1, <2>2
  <2>6. PICK x \in Int : x = SumFunction(term(n)) /\ 2 * x = 2 * (n * p) + g * n * (n + 1)
    OBVIOUS
  <2>7. SumFunction(term(m)) = x + (p + g * m)
    <3> HIDE DEF term
    <3> QED
      BY <2>2, <2>4, <2>5, <2>6
  <2>8. x + (p + g * m) \in Int
    OBVIOUS
  <2>9. 2 * (x + (p + g * m)) = 2 * (m * p) + g * m * (m + 1)
    <3>1. m * p = n * p + p
      BY <2>1
    <3>2. g * m * (m + 1) = g * n * (n + 1) + 2 * (g * m)
      BY <2>1
    <3>3. PICK a \in Int, b \in Int, c \in Int : a = n * p /\ b = g * n * (n + 1) /\ c = g * m
      OBVIOUS
    <3>4. 2 * x = 2 * a + b
      BY <2>6, <3>3
    <3>5. m * p = a + p /\ g * m * (m + 1) = b + 2 * c
      BY <3>1, <3>2, <3>3
    <3>6. 2 * (x + (p + c)) = 2 * (a + p) + (b + 2 * c)
      BY <3>4
    <3> QED
      BY <3>3, <3>5, <3>6
  <2>10. Closes(m)
    <3> HIDE DEF term
    <3> QED
      BY <2>7, <2>8, <2>9
  <2> HIDE DEF Closes
  <2> QED
    BY <2>1, <2>10
<1>3. T = Nat
  <2>1. T \in SUBSET Nat
    OBVIOUS
  <2> HIDE DEF T
  <2> QED
    BY <1>1, <1>2, <2>1, NaturalsFromZero
<1>4. PICK x \in Int : x = SumFunction(term(h)) /\ 2 * x = 2 * (h * p) + g * h * (h + 1)
  <2>1. Closes(h)
    <3> HIDE DEF Closes
    <3> QED
      BY <1>3
  <2> QED
    BY <2>1
<1>5. CASE h = 0
  BY <1>4, <1>5
<1>6. CASE h # 0
  <2>1. PICK y \in Int : y = h * p
    OBVIOUS
  <2>2. PICK z \in Int : z = g * h * (h + 1)
    OBVIOUS
  <2>3. z = 2 * (x - y)
    <3>1. 2 * x = 2 * y + z
      BY <1>4, <2>1, <2>2
    <3> QED
      BY <3>1
  <2>4. z \div 2 = x - y
    BY <2>3, HalfOfTwice
  <2>5. x = y + z \div 2
    BY <2>4
  <2> QED
    BY <1>4, <1>6, <2>1, <2>2, <2>5
<1> QED
  BY <1>5, <1>6

-----------------------------------------------------------------------------
(* The numbers of a session *)

\* A session the breaker has not sent past its last turn.
SessionInv ==
    /\ history \in Seq(Turns) /\ Len(history) \in 1 .. budget.max_turns
    /\ budget \in [soft : Limits, hard : Limits, max_turns : MaxTurnsSet]
    /\ budget.soft <= budget.hard

\* The terms of the sums over a history are natural numbers.
LEMMA SumOverHistory ==
  ASSUME NEW n \in Nat, NEW f \in [1 .. n -> Nat]
  PROVE  SumFunction(f) \in Nat
<1>1. IsFiniteSet(1 .. n)
  BY FS_Interval
<1> QED
  BY <1>1, SumOfNaturals

LEMMA TurnNumbers ==
  ASSUME NEW h \in Seq(Turns)
  PROVE  /\ Len(h) \in Nat /\ DOMAIN h = 1 .. Len(h)
         /\ \A i \in 1 .. Len(h) : h[i].prompt \in Nat /\ h[i].completion \in Nat
<1>1. \A t \in Turns : t.prompt \in Nat /\ t.completion \in Nat
  BY BoundsAssumption DEF Turns
<1>2. \A i \in 1 .. Len(h) : h[i] \in Turns
  OBVIOUS
<1>3. Len(h) \in Nat /\ DOMAIN h = 1 .. Len(h)
  OBVIOUS
<1> QED
  BY <1>1, <1>2, <1>3

LEMMA ObservedType ==
  ASSUME NEW h \in Seq(Turns)
  PROVE  Observed(h) \in Nat /\ Tokens(h) \in [1 .. Len(h) -> Nat]
<1>1. PICK n \in Nat : n = Len(h)
  BY TurnNumbers
<1>2. Tokens(h) \in [1 .. n -> Nat]
  BY <1>1, TurnNumbers DEF Tokens
<1> QED
  BY <1>1, <1>2, SumOverHistory DEF Observed

LEMMA BudgetNumbers ==
  ASSUME SessionInv
  PROVE  /\ budget.max_turns \in Nat \ {0} /\ budget.soft \in Nat /\ budget.hard \in Nat
         /\ Len(history) \in Nat \ {0} /\ Len(history) <= budget.max_turns
<1>1. budget.max_turns \in MaxTurnsSet /\ budget.soft \in Limits /\ budget.hard \in Limits
  BY DEF SessionInv
<1>2. budget.max_turns \in Nat \ {0} /\ budget.soft \in Nat /\ budget.hard \in Nat
  BY <1>1, BoundsAssumption
<1>3. Len(history) \in 1 .. budget.max_turns
  BY DEF SessionInv
<1> QED
  BY <1>2, <1>3

LEMMA HistoryNumbers ==
  ASSUME SessionInv
  PROVE  /\ Observed(history) \in Nat /\ MeanCompletion(history) \in Nat
         /\ Growth(history) \in Nat /\ Last(history).prompt \in Nat
         /\ Last(history) = history[Len(history)]
         /\ Tokens(history) \in [1 .. Len(history) -> Nat]
<1>1. PICK n \in Nat : n = Len(history) /\ n >= 1
  BY BudgetNumbers
<1>2. /\ DOMAIN history = 1 .. n
      /\ \A i \in 1 .. n : history[i].prompt \in Nat /\ history[i].completion \in Nat
  BY <1>1, TurnNumbers DEF SessionInv
<1>3. Tokens(history) \in [1 .. n -> Nat]
  BY <1>1, ObservedType DEF SessionInv
<1>4. Observed(history) \in Nat
  BY ObservedType DEF SessionInv
<1>5. MeanCompletion(history) \in Nat
  <2>1. PICK f \in [1 .. n -> Nat] : f = [i \in DOMAIN history |-> history[i].completion]
    BY <1>2
  <2>2. SumFunction(f) \in Nat
    BY SumOverHistory
  <2>3. CeilDiv(SumFunction(f), n) \in Nat
    BY <1>1, <2>2, CeilDivType
  <2> QED
    BY <1>1, <2>1, <2>3 DEF MeanCompletion
<1>6. Growth(history) \in Nat
  <2>1. CASE n = 1
    BY <1>1, <1>2, <2>1 DEF Growth
  <2>2. CASE n # 1
    <3>1. PICK rise \in Nat : rise = IF history[n].prompt - history[1].prompt > 0
                                     THEN history[n].prompt - history[1].prompt ELSE 0
      BY <1>1, <1>2
    <3>2. n - 1 \in Nat \ {0}
      BY <1>1, <2>2
    <3>3. CeilDiv(rise, n - 1) \in Nat
      BY <3>2, CeilDivType
    <3> QED
      BY <1>1, <2>2, <3>1, <3>3 DEF Growth
  <2> QED
    BY <2>1, <2>2
<1>7. Last(history) = history[n] /\ history[n].prompt \in Nat
  BY <1>1, <1>2 DEF Last
<1> QED
  BY <1>1, <1>3, <1>4, <1>5, <1>6, <1>7

\* How far the forecast looks.
Ahead == Horizon(history, budget.max_turns, HorizonTurns)

LEMMA AheadType ==
  ASSUME SessionInv
  PROVE  /\ Ahead \in Nat
         /\ Len(history) < budget.max_turns => Ahead >= 1
         /\ {k \in 1 .. HorizonTurns : k <= budget.max_turns - Len(history)} = 1 .. Ahead
<1>1. PICK left \in Nat : left = budget.max_turns - Len(history)
  BY BudgetNumbers
<1>2. PICK h \in Nat \ {0} : h = HorizonTurns
  BY BoundsAssumption
<1>3. Ahead = IF h <= left THEN h ELSE left
  BY <1>1, <1>2 DEF Ahead, Horizon
<1>4. Len(history) < budget.max_turns => left >= 1
  BY <1>1, BudgetNumbers
<1>5. {k \in 1 .. h : k <= left} = 1 .. (IF h <= left THEN h ELSE left)
  OBVIOUS
<1> QED
  BY <1>1, <1>2, <1>3, <1>4, <1>5

\* What the forecast adds for the turns ahead.
Turnwise == [k \in 1 .. Ahead |-> (Last(history).prompt + MeanCompletion(history)) + Growth(history) * k]

LEMMA Predicted ==
  ASSUME SessionInv
  PROVE  /\ Additional(history, Ahead) = SumFunction(Turnwise)
         /\ SumFunction(Turnwise) \in Nat
         /\ Predict(history, budget.max_turns, HorizonTurns).predicted =
               Observed(history) + SumFunction(Turnwise)
         /\ Len(history) < budget.max_turns => NextTurn <= SumFunction(Turnwise)
<1>1. PICK p \in Nat, g \in Nat, h \in Nat :
         p = Last(history).prompt + MeanCompletion(history) /\ g = Growth(history) /\ h = Ahead
  BY HistoryNumbers, AheadType
<1>2. Turnwise = [k \in 1 .. h |-> p + g * k]
  BY <1>1 DEF Turnwise
<1>3. Additional(history, Ahead) = SumFunction(Turnwise)
  <2>1. SumFunction(Turnwise) = IF h <= 0 THEN 0 ELSE h * p + (g * h * (h + 1)) \div 2
    BY <1>2, ClosedForm
  <2>2. Additional(history, Ahead) = IF h <= 0 THEN 0 ELSE h * p + (g * h * (h + 1)) \div 2
    BY <1>1, HistoryNumbers DEF Additional
  <2> QED
    BY <2>1, <2>2
<1>4. IsFiniteSet(1 .. h) /\ Turnwise \in [1 .. h -> Nat]
  <2>1. \A k \in 1 .. h : p + g * k \in Nat
    OBVIOUS
  <2>2. IsFiniteSet(1 .. h)
    BY FS_Interval
  <2> QED
    BY <1>2, <2>1, <2>2
<1>5. SumFunction(Turnwise) \in Nat /\ \A k \in 1 .. h : Turnwise[k] <= SumFunction(Turnwise)
  BY <1>4, SumOfNaturals
<1>6. Len(history) < budget.max_turns => NextTurn <= SumFunction(Turnwise)
  <2> SUFFICES ASSUME Len(history) < budget.max_turns PROVE NextTurn <= SumFunction(Turnwise)
    OBVIOUS
  <2>1. 1 \in 1 .. h
    BY <1>1, AheadType
  <2>2. Turnwise[1] = p + g
    BY <1>2, <2>1
  <2>3. NextTurn = p + g
    BY <1>1 DEF NextTurn
  <2> QED
    BY <1>5, <2>1, <2>2, <2>3
<1>7. Predict(history, budget.max_turns, HorizonTurns).predicted =
         Observed(history) + Additional(history, Ahead)
  BY DEF Predict, Ahead
<1> QED
  BY <1>3, <1>5, <1>6, <1>7

LEMMA WidthType ==
  ASSUME SessionInv, NEW additional \in Nat, NEW h \in Nat
  PROVE  Width(history, h, additional) \in Nat
<1>1. PICK n \in Nat \ {0} : n = Len(history)
  BY BudgetNumbers
<1>2. PICK t \in [1 .. n -> Nat] : t = Tokens(history)
  BY <1>1, HistoryNumbers
<1>3. CASE n = 1
  <2>1. CeilDiv(additional, 2) \in Nat
    <3>1. 2 \in Nat \ {0}
      OBVIOUS
    <3> QED
      BY <3>1, CeilDivType
  <2> QED
    BY <1>1, <1>3, <2>1 DEF Width
<1>4. CASE n # 1
  <2>1. PICK total \in Nat : total = SumFunction(t)
    BY SumOverHistory
  <2>2. PICK squares \in Nat : squares = SumFunction([i \in DOMAIN t |-> t[i] * t[i]])
    <3>0. \A i \in 1 .. n : t[i] * t[i] \in Nat
      <4>1. \A x \in Nat : x * x \in Nat
        OBVIOUS
      <4> QED
        BY <4>1
    <3>1. PICK f \in [1 .. n -> Nat] : f = [i \in DOMAIN t |-> t[i] * t[i]]
      BY <3>0
    <3> QED
      BY <3>1, SumOverHistory
  <2>3. PICK spread \in Int : spread = n * squares - total * total
    OBVIOUS
  <2>4. PICK cut \in Nat : cut = IF spread > 0 THEN spread ELSE 0
    OBVIOUS
  <2>5. n * n \in Nat \ {0}
    OBVIOUS
  <2>6. PICK sigma \in Nat : sigma = CeilIsqrt(CeilDiv(cut, n * n))
    BY <2>5, CeilDivType, CeilIsqrtType
  <2>7. PICK root \in Nat : root = CeilIsqrt(h)
    BY CeilIsqrtType
  <2>8. (196 * sigma * root + 99) \div 100 \in Nat
    <3>1. PICK x \in Nat : x = 196 * sigma * root + 99
      OBVIOUS
    <3> QED
      BY <3>1
  <2>9. Width(history, h, additional) = (196 * sigma * root + 99) \div 100
    BY <1>1, <1>2, <1>4, <2>1, <2>2, <2>3, <2>4, <2>6, <2>7 DEF Width
  <2> QED
    BY <2>8, <2>9
<1> QED
  BY <1>3, <1>4

-----------------------------------------------------------------------------
(* The properties *)

LEMMA DecideFacts ==
  ASSUME SessionInv, NEW b, Reach(b) = Reach(budget), b.soft \in Nat, b.hard \in Nat
  PROVE  LET predicted == Observed(history) + SumFunction(Turnwise)
         IN  Decision(b) = IF predicted > b.hard \/ Len(history) >= b.max_turns
                           THEN "EMERGENCY_HALT"
                           ELSE IF predicted > b.soft THEN "FORCE_D3_PRUNING" ELSE "CONTINUE"
<1>1. PICK o \in Nat, s \in Nat : o = Observed(history) /\ s = SumFunction(Turnwise)
  BY HistoryNumbers, Predicted
<1>2. Predict(history, b.max_turns, HorizonTurns).predicted = o + s
  BY <1>1, Predicted DEF Predict, Reach
<1>3. o > b.hard => o + s > b.hard
  OBVIOUS
<1> QED
  BY <1>1, <1>2, <1>3 DEF Decision, Decide

LEMMA SessionStart == Init => SessionInv
<1> SUFFICES ASSUME Init PROVE SessionInv
  OBVIOUS
<1>1. PICK t \in Turns : history = <<t>>
  BY DEF Init
<1>2. history \in Seq(Turns) /\ Len(history) = 1
  BY <1>1
<1>3. budget.max_turns \in Nat \ {0}
  BY BoundsAssumption DEF Init
<1> QED
  BY <1>2, <1>3 DEF Init, SessionInv

LEMMA SessionStep == SessionInv /\ [Next]_<<history, budget>> => SessionInv'
<1> SUFFICES ASSUME SessionInv, [Next]_<<history, budget>> PROVE SessionInv'
  OBVIOUS
<1>1. ASSUME NEW t \in Turns, TakeTurn(t) PROVE SessionInv'
  <2>1. history' = Append(history, t) /\ budget' = budget
    BY <1>1 DEF TakeTurn
  <2>2. history' \in Seq(Turns) /\ Len(history') = Len(history) + 1
    BY <2>1 DEF SessionInv
  <2>3. budget.max_turns \in Nat /\ Len(history) \in Nat
    BY BudgetNumbers
  <2>4. ~(Len(history) >= budget.max_turns)
    BY <1>1 DEF TakeTurn, Decision, Decide
  <2>5. Len(history') \in 1 .. budget'.max_turns
    BY <2>1, <2>2, <2>3, <2>4
  <2> QED
    BY <2>1, <2>2, <2>5 DEF SessionInv
<1>2. CASE UNCHANGED <<history, budget>>
  BY <1>2 DEF SessionInv
<1> QED
  BY <1>1, <1>2 DEF Next

LEMMA SessionInvariant == Spec => []SessionInv
  BY SessionStart, SessionStep, PTL DEF Spec

\* The closed form of the forecast is the sum of the turns ahead, whatever
\* their number.
THEOREM ClosedFormHolds == Spec => []ClosedFormIsTurnByTurn
<1>1. SessionInv => ClosedFormIsTurnByTurn
  <2> SUFFICES ASSUME SessionInv PROVE ClosedFormIsTurnByTurn
    OBVIOUS
  <2>1. PICK ahead : ahead = {k \in 1 .. HorizonTurns : k <= budget.max_turns - Len(history)}
    OBVIOUS
  <2>2. ahead = 1 .. Ahead
    BY <2>1, AheadType
  <2>3. [k \in ahead |-> Last(history).prompt + MeanCompletion(history) + Growth(history) * k]
          = Turnwise
    BY <2>2 DEF Turnwise
  <2> QED
    BY <2>1, <2>3, Predicted DEF ClosedFormIsTurnByTurn
<1> QED
  BY <1>1, SessionInvariant, PTL

\* The interval of a forecast holds it, and does not go below what was spent.
THEOREM IntervalHolds == Spec => []IntervalHoldsForecast
<1>1. SessionInv => IntervalHoldsForecast
  <2> SUFFICES ASSUME SessionInv PROVE IntervalHoldsForecast
    OBVIOUS
  <2>1. PICK o \in Nat, s \in Nat : o = Observed(history) /\ s = Additional(history, Ahead)
    BY HistoryNumbers, Predicted
  <2>2. PICK w \in Nat : w = Width(history, Ahead, s)
    BY AheadType, WidthType
  <2>3. Predict(history, budget.max_turns, HorizonTurns) =
          [predicted |-> o + s, low |-> IF (o + s) - w >= o THEN (o + s) - w ELSE o,
           high |-> (o + s) + w]
    BY <2>1, <2>2 DEF Predict, Ahead
  <2>4. PICK low \in Int : low = IF (o + s) - w >= o THEN (o + s) - w ELSE o
    <3>1. (o + s) - w \in Int /\ o \in Int
      OBVIOUS
    <3> QED
      BY <3>1, Zenon
  <2>5. o <= low /\ low <= o + s /\ o + s <= (o + s) + w
    BY <2>4
  <2> QED
    BY <2>1, <2>3, <2>4, <2>5 DEF IntervalHoldsForecast
<1> QED
  BY <1>1, SessionInvariant, PTL

\* No limit can be lowered into a milder decision, but for a turn limit that
\* cuts the horizon.
THEOREM NeverMilder == Spec => []TighterIsNeverMilder
<1>1. SessionInv => TighterIsNeverMilder
  <2> SUFFICES ASSUME SessionInv,
                      NEW b \in [soft : Limits, hard : Limits, max_turns : MaxTurnsSet],
                      b.soft <= budget.soft, b.hard <= budget.hard,
                      b.max_turns <= budget.max_turns,
                      b.max_turns = Len(history) \/ Reach(b) = Reach(budget)
               PROVE  Severity(Decision(b)) >= Severity(Decision(budget))
    BY DEF TighterIsNeverMilder
  <2>1. PICK v \in Nat : v = Observed(history) + SumFunction(Turnwise)
    BY HistoryNumbers, Predicted
  <2>2. /\ b.soft \in Nat /\ b.hard \in Nat /\ budget.soft \in Nat /\ budget.hard \in Nat
    BY BoundsAssumption DEF SessionInv
  <2>3. Decision(budget) = IF v > budget.hard \/ Len(history) >= budget.max_turns
                           THEN "EMERGENCY_HALT"
                           ELSE IF v > budget.soft THEN "FORCE_D3_PRUNING" ELSE "CONTINUE"
    BY <2>1, <2>2, DecideFacts
  <2>4. /\ Severity("CONTINUE") = 0 /\ Severity("FORCE_D3_PRUNING") = 1
        /\ Severity("EMERGENCY_HALT") = 2
    BY DEF Severity
  <2>5. b.max_turns \in Nat /\ Len(history) \in Nat /\ budget.max_turns \in Nat
    BY BoundsAssumption, BudgetNumbers
  <2>6. CASE b.max_turns = Len(history)
    <3>1. Decision(b) = "EMERGENCY_HALT"
      BY <2>5, <2>6 DEF Decision, Decide
    <3> QED
      BY <2>3, <2>4, <3>1
  <2>7. CASE Reach(b) = Reach(budget)
    <3>1. Decision(b) = IF v > b.hard \/ Len(history) >= b.max_turns THEN "EMERGENCY_HALT"
                        ELSE IF v > b.soft THEN "FORCE_D3_PRUNING" ELSE "CONTINUE"
      BY <2>1, <2>2, <2>7, DecideFacts
    <3>2. /\ v > budget.hard => v > b.hard
          /\ v > budget.soft => v > b.soft
          /\ Len(history) >= budget.max_turns => Len(history) >= b.max_turns
      BY <2>2, <2>5
    <3>3. CASE Decision(b) = "EMERGENCY_HALT"
      BY <2>3, <2>4, <3>3
    <3>4. CASE Decision(b) = "FORCE_D3_PRUNING"
      BY <2>3, <2>4, <3>1, <3>2, <3>4
    <3>5. CASE Decision(b) = "CONTINUE"
      BY <2>3, <2>4, <3>1, <3>2, <3>5
    <3> QED
      BY <3>1, <3>3, <3>4, <3>5
  <2> QED
    BY <2>6, <2>7
<1> QED
  BY <1>1, SessionInvariant, PTL

\* The breaker acts a turn ahead of each limit, and at the last turn.
THEOREM BreakerActsInTime == Spec => ActsInTime
<1>1. SessionInv /\ SessionInv' /\ [Next]_<<history, budget>> =>
        [/\ Len(history') <= budget.max_turns
         /\ Observed(history') - Observed(history) <= NextTurn =>
               Observed(history') <=
                   IF Decision(budget) = "CONTINUE" THEN budget.soft ELSE budget.hard
        ]_<<history, budget>>
  <2> SUFFICES ASSUME SessionInv, SessionInv', NEW t \in Turns, TakeTurn(t)
               PROVE  /\ Len(history') <= budget.max_turns
                      /\ Observed(history') - Observed(history) <= NextTurn =>
                            Observed(history') <=
                                IF Decision(budget) = "CONTINUE" THEN budget.soft ELSE budget.hard
    BY DEF Next
  <2>1. budget' = budget /\ Decision(budget) # "EMERGENCY_HALT"
    BY DEF TakeTurn
  <2>2. Len(history') \in 1 .. budget.max_turns /\ budget.max_turns \in Nat
    BY <2>1, BoundsAssumption DEF SessionInv
  <2>3. PICK o \in Nat, s \in Nat : o = Observed(history) /\ s = SumFunction(Turnwise)
    BY HistoryNumbers, Predicted
  <2>4. budget.soft \in Nat /\ budget.hard \in Nat
    BY BoundsAssumption DEF SessionInv
  <2>5. Decision(budget) = IF o + s > budget.hard \/ Len(history) >= budget.max_turns
                           THEN "EMERGENCY_HALT"
                           ELSE IF o + s > budget.soft THEN "FORCE_D3_PRUNING" ELSE "CONTINUE"
    BY <2>3, <2>4, DecideFacts
  <2>6. Len(history) < budget.max_turns
    BY <2>1, <2>2, <2>5 DEF SessionInv
  <2>7. PICK x \in Nat : x = NextTurn /\ x <= s
    BY <2>3, <2>6, HistoryNumbers, Predicted DEF NextTurn
  <2>8. PICK o2 \in Nat : o2 = Observed(history')
    <3>1. Observed(history') \in Nat
      BY ObservedType DEF SessionInv
    <3> QED
      BY <3>1
  <2>9. ASSUME o2 - o <= x
        PROVE  o2 <= IF Decision(budget) = "CONTINUE" THEN budget.soft ELSE budget.hard
    <3>1. o2 <= o + s
      BY <2>7, <2>9
    <3>2. o + s <= budget.hard /\ (Decision(budget) = "CONTINUE" => o + s <= budget.soft)
      BY <2>1, <2>4, <2>5
    <3> QED
      BY <2>4, <3>1, <3>2
  <2> QED
    BY <2>2, <2>3, <2>7, <2>8, <2>9
<1> QED
  BY <1>1, SessionStep, SessionInvariant, PTL DEF Spec, ActsInTime

=============================================================================
