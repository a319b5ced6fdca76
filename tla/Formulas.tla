------------------------------- MODULE Formulas -------------------------------
(***************************************************************************)
(* The formulas of the rules: what the engine computes from one, and what  *)
(* the check at saving time says of it before (internal/gameplay,          *)
(* engine.go).  The check follows the formula with sets of classes of      *)
(* numbers (zero, other finite ones, the infinities, NaN) and refuses it   *)
(* when no finite number can come out.                                     *)
(*                                                                         *)
(* A formula is known here by its meaning: the outcomes of its evaluation  *)
(* for each value of a variable, and the verdict of the check.  It grows   *)
(* one operation at a time, the other operands being small formulas.       *)
(* Numbers are a floating point system in miniature, counted in halves:    *)
(* those beyond Largest are infinite, those below a half are zero.  Text   *)
(* and its parser are left out.                                            *)
(***************************************************************************)
EXTENDS Integers, Sequences

CONSTANTS
  Largest,    \* the largest finite number, in halves
  MaxGrowth   \* bound: operations added to a formula

ASSUME LargestAssumption == Largest \in Nat /\ Largest > 0 /\ Largest % 2 = 0

VARIABLES
  formula,  \* [outcomes |-> for each value of the variable, verdict |-> ...]
  mistaken, \* it holds a call of which the check tells less than may come out
  growth

formulaVars == <<formula, mistaken, growth>>

Finite == (-Largest)..Largest
Infinity == Largest + 1
NaN == Largest + 2
Error == Largest + 3

IsInfinite(v) == v \in {Infinity, -Infinity}
Sign(v) == IF v > 0 THEN 1 ELSE IF v < 0 THEN -1 ELSE 0
Size(v) == IF v < 0 THEN -v ELSE v
Fit(n) == IF Size(n) > Largest THEN Sign(n) * Infinity ELSE n
-----------------------------------------------------------------------------
(* The arithmetic of the processor. *)

Minus(a) == IF a = NaN THEN NaN ELSE -a

Plus(a, b) ==
  CASE NaN \in {a, b} \/ (IsInfinite(a) /\ b = -a) -> NaN
    [] IsInfinite(a) /\ b # -a /\ b # NaN -> a
    [] ~IsInfinite(a) /\ a # NaN /\ IsInfinite(b) -> b
    [] OTHER -> Fit(a + b)

Times(a, b) ==
  CASE NaN \in {a, b} \/ (0 \in {a, b} /\ (IsInfinite(a) \/ IsInfinite(b))) -> NaN
    [] OTHER -> IF IsInfinite(a) \/ IsInfinite(b)
                THEN Sign(a) * Sign(b) * Infinity
                ELSE Fit(Sign(a) * Sign(b) * ((Size(a) * Size(b)) \div 2))

Over(a, b) ==
  CASE \/ NaN \in {a, b}
       \/ IsInfinite(a) /\ IsInfinite(b)
       \/ a = 0 /\ b = 0 -> NaN
    [] OTHER -> IF IsInfinite(a) THEN Sign(a) * (IF b < 0 THEN -1 ELSE 1) * Infinity
                ELSE IF b = 0 THEN Sign(a) * Infinity
                ELSE IF IsInfinite(b) THEN 0
                ELSE Fit(Sign(a) * Sign(b) * ((2 * Size(a)) \div Size(b)))

Compared(op, a, b) ==
  /\ NaN \notin {a, b}
  /\ CASE op = ">" -> a > b [] op = ">=" -> a >= b [] op = "<" -> a < b
       [] op = "<=" -> a <= b [] op = "=" -> a = b

(* math.Max and math.Min: an infinity of the right sign wins over NaN. *)
Best(name, a, b) ==
  LET winner == IF name = "MAX" THEN Infinity ELSE -Infinity
  IN  IF winner \in {a, b} THEN winner
      ELSE IF NaN \in {a, b} THEN NaN
      ELSE IF (a > b) = (name = "MAX") THEN a ELSE b

Absolute(v) == IF v = NaN THEN NaN ELSE Size(v)
Whole(v) == IF v \in Finite THEN 2 * (v \div 2) ELSE v
Rounded(v) == IF v \in Finite THEN Sign(v) * 2 * ((Size(v) + 1) \div 2) ELSE v

(* The powers of ten but one are beyond the numbers, above or below. *)
Power(d) == CASE d = NaN -> NaN [] d = 0 -> 2 [] d > 0 /\ d # NaN -> Infinity [] d < 0 -> 0
RoundedTo(v, d) == Over(Rounded(Times(v, Power(d))), Power(d))

(* int() of what is no integer is the least one. *)
Low(v) == IF v \in Finite THEN -Whole(-v) ELSE -Largest
High(v) == IF v \in Finite THEN Whole(v) ELSE -Largest
-----------------------------------------------------------------------------
(* What the engine computes. *)

Comparisons == {">", ">=", "<", "<=", "="}
Operators == {"+", "-", "*", "/"} \cup Comparisons

Computed(op, a, b) ==
  CASE op = "+" -> Plus(a, b)
    [] op = "-" -> Plus(a, Minus(b))
    [] op = "*" -> Times(a, b)
    [] op = "/" -> IF b = 0 THEN Error ELSE Over(a, b)
    [] op \in Comparisons -> IF Compared(op, a, b) THEN 2 ELSE 0

EvaluateBinary(op, left, right) ==
  {IF Error \in {a, b} THEN Error ELSE Computed(op, a, b) : a \in left, b \in right}

Between(a, b) ==
  IF High(b) < Low(a) THEN {Error} ELSE {n \in Low(a)..High(b) : n % 2 = 0}

EvaluateCall(name, args) ==
  LET One(F(_)) == {IF a = Error THEN Error ELSE F(a) : a \in args[1]}
      Two(F(_, _)) == {IF Error \in {a, b} THEN Error ELSE F(a, b) :
                         a \in args[1], b \in args[2]}
  IN  CASE name = "IF" -> UNION {IF c = Error THEN {Error} ELSE IF c # 0 THEN args[2]
                                 ELSE args[3] : c \in args[1]}
        [] name = "RANDOMCHOICE" -> UNION {args[i] : i \in DOMAIN args}
        [] name \in {"MAX", "MIN"} -> Two(LAMBDA a, b : Best(name, a, b))
        [] name = "ROUND" -> IF Len(args) = 1 THEN One(LAMBDA a : RoundedTo(a, 0))
                             ELSE Two(RoundedTo)
        [] name = "ABS" -> One(Absolute)
        [] name = "FLOOR" -> One(Whole)
        [] name = "RAND" -> {0, 1}
        [] name = "RANDBETWEEN" ->
             UNION {IF Error \in {a, b} THEN {Error} ELSE Between(a, b) :
                      a \in args[1], b \in args[2]}
-----------------------------------------------------------------------------
(* What the check says. *)

FiniteClasses == {"zero", "number"}
Infinities == {"plus", "minus"}
Classes == FiniteClasses \cup Infinities \cup {"nan"}

ClassOf(v) ==
  CASE v = 0 -> "zero" [] v = Infinity -> "plus" [] v = -Infinity -> "minus"
    [] v = NaN -> "nan" [] OTHER -> "number"

ExactResult(v) == [classes |-> {ClassOf(v)}, exact |-> TRUE, value |-> v, fails |-> FALSE]
Result(classes) == [classes |-> classes, exact |-> FALSE, value |-> 0, fails |-> FALSE]
Top == Result(Classes)
Fails == [Top EXCEPT !.fails = TRUE]

Negated(c) == CASE c = "plus" -> "minus" [] c = "minus" -> "plus" [] OTHER -> c

(* The classes two classes may give; none when it fails for certain. *)
AbstractBinary(op, left, right) ==
  LET both == left \in Infinities /\ right \in Infinities
      either == left \in Infinities \/ right \in Infinities
      right1 == IF op = "-" THEN Negated(right) ELSE right
  IN  CASE op \in Comparisons -> FiniteClasses
        [] op \notin Comparisons /\ "nan" \in {left, right} -> {"nan"}
        [] op \in {"+", "-"} /\ "nan" \notin {left, right} ->
             IF both THEN IF left = right1 THEN {left} ELSE {"nan"}
             ELSE IF left \in Infinities THEN {left}
             ELSE IF either THEN {right1}
             ELSE IF {left, right} = {"zero"} THEN {"zero"}
             ELSE FiniteClasses \cup Infinities
        [] op = "*" /\ "nan" \notin {left, right} ->
             IF either /\ "zero" \in {left, right} THEN {"nan"}
             ELSE IF both THEN IF left = right THEN {"plus"} ELSE {"minus"}
             ELSE IF either THEN Infinities
             ELSE IF "zero" \in {left, right} THEN {"zero"}
             ELSE FiniteClasses \cup Infinities
        [] op = "/" /\ "nan" \notin {left, right} ->
             IF right = "zero" THEN {}
             ELSE IF right \in Infinities
                  THEN IF left \in Infinities THEN {"nan"} ELSE {"zero"}
             ELSE IF left \in Infinities THEN Infinities
             ELSE IF left = "zero" THEN {"zero"}
             ELSE FiniteClasses \cup Infinities

JudgeUnary(r) ==
  IF r.fails THEN Fails
  ELSE IF r.exact THEN ExactResult(Minus(r.value))
  ELSE Result({Negated(c) : c \in r.classes})

JudgeBinary(op, l, r) ==
  LET classes == UNION {AbstractBinary(op, a, b) : a \in l.classes, b \in r.classes}
      value == Computed(op, l.value, r.value)
  IN  IF l.fails \/ r.fails THEN Fails
      ELSE IF l.exact /\ r.exact THEN IF value = Error THEN Fails ELSE ExactResult(value)
      ELSE IF classes = {} THEN Fails ELSE Result(classes)

AbstractBest(name, a, b) ==
  LET top == IF name = "MAX" THEN "plus" ELSE "minus"
  IN  IF "nan" \in {a, b} THEN {"nan"}
      ELSE IF top \in {a, b} THEN {top}
      ELSE IF a = Negated(top) THEN {b}
      ELSE IF b = Negated(top) THEN {a}
      ELSE FiniteClasses

JudgeRound(args) ==
  LET value == args[1]
      digits == args[2]
  IN  IF value.classes \cap FiniteClasses = {} \/ Len(args) = 1 THEN Result(value.classes)
      ELSE IF ~digits.exact THEN Top
      ELSE IF Power(digits.value) \in Finite \ {0}
           THEN Result(value.classes \cup Infinities)
      ELSE Result({"nan"})

(* The calls whose arguments are not all constants. *)
JudgeUnknown(name, args) ==
  CASE name \in {"MAX", "MIN"} ->
         Result(UNION {AbstractBest(name, a, b) :
                         a \in args[1].classes, b \in args[2].classes})
    [] name = "ROUND" -> JudgeRound(args)
    [] name = "ABS" -> Result({IF c = "minus" THEN "plus" ELSE c : c \in args[1].classes})
    [] name = "FLOOR" -> Result(args[1].classes)
    [] name = "RANDBETWEEN" -> Result(FiniteClasses)

JudgeWiderRange(low, high) ==  \* a plausible mistake
  IF high =< low THEN Fails ELSE Result(FiniteClasses)

JudgeRange(low, high) ==
  IF high < low THEN Fails
  ELSE IF low = high THEN ExactResult(low) ELSE Result(FiniteClasses)

JudgeConstants(name, args) ==
  LET a == args[1].value
  IN  CASE name \in {"MAX", "MIN"} -> ExactResult(Best(name, a, args[2].value))
        [] name = "ROUND" -> ExactResult(RoundedTo(a, IF Len(args) = 1 THEN 0
                                                      ELSE args[2].value))
        [] name = "ABS" -> ExactResult(Absolute(a))
        [] name = "FLOOR" -> ExactResult(Whole(a))
        [] name = "RANDBETWEEN" -> JudgeRange(Low(a), High(args[2].value))

JudgeCall(name, args) ==
  CASE name = "IF" -> IF args[1].fails THEN Fails
                      ELSE IF ~args[1].exact THEN Top
                      ELSE IF args[1].value # 0 THEN args[2] ELSE args[3]
    [] name = "RANDOMCHOICE" -> IF Len(args) = 1 THEN args[1] ELSE Top
    [] name = "RAND" -> Result(FiniteClasses)
    [] OTHER -> IF \E i \in DOMAIN args : args[i].fails THEN Fails
                ELSE IF \A i \in DOMAIN args : args[i].exact
                     THEN JudgeConstants(name, args)
                ELSE JudgeUnknown(name, args)

(* ValidateFormula. *)
GivesNothing(f) == f.verdict.fails \/ f.verdict.classes \cap FiniteClasses = {}
-----------------------------------------------------------------------------
(* Formulas. *)

Number(n) == [outcomes |-> [x \in Finite |-> {n}], verdict |-> ExactResult(n)]
Variable == [outcomes |-> [x \in Finite |-> {x}], verdict |-> Result(FiniteClasses)]

Negation(f) ==
  [outcomes |-> [x \in Finite |-> {IF a = Error THEN Error ELSE Minus(a) : a \in f.outcomes[x]}],
   verdict |-> JudgeUnary(f.verdict)]

Binary(op, f, g) ==
  [outcomes |-> [x \in Finite |-> EvaluateBinary(op, f.outcomes[x], g.outcomes[x])],
   verdict |-> JudgeBinary(op, f.verdict, g.verdict)]

Call(name, args) ==
  [outcomes |-> [x \in Finite |-> EvaluateCall(name, [i \in DOMAIN args |-> args[i].outcomes[x]])],
   verdict |-> JudgeCall(name, [i \in DOMAIN args |-> args[i].verdict])]

Small == {Number(0), Number(1), Variable, Binary("+", Number(Largest), Number(Largest))}

FormulaInit ==
  /\ formula \in Small \cup {Call("RAND", <<>>)}
  /\ mistaken = FALSE
  /\ growth = 0

Grows(f) == formula' = f /\ UNCHANGED mistaken

Operate ==
  \/ Grows(Negation(formula))
  \/ \E op \in Operators, g \in Small :
       Grows(Binary(op, formula, g)) \/ Grows(Binary(op, g, formula))

(* What comes out of these is not always of the classes that the check gives:    *)
(* math.Max lets an infinity win over NaN; an infinity rounded to a number of    *)
(* digits that is not known may be NaN, as 10^digits may be 0 or infinite; and a *)
(* number that cannot be zero may become zero when it is rounded.                *)
Misjudged(name, args) ==
  /\ \E i \in DOMAIN args : ~args[i].exact
  /\ \/ name \in {"MAX", "MIN"} /\ \E i \in DOMAIN args : "nan" \in args[i].classes
     \/ /\ name = "ROUND" /\ Len(args) = 2
        /\ args[1].classes \subseteq Infinities
        /\ ~(args[2].exact /\ Power(args[2].value) \in Finite \ {0})
     \/ /\ name \in {"ROUND", "FLOOR"}
        /\ "number" \in args[1].classes /\ "zero" \notin args[1].classes

Calls(name, args) ==
  /\ formula' = Call(name, args)
  /\ mistaken' = (mistaken \/ Misjudged(name, [i \in DOMAIN args |-> args[i].verdict]))

Apply ==
  \/ \E name \in {"RANDOMCHOICE", "ROUND", "ABS", "FLOOR"} : Calls(name, <<formula>>)
  \/ \E name \in {"RANDOMCHOICE", "ROUND", "RANDBETWEEN"}, g \in Small :
       Calls(name, <<formula, g>>) \/ Calls(name, <<g, formula>>)
  \/ \E g \in Small, h \in Small :
       \/ Calls("IF", <<formula, g, h>>)
       \/ Calls("IF", <<g, formula, h>>)
       \/ Calls("IF", <<g, h, formula>>)

Compete == \E name \in {"MAX", "MIN"}, g \in Small : Calls(name, <<formula, g>>)

FormulaNext == growth < MaxGrowth /\ growth' = growth + 1 /\ (Operate \/ Apply \/ Compete)

FormulaSpec == FormulaInit /\ [][FormulaNext]_formulaVars
-----------------------------------------------------------------------------
(* The check at saving time is right about the evaluations to come: a formula it *)
(* refuses never gives a finite number, whatever the attributes and the chances  *)
(* are, unless it holds a call whose classes the check mistakes; and one it      *)
(* takes for a constant always gives that constant.                              *)
RefusedFormulasFail ==
  LET r == formula.verdict
  IN  \A x \in Finite :
        /\ r.exact => formula.outcomes[x] = {r.value}
        /\ ~mistaken /\ GivesNothing(formula) => formula.outcomes[x] \cap Finite = {}
==============================================================================
