----------------------------- MODULE MCEvaluator -----------------------------
(* Instances of Evaluator.  "shipped" is the interpreter that main() makes: *)
(* identity is the only bound word.  The others call eval_ast with more     *)
(* bindings: builtins of any arity, and functions.                          *)
EXTENDS EvaluatorMeaning, SequencesExt

CONSTANTS MaxForms, MaxShipped

WordForm(w) == [kind |-> "word", id |-> w]
DataForm(d) == [kind |-> "data", id |-> d]
Forms(words) == {WordForm(w) : w \in words} \cup {DataForm(d) : d \in Data}

(* What the shipped interpreter can be given.                              *)
ShippedPrograms == BoundedSeq(Forms({"identity", "foo"}), MaxShipped)

BuiltinPrograms == BoundedSeq(Forms(Word \ Function), MaxForms)

RECURSIVE Behind(_, _, _)

(* The form behind the n expressions that start at the k-th form; too far  *)
(* behind the last one if they are not complete.                           *)
Behind(forms, k, n) ==
    IF n = 0 THEN k
    ELSE IF k > Len(forms) THEN Len(forms) + 2
    ELSE LET arity == IF IsOperative(forms[k]) THEN Arity[OperativeOf(forms[k])] ELSE 0
         IN  Behind(forms, Behind(forms, k + 1, arity), n - 1)

(* No function is the last argument of a call: no expression that begins   *)
(* before a complete call of one ends with it.                             *)
NeverLast(forms) ==
    \A k \in 1 .. Len(forms) :
        LET end == Behind(forms, k, 1)
        IN  forms[k].id \in Function /\ end <= Len(forms) + 1 =>
                \A j \in 1 .. k - 1 : Behind(forms, j, 1) # end

FunctionPrograms ==
    {p \in BoundedSeq(Forms(Function \cup {"identity", "second", "foo"}), MaxForms) : NeverLast(p)}

MCPrograms == ShippedPrograms \cup BuiltinPrograms \cup FunctionPrograms

OpValue(op) == [type |-> "op", id |-> op]

(* identity as in main.c; set like set_value(), which is not registered    *)
(* yet, takes a word and a value and returns nil; second, whose value is   *)
(* not its first argument; and zero, which takes none.                     *)
MCApply(op, args) ==
    CASE op = "identity" -> Identity(args)
      [] op = "second"   -> args[2]
      [] op = "zero"     -> [type |-> "data", id |-> "d"]
      [] op = "set"      -> Nil

ArityOf(op) ==
    CASE op \in {"zero", "f", "outer"} -> 0
      [] op \in {"identity", "g"}      -> 1
      [] op \in {"second", "set"}      -> 2

MCArity == [op \in Operative |-> ArityOf(op)]

(* f ends with data, g with a call of f; in outer a call waits for g.       *)
BodyOf(op) ==
    CASE op = "f"     -> <<DataForm("d")>>
      [] op = "g"     -> <<DataForm("e"), WordForm("f")>>
      [] op = "outer" -> <<WordForm("second"), WordForm("g"), DataForm("d"), DataForm("e")>>

MCBody == [op \in Function |-> BodyOf(op)]

(* Each operative is bound to its own name, and x to data.                 *)
MCBindings ==
    [w \in Word \cap (Operative \cup {"x"}) |->
        IF w = "x" THEN [type |-> "data", id |-> "d"] ELSE OpValue(w)]
=============================================================================
