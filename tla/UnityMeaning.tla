----------------------------- MODULE UnityMeaning -----------------------------
(***************************************************************************)
(* What the assertions of Unity mean, without bytes, casts or loops: over  *)
(* the numbers a test wrote (holds), its texts and its floats.  The        *)
(* reference that the calls of UnityRunner are checked against.            *)
(***************************************************************************)
EXTENDS UnityRunner

Modulus(style) == 2^(style.bytes * ByteBits)

BitsAgree(c, width) ==
    \A k \in 0 .. width - 1 : Bit(k, c.mask) = 1 => Bit(k, c.e) = Bit(k, c.a)

NumbersAgree(c) ==
    CASE c.kind = "bits"   -> BitsAgree(c, 8 * ByteBits)
      [] c.kind = "equal"  -> (c.e - c.a) % Modulus(c.style) = 0
      [] c.kind = "within" -> Magnitude(c.e - c.a) <= c.delta
      [] c.kind = "order"  -> CASE c.compare = {"GREATER_THAN"} -> c.a > c.e
                                [] c.compare = {"SMALLER_THAN"} -> c.a < c.e
                                [] c.compare = {"NOT_EQUAL"}    -> c.a # c.e
                                [] c.compare = {"GREATER_THAN", "EQUAL_TO"} -> c.a >= c.e
                                [] c.compare = {"SMALLER_THAN", "EQUAL_TO"} -> c.a <= c.e

(* Two objects are the same one, or both exist and agree.                  *)
SameOr(e, a, Agree) == e.at = a.at \/ (e.at # 0 /\ a.at # 0 /\ Agree)

Wrote(object, each, k) == object.holds[IF each THEN 1 ELSE k]
ElementsAgree(c, k) ==
    LET e == Wrote(c.expected, c.each, k)
        a == Wrote(c.actual, FALSE, k) IN
    IF c.kind = "array within" THEN Magnitude(e - a) <= c.delta ELSE e = a

Beginning(object, length) ==
    SubSeq(object.data, 1, IF length < Len(object.data) THEN length ELSE Len(object.data))
TextsAgree(e, a) == SameOr(e, a, e.data = a.data)
BeginningsAgree(c) ==
    SameOr(c.expected, c.actual,
           Beginning(c.expected, c.length) = Beginning(c.actual, c.length))

ObjectsAgree(c) ==
    CASE c.kind \in {"equal array", "array within"} ->
             c.n > 0 /\ SameOr(c.expected, c.actual, \A k \in 1 .. c.n : ElementsAgree(c, k))
      [] c.kind = "equal string" -> TextsAgree(c.expected, c.actual)
      [] c.kind = "not equal string" -> ~TextsAgree(c.expected, c.actual)
      [] c.kind = "equal string len" -> BeginningsAgree(c)
      [] c.kind = "not equal string len" -> c.length > 0 /\ ~BeginningsAgree(c)
      [] c.kind = "equal strings" ->
             c.n > 0 /\ SameOr(c.wanted, c.given,
                 \A k \in 1 .. c.n :
                     TextsAgree(c.wanted.items[IF c.each THEN 1 ELSE k], c.given.items[k]))
      [] c.kind = "equal memory" ->
             c.n > 0 /\ c.length > 0 /\
             SameOr(c.expected, c.actual,
                 \A k \in 0 .. c.n - 1 :
                     SubSeq(c.expected.data, (IF c.each THEN 0 ELSE k) * c.length + 1,
                                             (IF c.each THEN 1 ELSE k + 1) * c.length)
                     = SubSeq(c.actual.data, k * c.length + 1, (k + 1) * c.length))
      [] c.kind = "not equal memory" -> c.length > 0 /\ ~BeginningsAgree(c)

(* Equal special values agree; others when both are finite and near.       *)
Near(e, a, most) ==
    \/ e = a /\ e.kind # "finite"
    \/ e.kind = "finite" /\ a.kind = "finite"
       /\ (most.kind = "finite" => Magnitude(e.num - a.num) <= Magnitude(most.num))
OwnPrecision(f) == Magnitude(f.num) \div 10^5

ExpectedFloat(c, k) == c.fexpected.floats[IF c.each THEN 1 ELSE k]
FloatElementsAgree(c, k) ==
    LET e == ExpectedFloat(c, k) IN
    Near(e, c.factual.floats[k], Finite(Magnitude(c.fdelta.num) + OwnPrecision(e)))

FloatsAgree(c) ==
    CASE c.kind = "float within"     -> Near(c.fe, c.fa, c.fdelta)
      [] c.kind = "float not within" -> ~Near(c.fe, c.fa, c.fdelta)
      [] c.kind = "float order" ->
             \/ "EQUAL_TO" \in c.compare /\ Near(c.fe, c.fa, Finite(OwnPrecision(c.fe)))
             \/ /\ "NaN" \notin {c.fe.kind, c.fa.kind}
                /\ IF "SMALLER_THAN" \in c.compare THEN Rank(c.fa) < Rank(c.fe)
                                                   ELSE Rank(c.fa) > Rank(c.fe)
      [] c.kind = "float array" ->
             /\ c.n > 0 /\ c.fdelta.kind # "NaN"
             /\ \/ c.fdelta.kind # "finite"
                \/ SameOr(c.fexpected, c.factual,
                      \A k \in 1 .. c.n : FloatElementsAgree(c, k))
      [] c.kind = "float special" ->
             /\ c.trait \in {"Infinity", "Negative Infinity", "NaN", "Determinate"}
             /\ c.should <=> c.fa.kind = (CASE c.trait = "Infinity" -> "Inf"
                                            [] c.trait = "Negative Infinity" -> "NegInf"
                                            [] c.trait = "NaN" -> "NaN"
                                            [] OTHER -> "finite")

-----------------------------------------------------------------------------
NumberKinds == {"bits", "equal", "within", "order"}
ArrayKinds == {"equal array", "array within"}
ObjectKinds == ArrayKinds \cup {"equal string", "equal string len", "equal strings",
    "not equal string", "not equal string len", "equal memory", "not equal memory"}
FloatKinds == {"float within", "float not within", "float order", "float array", "float special"}

Judged(Kinds, Agree(_)) ==
    judged # <<>> /\ judged[1].call.kind \in Kinds =>
        (judged[1].failed <=> ~Agree(judged[1].call))

(* Numbers are compared as the numbers they are in the type asked for:     *)
(* distances are right across zero and at the ends of the type, although   *)
(* they are taken on wrapped unsigned differences.                         *)
NumbersJudged == Judged(NumberKinds, NumbersAgree)

(* Arrays, strings and memory fail exactly when an element, a character or *)
(* a byte that the test wrote differs: whatever the width, the sign, the   *)
(* pointer that moves or stands still, NULL and the two lengths.           *)
ObjectsJudged == Judged(ObjectKinds, ObjectsAgree)

(* Floats agree within the delta in both directions and with every NaN and *)
(* infinity in its place.  A delta that is NaN is left out of the scalar   *)
(* assertions: they let it pass everything finite.                         *)
FloatsJudged == Judged(FloatKinds, FloatsAgree)

(* Every assertion fails exactly when what it says is not so.              *)
VerdictsCorrect == NumbersJudged /\ ObjectsJudged /\ FloatsJudged

(* The value a label shows in the last report: the last one of that name,  *)
(* or the first.                                                           *)
ShownAs(label) ==
    LET report == judged[1].report IN
    report[SelectLastInSeq(report, LAMBDA part : part.label = label)].shown
FirstShownAs(label) ==
    LET report == judged[1].report IN
    report[SelectInSeq(report, LAMBDA part : part.label = label)].shown
IsShown(label) == \E k \in 1 .. Len(judged[1].report) : judged[1].report[k].label = label

(* The element the report names, counted from 1.                           *)
ShownElement == ReadNumber(ShownAs("Element")) + 1

(* A finite float is shown in units of its last significant digit, as zero *)
(* when it is below a hundred thousandth.                                  *)
ShownUnit(f) == 10^LeastExponent(LAMBDA k : Magnitude(f.num) \div 10^k < MaxScaled)
ShownAsZero(f) == Magnitude(f.num) < Precision(Unit)
TooNearToTell(e, a) ==
    /\ e.kind = "finite" /\ a.kind = "finite"
    /\ \/ ShownAsZero(e) /\ ShownAsZero(a)
       \/ Magnitude(e.num - a.num) <= ShownUnit(IF Magnitude(e.num) < Magnitude(a.num) THEN a ELSE e)

(* A report that shows an expected and an actual value shows two different *)
(* ones: after the casts, masks, escapes and digits a reader still sees    *)
(* what was wrong.  There are four exceptions.  Only the bits of an int    *)
(* are printed, so masked bits that differ above them do not show.  Two    *)
(* floats, compared alone or as elements, that are both below a hundred    *)
(* thousandth, or not further apart than a unit of the last digit printed, *)
(* may be printed alike.  And an assertion that two texts differ in their  *)
(* first characters fails because they do not: it shows them alike, and a  *)
(* character behind those it compared, which may differ.                   *)
ReportsDiffer ==
    judged # <<>> /\ judged[1].failed /\ IsShown("Expected") /\ IsShown("Was") =>
        LET c == judged[1].call
            alike == ShownAs("Expected") = ShownAs("Was") IN
        CASE c.kind = "bits" -> alike => BitsAgree(c, 4 * ByteBits)
          [] c.kind = "float within" -> alike => TooNearToTell(c.fe, c.fa)
          [] c.kind = "float array" ->
                 alike => TooNearToTell(ExpectedFloat(c, ShownElement),
                                        c.factual.floats[ShownElement])
          [] c.kind = "not equal string len" -> FirstShownAs("Expected") = FirstShownAs("Was")
          [] OTHER -> ~alike

(* The numbers in the report, read back, are the ones that were compared,  *)
(* and the element is the first that does not agree.  Numbers compared as  *)
(* characters are shown as characters, not as numbers, and are left out.   *)
ReportsReadBack ==
    judged # <<>> /\ judged[1].failed /\ IsShown("Was")
    /\ judged[1].call.kind \in {"equal", "within"} \cup ArrayKinds
    /\ judged[1].call.style.range # "CHAR" =>
        LET c == judged[1].call
            As(n) == IF c.style.range = "INT" THEN n ELSE n % Modulus(c.style)
            k == ShownElement
            Reads(label, n) ==
                (ReadNumber(ShownAs(label)) - As(n)) % Modulus(c.style) = 0 IN
        IF c.kind \in ArrayKinds
        THEN /\ k \in 1 .. c.n
             /\ ~ElementsAgree(c, k) /\ \A j \in 1 .. k - 1 : ElementsAgree(c, j)
             /\ ReadNumber(ShownAs("Expected")) = As(Wrote(c.expected, c.each, k))
             /\ ReadNumber(ShownAs("Was")) = As(Wrote(c.actual, FALSE, k))
        ELSE Reads("Expected", c.e) /\ Reads("Was", c.a)

(* A float that was shown, read back, is the float that was compared up to *)
(* half a unit of its last significant digit.                              *)
FloatReadsBack(f, text) ==
    LET num == Magnitude(f.num)
        digits == IF Head(text) = 45 THEN Tail(text) ELSE text
        error == Magnitude(ReadMillionths(digits) - num)
        above == LeastExponent(LAMBDA k : num \div 10^k < MaxScaled) IN
    f.kind = "finite" =>
        /\ num >= 10 => 2 * error <= 10^above
        /\ num < 10 => digits = <<48>>
        /\ f.num <= -10 <=> Head(text) = 45
ShownFloatsReadBack ==
    judged # <<>> /\ judged[1].failed /\ IsShown("Was") =>
        LET c == judged[1].call
            k == ShownElement IN
        /\ c.kind = "float within" =>
               FloatReadsBack(c.fe, ShownAs("Expected")) /\ FloatReadsBack(c.fa, ShownAs("Was"))
        /\ c.kind = "float array" =>
               /\ k \in 1 .. c.n
               /\ ~FloatElementsAgree(c, k) /\ \A j \in 1 .. k - 1 : FloatElementsAgree(c, j)
               /\ FloatReadsBack(ExpectedFloat(c, k), ShownAs("Expected"))
               /\ FloatReadsBack(c.factual.floats[k], ShownAs("Was"))

(* A report lets its reader see what was wrong: what it shows differs, but *)
(* for the exceptions named at ReportsDiffer (masked bits above an int,    *)
(* floats too near to tell apart in the digits printed, texts that were to *)
(* differ), and is what was compared.                                      *)
ReportsFaithful == ReportsDiffer /\ ReportsReadBack /\ ShownFloatsReadBack

(* Between tests, each test that has run is in the output exactly once, in *)
(* order, with one verdict and on a line of its own, the counters are the  *)
(* numbers of those lines, and main() returns the number of failures.      *)
VerdictWords == {"PASS", "FAIL", "IGNORE"}
VerdictsIn(text) == {j \in 1 .. Len(text) : text[j].label \in VerdictWords}
VerdictLines(lines) == {k \in 1 .. Len(lines) : VerdictsIn(lines[k]) # {}}
LinesWith(word, lines) ==
    {k \in VerdictLines(lines) : \E j \in VerdictsIn(lines[k]) : lines[k][j].label = word}
LinesUpTo(k, lines) == {j \in VerdictLines(lines) : j <= k}

(* The k-th line that has a verdict has one, and it is that of test k.     *)
OneInOrder(lines) ==
    \A k \in VerdictLines(lines) :
        \E j \in VerdictsIn(lines[k]) :
            /\ VerdictsIn(lines[k]) = {j}
            /\ lines[k][j].shown = <<Cardinality(LinesUpTo(k, lines))>>

SummaryMatchesLines ==
    phase \in {"between", "exit"} =>
        /\ OneInOrder(output)
        /\ Cardinality(VerdictLines(output)) = NumberOfTests
        /\ Cardinality(LinesWith("FAIL", output)) = TestFailures
        /\ Cardinality(LinesWith("IGNORE", output)) = TestIgnores
        /\ phase = "exit" => status = TestFailures

-----------------------------------------------------------------------------
Running == phase \in Functions \cup {"conclude"}

S == INSTANCE Scoreboard WITH
    verdict <- IF ~Running /\ ~ReturnIfFailOrIgnore THEN "none"
               ELSE IF CurrentTestFailed THEN "failed"
               ELSE IF CurrentTestIgnored THEN "ignored"
               ELSE "open",
    score <- [passed  |-> NumberOfTests - TestFailures - TestIgnores - (IF Running THEN 1 ELSE 0),
              failed  |-> TestFailures,
              ignored |-> TestIgnores]

(* The runner implements the scoreboard: what setUp(), a test or tearDown()*)
(* decides stays decided whatever is called after it, within one test and  *)
(* across tests, and each test is counted once.                            *)
ImplementsScoreboard == S!Spec
=============================================================================
