------------------------------- MODULE MCUnity -------------------------------
(***************************************************************************)
(* Test programs for Unity: every short sequence of the calls that decide  *)
(* a test, and one test for every assertion with every argument below.     *)
(***************************************************************************)
EXTENDS UnityMeaning, TLC

Program(setUp, tests, tearDown) == [setUp |-> setUp, tests |-> tests, tearDown |-> tearDown]
Alone(calls) == {Program(<<>>, <<<<c>>>>, <<>>) : c \in calls}
Upto(set, n) == UNION {[1 .. k -> set] : k \in 0 .. n}

Styles == [bytes : {1, 2, 4, 8}, range : {"INT", "UINT", "HEX"}]
              \cup {[bytes |-> 1, range |-> "CHAR"]}
Int32 == [bytes |-> 4, range |-> "INT"]
Lowest(style) == IF IsInt(style) THEN -(2^(style.bytes * ByteBits - 1)) ELSE 0
Highest(style) == Lowest(style) + 2^(style.bytes * ByteBits) - 1
Ends(style) == {Lowest(style), Lowest(style) + 1, Highest(style) - 1, Highest(style), 0, 1}

Within(delta, e, a) == [kind |-> "within", style |-> Int32, delta |-> delta, e |-> e, a |-> a,
                        msg |-> FALSE]
Condition(holds) == [kind |-> "condition", holds |-> holds, msg |-> TRUE]
Plain(kind) == [kind |-> kind, msg |-> FALSE]
Deciding == {Condition(TRUE), Condition(FALSE), Within(1, 5, 6), Within(1, 5, 7),
             Plain("ignore"), Plain("message"), Plain("pass")}
Sequences ==
    {Program(s, <<a, b>>, t) : s \in Upto(Deciding, 1), a \in Upto(Deciding, 1),
                               b \in Upto(Deciding, 2), t \in Upto(Deciding, 1)}
    \cup {Program(<<>>, <<>>, <<>>)}

Samples == {-32768, -129, -128, -9, -8, -2, -1, 0, 1, 2, 3, 7, 10, 16, 99, 127, 128, 255, 256,
            10000, 32767}
Compares == {{"GREATER_THAN"}, {"SMALLER_THAN"}, {"NOT_EQUAL"},
             {"GREATER_THAN", "EQUAL_TO"}, {"SMALLER_THAN", "EQUAL_TO"}}
Numbers ==
    [kind : {"equal"}, style : Styles, e : Samples, a : Samples, msg : {FALSE}]
    \cup [kind : {"bits"}, mask : {0, 1, 5, 255, 256, -1}, e : {0, 1, 4, 256, -1}, a : Samples,
          msg : {TRUE}]
    \cup UNION {[kind : {"order"}, style : {style}, compare : Compares, e : Ends(style),
                 a : Ends(style), msg : {FALSE}] : style \in Styles}
    \cup UNION {[kind : {"within"}, style : {style}, e : Ends(style), a : Ends(style),
                 delta : {0, 1, 2^(style.bytes * ByteBits - 1), 2^(style.bytes * ByteBits) - 1},
                 msg : {FALSE}] : style \in Styles}

-----------------------------------------------------------------------------
(* Objects at addresses of their own; 0 is NULL.                           *)
Null == [at |-> 0, data |-> <<>>, holds |-> <<>>]
Array(at, style, numbers) ==
    [at |-> at, data |-> FlattenSeq([k \in 1 .. Len(numbers) |-> Bytes(style.bytes, numbers[k])]),
     holds |-> numbers]
Text(at, s) == [at |-> at, data |-> s, holds |-> <<>>]

Few(style) == {Lowest(style), IF IsInt(style) THEN -1 ELSE Highest(style), 1}
Pairs(style) == [1 .. 2 -> Few(style)]
ArraysOf(style, at) == {Array(at, style, numbers) : numbers \in Pairs(style)}
Arrays ==
    UNION {[kind : {"equal array"}, style : {style}, expected : ArraysOf(style, 2) \cup {Null},
            actual : ArraysOf(style, 3) \cup ArraysOf(style, 2) \cup {Null},
            n : {0, 1, 2}, each : {FALSE}, msg : {FALSE}]
           \cup [kind : {"array within"}, style : {style}, expected : ArraysOf(style, 2) \cup {Null},
                 actual : ArraysOf(style, 3) \cup {Null}, n : {0, 2}, each : {FALSE},
                 delta : {0, 2, 2^(style.bytes * ByteBits - 1)}, msg : {FALSE}]
           \cup [kind : {"equal array"}, style : {style}, n : {1, 2}, each : {TRUE},
                 expected : {NumToPtr(x, style.bytes) : x \in Few(style)},
                 actual : ArraysOf(style, 3) \cup {Null}, msg : {TRUE}]
           : style \in Styles}
OneObject(c) == c.expected.at # c.actual.at \/ c.expected = c.actual

Letters == {97, 10, 1, 17, -1}
Texts(at) == {Text(at, s) : s \in Upto(Letters, 2)} \cup {Null}
Several(at) == {[at |-> at, items |-> <<Text(10, <<97>>), t>>] : t \in Texts(10 + at)}
Nothing == [at |-> 0, items |-> <<>>]
Strings ==
    [kind : {"equal string", "not equal string"}, expected : Texts(2),
     actual : Texts(2) \cup Texts(3), msg : {FALSE}]
    \cup [kind : {"equal string len", "not equal string len"}, expected : Texts(2),
          actual : Texts(3), length : 0 .. 3, msg : {FALSE}]
    \cup [kind : {"equal strings"}, wanted : Several(2) \cup {Nothing},
          given : Several(3) \cup Several(2) \cup {Nothing}, n : 0 .. 2, each : {FALSE},
          msg : {FALSE}]
    \cup [kind : {"equal strings"}, given : Several(3) \cup {Nothing}, n : {1, 2}, each : {TRUE},
          wanted : {[at |-> 14, items |-> <<t>>] : t \in Texts(14) \ {Null}}, msg : {FALSE}]
OneString(c) ==
    IF c.kind = "equal strings" THEN c.wanted.at # c.given.at \/ c.wanted = c.given ELSE OneObject(c)

Blocks(at, n) == {Text(at, s) : s \in [1 .. n -> {0, 1}]}
Memory ==
    [kind : {"equal memory"}, expected : Blocks(2, 4) \cup {Null},
     actual : Blocks(3, 4) \cup Blocks(2, 4) \cup {Null}, n : 0 .. 2, length : 0 .. 2,
     each : {FALSE}, msg : {FALSE}]
    \cup [kind : {"equal memory"}, expected : Blocks(2, 2), actual : Blocks(3, 4) \cup {Null},
          n : {1, 2}, length : {1, 2}, each : {TRUE}, msg : {TRUE}]
    \cup [kind : {"not equal memory"}, expected : Blocks(2, 2) \cup {Null},
          actual : Blocks(3, 2) \cup Blocks(2, 2) \cup {Null}, length : 0 .. 2, msg : BOOLEAN]

-----------------------------------------------------------------------------
Specials == {Special("NaN"), Special("Inf"), Special("NegInf")}
(* Of these a hundred thousandth is exact; of other positive floats it may *)
(* be cut to millionths, since they differ by whole ones.                  *)
Round == {Finite(10^5 * n) : n \in {-10000, -10, 0, 1, 10, 11, 9950}} \cup Specials
Close == Round \cup {Finite(n) : n \in {1000010, 1000011, -1000011, 99999, 1, 10, 90}}
Printed == {Finite(s * n) : s \in {1, -1},
                n \in {1, 9, 10, 11, 20, 99, 100, 105, 999, 99500, 123456, 99999, 994999, 995000,
                       999999, 1950000, 1949999, 9999999, 11500000, 12345678, 99499999, 99500000,
                       99999999, 100000000, 104999999, 105000001, 994999999, 995000001, 999999999}}
Deltas == {Finite(0), Finite(1), Finite(-1), Finite(100000)} \cup Specials
FloatArrays(at) == {[at |-> at, floats |-> <<f, g>>] :
                       f \in {Finite(0), Finite(10^6), Special("NaN")}, g \in Round}
NoFloats == [at |-> 0, floats |-> <<>>]
Floats ==
    [kind : {"float within", "float not within"}, fe : Round, fa : Close,
     fdelta : Deltas \ {Special("NaN")}, msg : {FALSE}]
    \cup {[kind |-> "float within", fe |-> e, fa |-> a, fdelta |-> EqualDelta(e), msg |-> TRUE] :
             e \in Round \ {Special("NaN")}, a \in Close}
    \cup [kind : {"float within"}, fe : Printed \cup {Special("Inf")}, fa : Printed,
          fdelta : {Finite(0)}, msg : {FALSE}]
    \cup {[kind |-> "float array", fdelta |-> Finite(0), n |-> 2, each |-> FALSE, msg |-> FALSE,
           fexpected |-> [at |-> 2, floats |-> <<Finite(0), e>>],
           factual |-> [at |-> 3, floats |-> <<Finite(0), a>>]] :
             e \in {f \in Printed : f.num > 0}, a \in Printed}
    \cup [kind : {"float order"}, fe : Round, fa : Close, compare : Compares \ {{"NOT_EQUAL"}},
          msg : {FALSE}]
    \cup [kind : {"float special"}, fa : Round, should : BOOLEAN, msg : {FALSE},
          trait : {"Infinity", "Negative Infinity", "NaN", "Determinate", "Invalid"}]
    \cup [kind : {"float array"}, fdelta : Deltas, n : {0, 2}, each : BOOLEAN, msg : {FALSE},
          fexpected : FloatArrays(2) \cup {NoFloats}, factual : FloatArrays(3) \cup {NoFloats}]
    \cup {[kind |-> "float array", fdelta |-> d, n |-> 2, each |-> FALSE, msg |-> FALSE,
           fexpected |-> f, factual |-> f] : d \in Deltas, f \in FloatArrays(2)}

MCSuites ==
    <<Sequences, Alone(Numbers), Alone({c \in Arrays : OneObject(c)}),
      Alone({c \in Memory : OneObject(c)}), Alone({c \in Strings : OneString(c)}),
      Alone(Floats)>>
=============================================================================
