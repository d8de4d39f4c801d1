----------------------------- MODULE UnityProofs -----------------------------
(***************************************************************************)
(* The verdicts of a test program: for any tests, each that has run is in  *)
(* the output once, in order and with what was decided, the counters count *)
(* those lines, and nothing that is called later changes a decision.       *)
(***************************************************************************)
EXTENDS UnityMeaning, FiniteSetTheorems, TLAPS

(* Text that gives no verdict, and text with the verdict of test n.        *)
Sequence(s) == \E Items : s \in Seq(Items)
Plain(text) == Sequence(text) /\ VerdictsIn(text) = {}
OneVerdict(text, word, n) ==
    /\ Sequence(text)
    /\ \E j \in 1 .. Len(text) :
           /\ VerdictsIn(text) = {j}
           /\ text[j].label = word /\ text[j].shown = <<n>>

(* Lines with the verdicts of n tests, of which f failed and g were ignored. *)
Book(lines, n, f, g) ==
    /\ Sequence(lines)
    /\ OneInOrder(lines)
    /\ Cardinality(VerdictLines(lines)) = n
    /\ Cardinality(LinesWith("FAIL", lines)) = f
    /\ Cardinality(LinesWith("IGNORE", lines)) = g

LEMMA Concatenation ==
    ASSUME NEW s, NEW t, Sequence(s), Sequence(t)
    PROVE  /\ Sequence(s \o t)
           /\ Len(s) \in Nat /\ Len(t) \in Nat /\ Len(s \o t) = Len(s) + Len(t)
           /\ \A j \in 1 .. Len(s \o t) :
                  (s \o t)[j] = IF j <= Len(s) THEN s[j] ELSE t[j - Len(s)]
<1>1. PICK Items : s \in Seq(Items)
  BY DEF Sequence
<1>2. PICK T : t \in Seq(T)
  BY DEF Sequence
<1>3. s \in Seq(Items \cup T) /\ t \in Seq(Items \cup T)
  BY <1>1, <1>2
<1>4. s \o t \in Seq(Items \cup T)
  BY <1>3
<1> QED BY <1>3, <1>4 DEF Sequence

LEMMA PlainText ==
    /\ Plain(<<>>)
    /\ \A label, shown : label \notin VerdictWords => Plain(<<Label(label, shown)>>)
    /\ \A s, t : Plain(s) /\ Plain(t) => Plain(s \o t)
<1>1. Plain(<<>>)
  <2>1. <<>> \in Seq({})
    OBVIOUS
  <2> QED BY <2>1 DEF Plain, Sequence, VerdictsIn
<1>2. ASSUME NEW label, NEW shown, label \notin VerdictWords PROVE Plain(<<Label(label, shown)>>)
  <2> DEFINE part == Label(label, shown)
  <2>1. part.label = label
    BY DEF Label
  <2> HIDE DEF part
  <2>2. <<part>> \in Seq({part}) /\ Len(<<part>>) = 1 /\ <<part>>[1] = part
    OBVIOUS
  <2>3. VerdictsIn(<<part>>) = {}
    BY <1>2, <2>1, <2>2 DEF VerdictsIn
  <2>4. Plain(<<part>>)
    BY <2>2, <2>3 DEF Plain, Sequence
  <2> QED BY <2>4 DEF part
<1>3. ASSUME NEW s, NEW t, Plain(s), Plain(t) PROVE Plain(s \o t)
  <2>1. Sequence(s) /\ Sequence(t)
    BY <1>3 DEF Plain
  <2>2. ASSUME NEW j \in 1 .. Len(s \o t) PROVE (s \o t)[j].label \notin VerdictWords
    <3>1. PICK m \in Nat, n \in Nat : m = Len(s) /\ n = Len(t) /\ Len(s \o t) = m + n
      BY <2>1, Concatenation
    <3>2. CASE j <= m
      <4>1. (s \o t)[j] = s[j] /\ j \in 1 .. Len(s)
        BY <2>1, <3>1, <3>2, Concatenation
      <4> QED BY <1>3, <4>1 DEF Plain, VerdictsIn
    <3>3. CASE j > m
      <4>1. (s \o t)[j] = t[j - m] /\ j - m \in 1 .. Len(t)
        BY <2>1, <3>1, <3>3, Concatenation
      <4> QED BY <1>3, <4>1 DEF Plain, VerdictsIn
    <3> QED BY <3>1, <3>2, <3>3
  <2>3. Sequence(s \o t)
    BY <2>1, Concatenation
  <2> QED BY <2>2, <2>3 DEF Plain, VerdictsIn
<1> QED BY <1>1, <1>2, <1>3

(* What follows a verdict on its line, or stands before it, is plain.      *)
LEMMA VerdictText ==
    ASSUME NEW word \in VerdictWords, NEW n
    PROVE  /\ OneVerdict(<<Label(word, <<n>>)>>, word, n)
           /\ \A s, t : OneVerdict(s, word, n) /\ Plain(t) => OneVerdict(s \o t, word, n)
<1>1. OneVerdict(<<Label(word, <<n>>)>>, word, n)
  <2> DEFINE part == Label(word, <<n>>)
  <2>1. part.label = word /\ part.shown = <<n>>
    BY DEF Label
  <2> HIDE DEF part
  <2>2. <<part>> \in Seq({part}) /\ Len(<<part>>) = 1 /\ <<part>>[1] = part
    OBVIOUS
  <2>3. VerdictsIn(<<part>>) = {1}
    BY <2>1, <2>2 DEF VerdictsIn
  <2>4. Sequence(<<part>>)
    BY <2>2 DEF Sequence
  <2>5. 1 \in 1 .. Len(<<part>>) /\ <<part>>[1].label = word /\ <<part>>[1].shown = <<n>>
    BY <2>1, <2>2
  <2>6. OneVerdict(<<part>>, word, n)
    BY <2>3, <2>4, <2>5 DEF OneVerdict
  <2> QED BY <2>6 DEF part
<1>2. ASSUME NEW s, NEW t, OneVerdict(s, word, n), Plain(t) PROVE OneVerdict(s \o t, word, n)
  <2>1. Sequence(s) /\ Sequence(t)
    BY <1>2 DEF OneVerdict, Plain
  <2>2. PICK a \in Nat, b \in Nat : a = Len(s) /\ b = Len(t) /\ Len(s \o t) = a + b
    BY <2>1, Concatenation
  <2>3. PICK k \in 1 .. a :
            VerdictsIn(s) = {k} /\ s[k].label = word /\ s[k].shown = <<n>>
    BY <1>2, <2>2 DEF OneVerdict
  <2>4. (s \o t)[k] = s[k] /\ k \in 1 .. Len(s \o t)
    BY <2>1, <2>2, Concatenation
  <2>5. ASSUME NEW j \in 1 .. Len(s \o t), j # k PROVE (s \o t)[j].label \notin VerdictWords
    <3>1. CASE j <= a
      <4>1. (s \o t)[j] = s[j] /\ j \in 1 .. Len(s)
        BY <2>1, <2>2, <3>1, Concatenation
      <4> QED BY <2>3, <2>5, <4>1 DEF VerdictsIn
    <3>2. CASE j > a
      <4>1. (s \o t)[j] = t[j - a] /\ j - a \in 1 .. Len(t)
        BY <2>1, <2>2, <3>2, Concatenation
      <4> QED BY <1>2, <4>1 DEF Plain, VerdictsIn
    <3> QED BY <2>2, <3>1, <3>2
  <2>6. VerdictsIn(s \o t) = {k}
    BY <2>3, <2>4, <2>5 DEF VerdictsIn
  <2>7. Sequence(s \o t)
    BY <2>1, Concatenation
  <2> QED BY <2>3, <2>4, <2>6, <2>7 DEF OneVerdict
<1> QED BY <1>1, <1>2

-----------------------------------------------------------------------------
(* The lines of the output.                                                *)
LEMMA Lines ==
    ASSUME NEW lines, Sequence(lines), NEW text
    PROVE  /\ Sequence(Append(lines, text))
           /\ Len(lines) \in Nat /\ Len(Append(lines, text)) = Len(lines) + 1
           /\ \A k \in 1 .. Len(lines) : Append(lines, text)[k] = lines[k]
           /\ Append(lines, text)[Len(lines) + 1] = text
           /\ IsFiniteSet(VerdictLines(lines))
           /\ \A k \in Int : IsFiniteSet(LinesUpTo(k, lines))
           /\ \A word : IsFiniteSet(LinesWith(word, lines))
           /\ VerdictLines(lines) \subseteq 1 .. Len(lines)
<1>1. PICK Items : lines \in Seq(Items)
  BY DEF Sequence
<1>2. lines \in Seq(Items \cup {text})
  BY <1>1
<1>3. /\ Append(lines, text) \in Seq(Items \cup {text})
      /\ Len(lines) \in Nat /\ Len(Append(lines, text)) = Len(lines) + 1
      /\ \A k \in 1 .. Len(lines) : Append(lines, text)[k] = lines[k]
      /\ Append(lines, text)[Len(lines) + 1] = text
  BY <1>2
<1>4. VerdictLines(lines) \subseteq 1 .. Len(lines)
  BY DEF VerdictLines
<1>5. IsFiniteSet(VerdictLines(lines))
  <2>1. IsFiniteSet(1 .. Len(lines))
    BY <1>3, FS_Interval
  <2> QED BY <1>4, <2>1, FS_Subset
<1>6. ASSUME NEW k \in Int PROVE IsFiniteSet(LinesUpTo(k, lines))
  <2>1. LinesUpTo(k, lines) \subseteq VerdictLines(lines)
    BY DEF LinesUpTo
  <2> QED BY <1>5, <2>1, FS_Subset
<1>7. ASSUME NEW word PROVE IsFiniteSet(LinesWith(word, lines))
  <2>1. LinesWith(word, lines) \subseteq VerdictLines(lines)
    BY DEF LinesWith
  <2> QED BY <1>5, <2>1, FS_Subset
<1>8. Sequence(Append(lines, text))
  BY <1>3 DEF Sequence
<1> QED BY <1>3, <1>4, <1>5, <1>6, <1>7, <1>8

(* A line without a verdict changes nothing in the book.                   *)
LEMMA PlainLine ==
    ASSUME NEW lines, NEW n, NEW f, NEW g, Book(lines, n, f, g), NEW text, Plain(text)
    PROVE  Book(Append(lines, text), n, f, g)
<1> DEFINE more == Append(lines, text)
<1>1. Sequence(lines)
  BY DEF Book
<1>2. PICK m \in Nat : m = Len(lines)
  BY <1>1, Lines
<1>3. /\ Sequence(more) /\ Len(more) = m + 1 /\ more[m + 1] = text
      /\ \A k \in 1 .. m : more[k] = lines[k]
  BY <1>1, <1>2, Lines
<1> HIDE DEF more
<1>4. VerdictsIn(more[m + 1]) = {}
  BY <1>3 DEF Plain
<1>5. VerdictLines(more) = VerdictLines(lines)
  BY <1>2, <1>3, <1>4 DEF VerdictLines
<1>6. \A k \in VerdictLines(lines) : more[k] = lines[k]
  BY <1>2, <1>3 DEF VerdictLines
<1>7. \A word : LinesWith(word, more) = LinesWith(word, lines)
  BY <1>5, <1>6 DEF LinesWith
<1>8. \A k : LinesUpTo(k, more) = LinesUpTo(k, lines)
  BY <1>5 DEF LinesUpTo
<1>9. OneInOrder(more)
  BY <1>5, <1>6, <1>8 DEF Book, OneInOrder
<1>10. Book(more, n, f, g)
  BY <1>3, <1>5, <1>7, <1>9 DEF Book
<1> QED BY <1>10 DEF more

(* A line with the next test's verdict is counted.                         *)
LEMMA VerdictLine ==
    ASSUME NEW lines, NEW n \in Nat, NEW f \in Nat, NEW g \in Nat, Book(lines, n, f, g),
           NEW text, NEW word \in VerdictWords, OneVerdict(text, word, n + 1)
    PROVE  Book(Append(lines, text), n + 1, IF word = "FAIL" THEN f + 1 ELSE f,
                                            IF word = "IGNORE" THEN g + 1 ELSE g)
<1> DEFINE more == Append(lines, text)
<1>1. Sequence(lines)
  BY DEF Book
<1>2. PICK m \in Nat : m = Len(lines)
  BY <1>1, Lines
<1>3. /\ Sequence(more) /\ Len(more) = m + 1 /\ more[m + 1] = text
      /\ \A k \in 1 .. m : more[k] = lines[k]
  BY <1>1, <1>2, Lines
<1> HIDE DEF more
<1>4. PICK j : /\ j \in 1 .. Len(text) /\ VerdictsIn(text) = {j}
               /\ text[j].label = word /\ text[j].shown = <<n + 1>>
  BY DEF OneVerdict
<1>5. VerdictLines(more) = VerdictLines(lines) \cup {m + 1}
  <2>1. VerdictsIn(more[m + 1]) # {}
    BY <1>3, <1>4
  <2>2. \A k \in 1 .. m + 1 : k \in 1 .. m \/ k = m + 1
    OBVIOUS
  <2>3. m + 1 \in 1 .. m + 1 /\ 1 .. m \subseteq 1 .. m + 1
    OBVIOUS
  <2> QED BY <1>2, <1>3, <2>1, <2>2, <2>3 DEF VerdictLines
<1>6. m + 1 \notin VerdictLines(lines) /\ \A k \in VerdictLines(lines) : k \in 1 .. m
  BY <1>2 DEF VerdictLines
<1>7. \A k \in VerdictLines(lines) : more[k] = lines[k]
  BY <1>3, <1>6
<1>8. Cardinality(VerdictLines(more)) = n + 1
  BY <1>1, <1>5, <1>6, Lines, FS_AddElement DEF Book
<1>9. ASSUME NEW w
      PROVE  LinesWith(w, more) = IF w = word THEN LinesWith(w, lines) \cup {m + 1}
                                              ELSE LinesWith(w, lines)
  <2>1. (\E i \in VerdictsIn(more[m + 1]) : more[m + 1][i].label = w) <=> w = word
    BY <1>3, <1>4
  <2> QED BY <1>5, <1>6, <1>7, <2>1 DEF LinesWith
<1>10. ASSUME NEW w
       PROVE  Cardinality(LinesWith(w, more)) = IF w = word THEN Cardinality(LinesWith(w, lines)) + 1
                                                          ELSE Cardinality(LinesWith(w, lines))
  <2>1. m + 1 \notin LinesWith(w, lines)
    BY <1>6 DEF LinesWith
  <2>2. IsFiniteSet(LinesWith(w, lines))
    BY <1>1, Lines
  <2> QED BY <1>9, <2>1, <2>2, FS_AddElement
<1>11. OneInOrder(more)
  <2>1. ASSUME NEW k \in VerdictLines(lines)
        PROVE  LinesUpTo(k, more) = LinesUpTo(k, lines)
    BY <1>5, <1>6 DEF LinesUpTo
  <2>2. LinesUpTo(m + 1, more) = VerdictLines(more)
    BY <1>5, <1>6 DEF LinesUpTo
  <2>3. VerdictsIn(more[m + 1]) = {j} /\ more[m + 1][j].shown = <<Cardinality(LinesUpTo(m + 1, more))>>
    BY <1>3, <1>4, <1>8, <2>2
  <2>4. ASSUME NEW k \in VerdictLines(more)
        PROVE  \E i \in VerdictsIn(more[k]) :
                   /\ VerdictsIn(more[k]) = {i}
                   /\ more[k][i].shown = <<Cardinality(LinesUpTo(k, more))>>
    <3>1. CASE k = m + 1
      BY <2>3, <3>1
    <3>2. CASE k \in VerdictLines(lines)
      BY <1>7, <2>1, <3>2 DEF Book, OneInOrder
    <3> QED BY <1>5, <3>1, <3>2
  <2> QED BY <2>4 DEF OneInOrder
<1>12. /\ Cardinality(LinesWith("FAIL", more)) = IF word = "FAIL" THEN f + 1 ELSE f
       /\ Cardinality(LinesWith("IGNORE", more)) = IF word = "IGNORE" THEN g + 1 ELSE g
  BY <1>10 DEF Book
<1>13. Book(more, n + 1, IF word = "FAIL" THEN f + 1 ELSE f, IF word = "IGNORE" THEN g + 1 ELSE g)
  BY <1>3, <1>8, <1>11, <1>12 DEF Book
<1> QED BY <1>13 DEF more

-----------------------------------------------------------------------------
(* What an assertion reports is no verdict: the runner puts the word FAIL  *)
(* in front of it.                                                         *)
Quiet(r) == Plain(r.report)

LEMMA Labels ==
    ASSUME NEW shown
    PROVE  /\ Plain(<<Label("Expected", shown)>>) /\ Plain(<<Label("Was", shown)>>)
           /\ Plain(<<Label("threshold", shown)>>) /\ Plain(<<Label("delta", shown)>>)
           /\ Plain(<<Label("Element", shown)>>) /\ Plain(<<Label("Character", shown)>>)
           /\ Plain(<<Label("Byte", shown)>>) /\ Plain(<<Label("INFO", shown)>>)
           /\ Plain(<<Label("not equal", shown)>>)
<1>1. \A label : label \notin VerdictWords => Plain(<<Label(label, shown)>>)
  BY PlainText
<1>2. /\ "Expected" \notin VerdictWords /\ "Was" \notin VerdictWords
      /\ "threshold" \notin VerdictWords /\ "delta" \notin VerdictWords
      /\ "Element" \notin VerdictWords /\ "Character" \notin VerdictWords
      /\ "Byte" \notin VerdictWords /\ "INFO" \notin VerdictWords
      /\ "not equal" \notin VerdictWords
  BY Zenon DEF VerdictWords
<1> QED BY <1>1, <1>2, Zenon

LEMMA Sayings ==
    /\ Plain(<<Say("message")>>) /\ Plain(<<Say("pointless")>>)
    /\ Plain(<<Say("expected NULL")>>) /\ Plain(<<Say("actual NULL")>>)
    /\ Plain(<<Say("to be different")>>) /\ Plain(<<Say("Expected")>>)
    /\ Plain(<<Say("Memory Mismatch")>>) /\ Plain(<<Say("Not")>>)
<1>1. \A label : label \notin VerdictWords => Plain(<<Say(label)>>)
  BY PlainText, Zenon DEF Say
<1>2. /\ "message" \notin VerdictWords /\ "pointless" \notin VerdictWords
      /\ "expected NULL" \notin VerdictWords /\ "actual NULL" \notin VerdictWords
      /\ "to be different" \notin VerdictWords /\ "Expected" \notin VerdictWords
      /\ "Memory Mismatch" \notin VerdictWords /\ "Not" \notin VerdictWords
  BY Zenon DEF VerdictWords
<1> QED BY <1>1, <1>2, Zenon

LEMMA Traits ==
    ASSUME NEW trait \in {"Infinity", "Negative Infinity", "NaN", "Determinate", "Invalid"}
    PROVE  Plain(<<Say(trait)>>)
<1>1. trait \notin VerdictWords
  BY Zenon DEF VerdictWords
<1> QED BY <1>1, PlainText, Zenon DEF Say

LEMMA PlainWords ==
    ASSUME NEW compare, IsFiniteSet(compare)
    PROVE  Plain(Words(compare))
<1> DEFINE Word(j) == IF "GREATER_THAN" \in compare /\ j = 1 THEN "greater"
                      ELSE IF "SMALLER_THAN" \in compare /\ j = 1 THEN "less"
                      ELSE IF "EQUAL_TO" \in compare THEN "or equal" ELSE "not equal"
           n == Cardinality(compare)
<1>1. n \in Nat
  BY FS_CardinalityType
<1>2. \A j : Word(j) \notin VerdictWords
  <2>1. \A j : Word(j) \in {"greater", "less", "or equal", "not equal"}
    BY Zenon
  <2>2. \A word \in {"greater", "less", "or equal", "not equal"} : word \notin VerdictWords
    BY Zenon DEF VerdictWords
  <2> QED BY <2>1, <2>2, Zenon
<1>3. Words(compare) = [j \in 1 .. n |-> Say(Word(j))]
  BY Zenon DEF Words
<1> HIDE DEF Word, n
<1> DEFINE words == [j \in 1 .. n |-> Say(Word(j))]
           Items == {Say(Word(j)) : j \in 1 .. n}
<1>4. words \in Seq(Items) /\ Len(words) = n
  BY <1>1
<1>5. \A j \in 1 .. n : words[j].label \notin VerdictWords
  BY <1>2 DEF Say, Label
<1>6. Plain(words)
  BY <1>4, <1>5 DEF Plain, Sequence, VerdictsIn
<1> QED BY <1>3, <1>6

(* A passing answer says nothing; a failing one adds only the message.     *)
LEMMA Answers ==
    ASSUME NEW c
    PROVE  /\ Quiet(Pass) /\ Quiet(Pointless(c))
           /\ \A report : Plain(report) => Quiet(Fail(c, report))
           /\ \A expected : Quiet(NullFails(c, expected))
<1>1. Plain(AddMsgIfSpecified(c))
  BY PlainText, Sayings, Zenon DEF AddMsgIfSpecified
<1>2. Quiet(Pass)
  BY PlainText DEF Quiet, Pass
<1>3. ASSUME NEW report, Plain(report) PROVE Quiet(Fail(c, report))
  BY <1>1, <1>3, PlainText DEF Quiet, Fail
<1>4. Quiet(Pointless(c))
  BY <1>3, Sayings, Zenon DEF Pointless
<1>5. ASSUME NEW expected PROVE Quiet(NullFails(c, expected))
  <2>1. \/ NullFails(c, expected) = Fail(c, <<Say("expected NULL")>>)
        \/ NullFails(c, expected) = Fail(c, <<Say("actual NULL")>>)
    BY Zenon DEF NullFails
  <2> QED BY <1>3, <2>1, Sayings, Zenon
<1> QED BY <1>2, <1>3, <1>4, <1>5

LEMMA FailIfQuiet ==
    ASSUME NEW condition, NEW c, NEW report, Plain(report)
    PROVE  Quiet(FailIf(condition, c, report))
<1>1. Quiet(Pass) /\ Quiet(Fail(c, report))
  BY Answers
<1> QED BY <1>1, Zenon DEF FailIf

LEMMA PlainCompared ==
    ASSUME NEW expected, NEW was
    PROVE  Plain(Compared(expected, was))
<1>1. Compared(expected, was) = <<Label("Expected", expected)>> \o <<Label("Was", was)>>
  BY DEF Compared
<1> QED BY <1>1, Labels, PlainText, Zenon

LEMMA TwoParts ==
    ASSUME NEW a, NEW b
    PROVE  <<a>> \o <<b>> = <<a, b>>
<1> DEFINE s == <<a>> \o <<b>>
<1>1. <<a>> \in Seq({a, b}) /\ <<b>> \in Seq({a, b})
  OBVIOUS
<1>2. s \in Seq({a, b}) /\ Len(s) = 2 /\ s[1] = a /\ s[2] = b
  BY <1>1
<1>3. <<a, b>> \in Seq({a, b}) /\ Len(<<a, b>>) = 2
  OBVIOUS
<1> HIDE DEF s
<1>4. s = <<a, b>>
  <2>1. s = [k \in 1 .. 2 |-> s[k]] /\ <<a, b>> = [k \in 1 .. 2 |-> <<a, b>>[k]]
    BY <1>2, <1>3
  <2>2. \A k \in 1 .. 2 : s[k] = <<a, b>>[k]
    BY <1>2
  <2> QED BY <2>1, <2>2
<1> QED BY <1>4 DEF s

LEMMA ThreeParts ==
    ASSUME NEW a, NEW b, NEW d
    PROVE  <<a>> \o <<b>> \o <<d>> = <<a, b, d>>
<1> DEFINE s == <<a, b>> \o <<d>>
           Items == {a, b, d}
<1>1. <<a, b>> \in Seq(Items) /\ Len(<<a, b>>) = 2 /\ <<d>> \in Seq(Items)
  OBVIOUS
<1>2. s \in Seq(Items) /\ Len(s) = 3 /\ s[1] = a /\ s[2] = b /\ s[3] = d
  BY <1>1
<1>3. <<a, b, d>> \in Seq(Items) /\ Len(<<a, b, d>>) = 3
  OBVIOUS
<1> HIDE DEF s, Items
<1>4. s = <<a, b, d>>
  <2>1. s = [k \in 1 .. 3 |-> s[k]] /\ <<a, b, d>> = [k \in 1 .. 3 |-> <<a, b, d>>[k]]
    BY <1>2, <1>3
  <2>2. \A k \in 1 .. 3 : s[k] = <<a, b, d>>[k]
    BY <1>2
  <2> QED BY <2>1, <2>2
<1> QED BY <1>4, TwoParts DEF s

LEMMA FourLines ==
    ASSUME NEW lines, Sequence(lines), NEW a, NEW b, NEW d, NEW e
    PROVE  lines \o <<a, b, d, e>> = Append(Append(Append(Append(lines, a), b), d), e)
<1>1. PICK Items : lines \in Seq(Items)
  BY DEF Sequence
<1> DEFINE T == Items \cup {a, b, d, e}
           t == <<a, b, d, e>>
<1>2. lines \in Seq(T) /\ t \in Seq(T) /\ Len(t) = 4 /\ t[1] = a /\ t[2] = b /\ t[3] = d /\ t[4] = e
  BY <1>1
<1>3. a \in T /\ b \in T /\ d \in T /\ e \in T
  OBVIOUS
<1> HIDE DEF T, t
<1>4. PICK n \in Nat : n = Len(lines)
  BY <1>2
<1>5. PICK q : q = lines \o t
  OBVIOUS
<1>6. /\ q \in Seq(T) /\ Len(q) = n + 4
      /\ \A k \in 1 .. n : q[k] = lines[k]
      /\ q[n + 1] = a /\ q[n + 2] = b /\ q[n + 3] = d /\ q[n + 4] = e
  <2>1. Sequence(t)
    BY <1>2 DEF Sequence
  <2>2. q \in Seq(T)
    BY <1>2, <1>5
  <2>3. Len(q) = n + 4 /\ \A j \in 1 .. Len(q) : q[j] = IF j <= n THEN lines[j] ELSE t[j - n]
    BY <1>2, <1>4, <1>5, <2>1, Concatenation
  <2>4. q[n + 1] = t[1] /\ q[n + 2] = t[2] /\ q[n + 3] = t[3] /\ q[n + 4] = t[4]
    BY <2>3
  <2>5. \A k \in 1 .. n : q[k] = lines[k]
    BY <2>3
  <2> QED BY <1>2, <2>2, <2>3, <2>4, <2>5
<1>7. PICK r : r = Append(Append(Append(Append(lines, a), b), d), e)
  OBVIOUS
<1>8. /\ r \in Seq(T) /\ Len(r) = n + 4
      /\ \A k \in 1 .. n : r[k] = lines[k]
      /\ r[n + 1] = a /\ r[n + 2] = b /\ r[n + 3] = d /\ r[n + 4] = e
  BY <1>2, <1>3, <1>4, <1>7
<1>9. \A k \in 1 .. n + 4 : k \in 1 .. n \/ k = n + 1 \/ k = n + 2 \/ k = n + 3 \/ k = n + 4
  OBVIOUS
<1>10. \A k \in 1 .. n + 4 : q[k] = r[k]
  BY <1>6, <1>8, <1>9
<1>11. q = [k \in 1 .. n + 4 |-> q[k]] /\ r = [k \in 1 .. n + 4 |-> r[k]]
  BY <1>6, <1>8
<1>12. q = r
  BY <1>10, <1>11
<1> QED BY <1>5, <1>7, <1>12 DEF t

LEMMA PlainDifference ==
    ASSUME NEW s, NEW t, NEW i
    PROVE  Plain(PrintFirstStringDifference(s, t, i))
<1>1. Plain(<<>>) /\ Plain(<<Label("Character", PrintNumberUnsigned(i))>>)
  BY PlainText, Labels
<1>2. Plain(Compared(PrintQuoted(Byte(s, i)), PrintQuoted(Byte(t, i))))
  BY PlainCompared
<1>3. Plain(<<Label("Character", PrintNumberUnsigned(i))>>
            \o Compared(PrintQuoted(Byte(s, i)), PrintQuoted(Byte(t, i))))
  BY <1>1, <1>2, PlainText
<1> QED BY <1>1, <1>3, Zenon DEF PrintFirstStringDifference

LEMMA NumbersQuiet ==
    ASSUME NEW c
    PROVE  /\ Quiet(AssertBits(c)) /\ Quiet(AssertEqualNumber(c))
           /\ Quiet(AssertNumbersWithin(c))
           /\ IsFiniteSet(c.compare) => Quiet(AssertGreaterOrLessOrEqualNumber(c))
<1>1. Quiet(AssertBits(c))
  BY FailIfQuiet, PlainCompared DEF AssertBits
<1>2. Quiet(AssertEqualNumber(c))
  BY FailIfQuiet, PlainCompared DEF AssertEqualNumber
<1>3. Quiet(AssertNumbersWithin(c))
  <2>1. \A d, e, w : Plain(<<Label("delta", d)>> \o Compared(e, w))
    BY Labels, PlainCompared, PlainText
  <2> QED BY <2>1, FailIfQuiet DEF AssertNumbersWithin
<1>4. ASSUME IsFiniteSet(c.compare) PROVE Quiet(AssertGreaterOrLessOrEqualNumber(c))
  <2>1. \A e, w : Plain(<<Label("Expected", e)>> \o Words(c.compare) \o <<Label("threshold", w)>>)
    BY <1>4, Labels, PlainWords, PlainText
  <2> QED BY <2>1, FailIfQuiet DEF AssertGreaterOrLessOrEqualNumber
<1> QED BY <1>1, <1>2, <1>3, <1>4

LEMMA ArraysQuiet ==
    ASSUME NEW c
    PROVE  Quiet(AssertEqualIntArray(c)) /\ Quiet(AssertNumbersArrayWithin(c))
<1>1. Quiet(AssertEqualIntArray(c))
  <2>1. \A e, x, y : Plain(<<Label("Element", e)>> \o Compared(x, y))
    BY Labels, PlainCompared, PlainText
  <2> QED BY <2>1, FailIfQuiet, Answers, Zenon DEF AssertEqualIntArray
<1>2. Quiet(AssertNumbersArrayWithin(c))
  <2>1. \A d, e, x, y :
            Plain(<<Label("delta", d), Label("Element", e)>> \o Compared(x, y))
    <3> TAKE d, e, x, y
    <3>1. <<Label("delta", d), Label("Element", e)>> = <<Label("delta", d)>> \o <<Label("Element", e)>>
      OBVIOUS
    <3> QED BY <3>1, Labels, PlainCompared, PlainText
  <2> QED BY <2>1, FailIfQuiet, Answers, Zenon DEF AssertNumbersArrayWithin
<1> QED BY <1>1, <1>2

LEMMA StringsQuiet ==
    ASSUME NEW c
    PROVE  /\ Quiet(AssertEqualString(c)) /\ Quiet(AssertEqualStringLen(c))
           /\ Quiet(AssertEqualStringArray(c))
           /\ Quiet(AssertNotEqualString(c)) /\ Quiet(AssertNotEqualStringLen(c))
<1>1. \A e, w, s, t, i : Plain(Compared(e, w) \o PrintFirstStringDifference(s, t, i))
  BY PlainCompared, PlainDifference, PlainText
<1>2. Plain(Different(c))
  BY PlainText, Sayings, Zenon DEF Different
<1>3. Quiet(AssertEqualString(c))
  BY <1>1, FailIfQuiet DEF AssertEqualString, PrintExpectedAndActual
<1>4. Quiet(AssertEqualStringLen(c))
  BY <1>1, FailIfQuiet DEF AssertEqualStringLen, PrintExpectedAndActual
<1>5. Quiet(AssertEqualStringArray(c))
  BY <1>1, FailIfQuiet, Answers, PlainText, Labels, Zenon
     DEF AssertEqualStringArray, PrintExpectedAndActual
<1>6. Quiet(AssertNotEqualString(c))
  <2>1. Plain(<<Say("Expected")>> \o Different(c))
    BY <1>2, Sayings, PlainText
  <2> QED BY <2>1, FailIfQuiet DEF AssertNotEqualString
<1>7. Quiet(AssertNotEqualStringLen(c))
  <2>1. \A e, w, s, t, i : Plain(Compared(e, w) \o PrintFirstStringDifference(s, t, i)
                                 \o Different(c))
    BY <1>1, <1>2, PlainText
  <2> QED BY <2>1, FailIfQuiet, Answers, Zenon DEF AssertNotEqualStringLen, PrintExpectedAndActual
<1> QED BY <1>3, <1>4, <1>5, <1>6, <1>7

LEMMA MemoryQuiet ==
    ASSUME NEW c
    PROVE  Quiet(AssertEqualMemory(c)) /\ Quiet(AssertNotEqualMemory(c))
<1>1. Quiet(AssertEqualMemory(c))
  <2>1. \A b, x, y : Plain(<<Label("Byte", b)>> \o Compared(x, y))
    BY Labels, PlainCompared, PlainText
  <2>2. \A e, b, x, y : Plain(<<Label("Element", e)>> \o <<Label("Byte", b)>> \o Compared(x, y))
    BY Labels, PlainCompared, PlainText
  <2>3. \A e, b, x, y : Plain(<<>> \o <<Label("Byte", b)>> \o Compared(x, y))
    BY Labels, PlainCompared, PlainText
  <2> QED BY <2>2, <2>3, FailIfQuiet, Answers, Zenon DEF AssertEqualMemory
<1>2. Quiet(AssertNotEqualMemory(c))
  <2>1. Plain(Different(c))
    BY PlainText, Sayings, Zenon DEF Different
  <2>2. Plain(<<Say("Memory Mismatch")>> \o Different(c))
    BY <2>1, Sayings, PlainText, Zenon
  <2> QED BY <2>2, FailIfQuiet, Answers, Zenon DEF AssertNotEqualMemory
<1> QED BY <1>1, <1>2

LEMMA FloatsQuiet ==
    ASSUME NEW c
    PROVE  /\ Quiet(AssertFloatsWithin(c)) /\ Quiet(AssertFloatsNotWithin(c))
           /\ Quiet(AssertWithinFloatArray(c))
           /\ IsFiniteSet(c.compare) => Quiet(AssertGreaterOrLessFloat(c))
           /\ c.trait \in {"Infinity", "Negative Infinity", "NaN", "Determinate", "Invalid"}
                  => Quiet(AssertFloatSpecial(c))
<1>1. Quiet(AssertFloatsWithin(c))
  BY FailIfQuiet, PlainCompared DEF AssertFloatsWithin, ComparedFloats
<1>2. Quiet(AssertFloatsNotWithin(c))
  <2>1. \A e, w : Plain(<<Label("Expected", e)>> \o <<Label("not equal", w)>>)
    BY Labels, PlainText, Zenon
  <2>2. \A a, b : <<a>> \o <<b>> = <<a, b>>
    BY TwoParts
  <2>3. \A e, w : Plain(<<Label("Expected", e), Label("not equal", w)>>)
    BY <2>1, <2>2, Zenon
  <2> QED BY <2>3, FailIfQuiet, Zenon DEF AssertFloatsNotWithin
<1>3. Quiet(AssertWithinFloatArray(c))
  <2>1. \A e, x, y : Plain(<<Label("Element", e)>> \o Compared(x, y))
    BY Labels, PlainCompared, PlainText
  <2> QED BY <2>1, FailIfQuiet, Answers, Zenon DEF AssertWithinFloatArray, ComparedFloats
<1>4. ASSUME IsFiniteSet(c.compare) PROVE Quiet(AssertGreaterOrLessFloat(c))
  <2>1. \A e, w : Plain(<<Label("Expected", e)>> \o Words(c.compare) \o <<Label("threshold", w)>>)
    BY <1>4, Labels, PlainWords, PlainText
  <2> QED BY <2>1, FailIfQuiet DEF AssertGreaterOrLessFloat
<1>5. ASSUME c.trait \in {"Infinity", "Negative Infinity", "NaN", "Determinate", "Invalid"}
      PROVE  Quiet(AssertFloatSpecial(c))
  <2>1. \A w : Plain(<<Say(c.trait)>> \o <<Label("Was", w)>>)
    BY <1>5, Traits, Labels, PlainText, Zenon
  <2>2. \A a, b : <<a>> \o <<b>> = <<a, b>>
    BY TwoParts
  <2>3. \A w : Plain(<<Say(c.trait), Label("Was", w)>>)
    BY <2>1, <2>2, Zenon
  <2>4. Plain(<<Say("Expected")>> \o (IF c.should THEN <<>> ELSE <<Say("Not")>>))
    BY Sayings, PlainText, Zenon
  <2>5. \A w : Plain(<<Say("Expected")>> \o (IF c.should THEN <<>> ELSE <<Say("Not")>>)
                     \o <<Say(c.trait), Label("Was", w)>>)
    BY <2>3, <2>4, PlainText, Zenon
  <2> QED BY <2>5, FailIfQuiet, Zenon DEF AssertFloatSpecial
<1> QED BY <1>1, <1>2, <1>3, <1>4, <1>5

LEMMA JudgedQuietly ==
    ASSUME NEW c, IsCall(c), c.kind \in Assertions
    PROVE  Quiet(Judge(c))
<1>1. c.kind \in {"order", "float order"} => IsFiniteSet(c.compare)
  <2>1. IsFiniteSet({"EQUAL_TO", "GREATER_THAN", "SMALLER_THAN", "NOT_EQUAL"})
    <3>1. IsFiniteSet({"EQUAL_TO"})
      BY FS_Singleton
    <3>2. IsFiniteSet({"EQUAL_TO"} \cup {"GREATER_THAN"})
      BY <3>1, FS_AddElement
    <3>3. IsFiniteSet({"EQUAL_TO"} \cup {"GREATER_THAN"} \cup {"SMALLER_THAN"})
      BY <3>2, FS_AddElement
    <3>4. IsFiniteSet({"EQUAL_TO"} \cup {"GREATER_THAN"} \cup {"SMALLER_THAN"} \cup {"NOT_EQUAL"})
      BY <3>3, FS_AddElement
    <3>5. {"EQUAL_TO", "GREATER_THAN", "SMALLER_THAN", "NOT_EQUAL"}
          = {"EQUAL_TO"} \cup {"GREATER_THAN"} \cup {"SMALLER_THAN"} \cup {"NOT_EQUAL"}
      OBVIOUS
    <3> QED BY <3>4, <3>5
  <2> QED BY <2>1, FS_Subset, Zenon DEF IsCall
<1>2. Quiet(FailIf(~c.holds, c, <<>>))
  BY PlainText, FailIfQuiet
<1>3. c.kind = "condition" => Judge(c) = FailIf(~c.holds, c, <<>>)
  BY Zenon DEF Judge
<1>4. /\ c.kind = "bits" => Judge(c) = AssertBits(c)
      /\ c.kind = "equal" => Judge(c) = AssertEqualNumber(c)
      /\ c.kind = "order" => Judge(c) = AssertGreaterOrLessOrEqualNumber(c)
      /\ c.kind = "within" => Judge(c) = AssertNumbersWithin(c)
  BY Zenon DEF Judge
<1>5. /\ c.kind = "equal array" => Judge(c) = AssertEqualIntArray(c)
      /\ c.kind = "array within" => Judge(c) = AssertNumbersArrayWithin(c)
  BY Zenon DEF Judge
<1>6. /\ c.kind = "equal string" => Judge(c) = AssertEqualString(c)
      /\ c.kind = "equal string len" => Judge(c) = AssertEqualStringLen(c)
      /\ c.kind = "equal strings" => Judge(c) = AssertEqualStringArray(c)
      /\ c.kind = "not equal string" => Judge(c) = AssertNotEqualString(c)
      /\ c.kind = "not equal string len" => Judge(c) = AssertNotEqualStringLen(c)
  BY Zenon DEF Judge
<1>7. /\ c.kind = "equal memory" => Judge(c) = AssertEqualMemory(c)
      /\ c.kind = "not equal memory" => Judge(c) = AssertNotEqualMemory(c)
  BY Zenon DEF Judge
<1>8. /\ c.kind = "float within" => Judge(c) = AssertFloatsWithin(c)
      /\ c.kind = "float not within" => Judge(c) = AssertFloatsNotWithin(c)
      /\ c.kind = "float order" => Judge(c) = AssertGreaterOrLessFloat(c)
      /\ c.kind = "float array" => Judge(c) = AssertWithinFloatArray(c)
      /\ c.kind = "float special" => Judge(c) = AssertFloatSpecial(c)
  BY Zenon DEF Judge
<1>9. /\ c.kind \in {"condition", "bits", "equal", "order", "within"} => Quiet(Judge(c))
      /\ c.kind \in {"equal array", "array within"} => Quiet(Judge(c))
  BY <1>1, <1>2, <1>3, <1>4, <1>5, NumbersQuiet, ArraysQuiet, Zenon
<1>10. /\ c.kind \in {"equal string", "equal string len", "equal strings", "not equal string",
                      "not equal string len"} => Quiet(Judge(c))
       /\ c.kind \in {"equal memory", "not equal memory"} => Quiet(Judge(c))
  BY <1>6, <1>7, StringsQuiet, MemoryQuiet, Zenon
<1>11. c.kind \in {"float within", "float not within", "float order", "float array",
                   "float special"} => Quiet(Judge(c))
  BY <1>1, <1>8, FloatsQuiet, Zenon DEF IsCall
<1> QED BY <1>9, <1>10, <1>11, Zenon DEF Assertions

-----------------------------------------------------------------------------
(* The invariant of a test program.                                        *)
Counter(condition) == IF condition THEN 1 ELSE 0

Counters ==
    /\ IsProgram(suite)
    /\ phase \in {"main", "between", "conclude", "exit"} \cup Functions
    /\ next \in Nat \ {0}
    /\ NumberOfTests \in 0 .. Len(suite.tests)
    /\ TestFailures \in Nat /\ TestIgnores \in Nat
    /\ phase = "main" => NumberOfTests = 0 /\ TestFailures = 0 /\ TestIgnores = 0
    /\ Running => NumberOfTests > 0
    /\ phase = "exit" => status = TestFailures

Flags ==
    /\ CurrentTestFailed \in BOOLEAN /\ CurrentTestIgnored \in BOOLEAN
    /\ ~(CurrentTestFailed /\ CurrentTestIgnored)
    /\ ~Running => ~ReturnIfFailOrIgnore
    /\ ~ReturnIfFailOrIgnore => line = <<>>

(* A decided test's verdict is in the output already when UnityMessage()   *)
(* has ended its line, and is on the line being printed otherwise.         *)
Shown ==
    /\ Plain(line)
    /\ Book(output, NumberOfTests - Counter(Running /\ ~ReturnIfFailOrIgnore),
            TestFailures + Counter(CurrentTestFailed), TestIgnores + Counter(CurrentTestIgnored))
Pending ==
    /\ ReturnIfFailOrIgnore
    /\ OneVerdict(line, IF CurrentTestFailed THEN "FAIL" ELSE "IGNORE", NumberOfTests)
    /\ Book(output, NumberOfTests - 1, TestFailures, TestIgnores)
Booked == Shown \/ Pending

UInv == Counters /\ Flags /\ Booked

LEMMA InitUInv == Init => UInv
<1> SUFFICES ASSUME Init PROVE UInv
  OBVIOUS
<1>1. IsProgram(suite)
  BY SuitesAssumption DEF Init
<1>2. Len(suite.tests) \in Nat
  BY <1>1 DEF IsProgram
<1>3. Counters
  BY <1>1, <1>2 DEF Init, Counters, Running, Functions
<1>4. Flags
  BY DEF Init, Flags, ReturnIfFailOrIgnore
<1>5. Book(<<>>, 0, 0, 0)
  <2>1. <<>> \in Seq({}) /\ Len(<<>>) = 0
    OBVIOUS
  <2>2. VerdictLines(<<>>) = {}
    BY <2>1 DEF VerdictLines
  <2>3. \A w : LinesWith(w, <<>>) = {}
    BY <2>2 DEF LinesWith
  <2> QED BY <2>1, <2>2, <2>3, FS_EmptySet DEF Book, Sequence, OneInOrder
<1>6. Shown
  BY <1>5, PlainText DEF Init, Shown, Counter, Running, Functions
<1> QED BY <1>3, <1>4, <1>6 DEF UInv, Booked

(* The types of the counters, and where a call is.                         *)
LEMMA CounterFacts ==
    ASSUME Counters
    PROVE  /\ NumberOfTests \in Nat /\ Len(suite.tests) \in Nat
           /\ Running => NumberOfTests - 1 \in Nat
<1>1. Len(suite.tests) \in Nat
  BY DEF Counters, IsProgram
<1> QED BY <1>1 DEF Counters

LEMMA CallFacts ==
    ASSUME Counters, phase \in Functions, next <= Len(Calls)
    PROVE  IsCall(Calls[next])
<1> DEFINE calls == Calls
<1>1. IsBody(calls)
  <2>1. CASE phase = "setUp"
    <3>1. calls = suite.setUp
      BY <2>1, Zenon DEF Calls
    <3> QED BY <3>1 DEF Counters, IsProgram
  <2>2. CASE phase = "tearDown"
    <3>1. calls = suite.tearDown
      BY <2>2, Zenon DEF Calls
    <3> QED BY <3>1 DEF Counters, IsProgram
  <2>3. CASE phase = "test"
    <3>1. calls = suite.tests[NumberOfTests]
      BY <2>3, Zenon DEF Calls
    <3>2. NumberOfTests \in 1 .. Len(suite.tests)
      BY <2>3, CounterFacts DEF Counters, Running
    <3>3. suite.tests[NumberOfTests] \in Range(suite.tests)
      BY <3>2 DEF Counters, IsProgram, Range
    <3> QED BY <3>1, <3>3 DEF Counters, IsProgram
  <2> QED BY <2>1, <2>2, <2>3 DEF Functions
<1>2. next \in Nat \ {0} /\ next <= Len(calls)
  BY DEF Counters
<1> HIDE DEF calls
<1>3. calls[next] \in Range(calls)
  <2>1. calls \in Seq(Range(calls))
    BY <1>1 DEF IsBody
  <2>2. next \in DOMAIN calls
    BY <1>2, <2>1
  <2> QED BY <2>2 DEF Range
<1>4. IsCall(calls[next])
  BY <1>1, <1>3 DEF IsBody
<1> QED BY <1>4 DEF calls

(* A step that does not touch what the invariant is about.                 *)
LEMMA Stay ==
    ASSUME UInv, UNCHANGED <<suite, Unity, line, output, status>>,
           Running, Running', phase' \in Functions \cup {"conclude"}, next' \in Nat \ {0}
    PROVE  UInv'
<1>1. Counters'
  BY DEF UInv, Counters, Unity, Running, Functions
<1>2. Flags'
  BY DEF UInv, Flags, Unity, ReturnIfFailOrIgnore
<1>3. (Running <=> Running') /\ (ReturnIfFailOrIgnore <=> ReturnIfFailOrIgnore')
  BY DEF Unity, ReturnIfFailOrIgnore
<1>4. Shown => Shown'
  BY <1>3 DEF Shown, Unity, Counter
<1>5. Pending => Pending'
  BY <1>3 DEF Pending, Unity
<1> QED BY <1>1, <1>2, <1>4, <1>5 DEF UInv, Booked

LEMMA Jumps ==
    ASSUME Counters, phase \in Functions, TestAbort \/ GoOn
    PROVE  Running /\ Running' /\ phase' \in Functions \cup {"conclude"} /\ next' \in Nat \ {0}
BY DEF Counters, TestAbort, GoOn, Functions, Running

(* The test is decided against: its line begins.                           *)
LEMMA DecideStep ==
    ASSUME UInv, phase \in Functions, ~ReturnIfFailOrIgnore,
           UNCHANGED <<suite, NumberOfTests, TestFailures, TestIgnores, output, status>>,
           CurrentTestFailed' \in BOOLEAN, CurrentTestIgnored' = ~CurrentTestFailed',
           TestAbort, NEW text, Plain(text),
           line' = line \o TestResultsBegin(IF CurrentTestFailed' THEN "FAIL" ELSE "IGNORE") \o text
    PROVE  UInv'
<1> DEFINE word == IF CurrentTestFailed' THEN "FAIL" ELSE "IGNORE"
           mark == <<Label(word, <<NumberOfTests>>)>>
<1>1. /\ Running /\ Running' /\ phase' \in Functions \cup {"conclude"} /\ next' \in Nat \ {0}
      /\ line = <<>>
  BY Jumps DEF UInv, Flags
<1>2. Counters'
  BY <1>1 DEF UInv, Counters, Running, Functions
<1>3. Flags'
  <2>1. CASE CurrentTestFailed' = TRUE
    BY <1>1, <2>1 DEF Flags, ReturnIfFailOrIgnore
  <2>2. CASE CurrentTestFailed' = FALSE
    BY <1>1, <2>2 DEF Flags, ReturnIfFailOrIgnore
  <2> QED BY <2>1, <2>2
<1>4. ~CurrentTestFailed /\ ~CurrentTestIgnored
  BY DEF ReturnIfFailOrIgnore
<1>5. Shown /\ Book(output, NumberOfTests - 1, TestFailures, TestIgnores)
  <2>1. Shown
    BY DEF UInv, Booked, Pending
  <2>2. TestFailures + 0 = TestFailures /\ TestIgnores + 0 = TestIgnores
    BY DEF UInv, Counters
  <2> QED BY <1>1, <1>4, <2>1, <2>2 DEF Shown, Counter
<1>6. word \in VerdictWords
  BY DEF VerdictWords
<1>7. OneVerdict(line', word, NumberOfTests)
  <2>1. OneVerdict(mark, word, NumberOfTests)
    BY <1>6, VerdictText
  <2>2. OneVerdict(mark \o text, word, NumberOfTests)
    BY <1>6, <2>1, VerdictText
  <2>3. line' = <<>> \o mark \o text
    BY <1>1 DEF TestResultsBegin
  <2>4. <<>> \o mark = mark
    <3>1. \A a : <<>> \o <<a>> = <<a>>
      OBVIOUS
    <3> QED BY <3>1
  <2> QED BY <2>2, <2>3, <2>4
<1>8. Pending'
  BY <1>3, <1>5, <1>7 DEF Pending, ReturnIfFailOrIgnore
<1> QED BY <1>2, <1>3, <1>8 DEF UInv, Booked

LEMMA LeaveStep ==
    ASSUME UInv, phase \in Functions, LeaveAlone
    PROVE  UInv'
<1>1. Running /\ Running' /\ phase' \in Functions \cup {"conclude"} /\ next' \in Nat \ {0}
  BY Jumps DEF UInv, LeaveAlone
<1>2. UNCHANGED <<suite, Unity, line, output, status>>
  BY DEF LeaveAlone
<1> QED BY <1>1, <1>2, Stay

LEMMA AssertionStep ==
    ASSUME UInv, phase \in Functions, NEW c, IsCall(c), Assertion(c)
    PROVE  UInv'
<1>1. CASE ReturnIfFailOrIgnore
  BY <1>1, LeaveStep DEF Assertion
<1>2. CASE ~ReturnIfFailOrIgnore
  <2> DEFINE r == Judge(c)
  <2>1. Plain(r.report)
    <3>1. c.kind \in Assertions
      BY Zenon DEF IsCall, Assertion
    <3> QED BY <3>1, JudgedQuietly DEF Quiet
  <2>2. /\ CurrentTestFailed' = (r.failed \/ (~Assigns(c) /\ CurrentTestFailed))
        /\ line' = IF r.failed THEN line \o TestResultsBegin("FAIL") \o r.report ELSE line
        /\ IF r.failed THEN TestAbort ELSE GoOn
        /\ UNCHANGED <<suite, NumberOfTests, TestFailures, TestIgnores, CurrentTestIgnored,
                       output, status>>
    BY <1>2, Zenon DEF Assertion
  <2> HIDE DEF r
  <2>3. CurrentTestFailed = FALSE /\ CurrentTestIgnored = FALSE
    BY <1>2 DEF UInv, Flags, ReturnIfFailOrIgnore
  <2>4. CASE r.failed
    <3>1. CurrentTestFailed' = TRUE
      BY <2>2, <2>4, Zenon
    <3>2. TestAbort /\ line' = line \o TestResultsBegin("FAIL") \o r.report
      BY <2>2, <2>4, Zenon
    <3>3. CurrentTestIgnored' = ~CurrentTestFailed'
      BY <2>2, <2>3, <3>1
    <3>4. line' = line \o TestResultsBegin(IF CurrentTestFailed' THEN "FAIL" ELSE "IGNORE")
                       \o r.report
      BY <3>1, <3>2
    <3> QED BY <1>2, <2>1, <2>2, <3>1, <3>2, <3>3, <3>4, DecideStep
  <2>5. CASE ~r.failed
    <3>1. CurrentTestFailed' = FALSE
      BY <2>2, <2>3, <2>5, Zenon
    <3>2. GoOn /\ line' = line
      BY <2>2, <2>5, Zenon
    <3>3. UNCHANGED <<suite, Unity, line, output, status>>
      BY <2>2, <2>3, <3>1, <3>2 DEF Unity
    <3> QED BY <3>2, <3>3, Jumps, Stay DEF UInv
  <2> QED BY <2>4, <2>5
<1> QED BY <1>1, <1>2

LEMMA IgnoreStep ==
    ASSUME UInv, phase \in Functions, NEW c, Ignore(c)
    PROVE  UInv'
<1>1. CASE ReturnIfFailOrIgnore
  BY <1>1, LeaveStep DEF Ignore
<1>2. CASE ~ReturnIfFailOrIgnore
  <2>1. /\ CurrentTestIgnored' = TRUE /\ TestAbort
        /\ line' = line \o TestResultsBegin("IGNORE") \o AddMsgIfSpecified(c)
        /\ UNCHANGED <<suite, NumberOfTests, TestFailures, TestIgnores, CurrentTestFailed,
                       output, status>>
    BY <1>2 DEF Ignore
  <2>2. CurrentTestFailed' = FALSE
    BY <1>2, <2>1 DEF UInv, Flags, ReturnIfFailOrIgnore
  <2>3. Plain(AddMsgIfSpecified(c))
    BY PlainText, Sayings, Zenon DEF AddMsgIfSpecified
  <2>4. line' = line \o TestResultsBegin(IF CurrentTestFailed' THEN "FAIL" ELSE "IGNORE")
                     \o AddMsgIfSpecified(c)
    BY <2>1, <2>2
  <2> QED BY <1>2, <2>1, <2>2, <2>3, <2>4, DecideStep
<1> QED BY <1>1, <1>2

(* A message ends the line, whatever is on it.                             *)
LEMMA MessageStep ==
    ASSUME UInv, phase \in Functions, NEW c, Message(c)
    PROVE  UInv'
<1> DEFINE info == TestResultsBegin("INFO") \o AddMsgIfSpecified(c)
<1>1. /\ output' = Append(output, line \o TestResultsBegin("INFO") \o AddMsgIfSpecified(c))
      /\ line' = <<>> /\ GoOn /\ UNCHANGED <<suite, Unity, status>>
  BY DEF Message
<1>2. Running /\ Running' /\ phase' \in Functions \cup {"conclude"} /\ next' \in Nat \ {0}
  BY <1>1, Jumps DEF UInv
<1>3. Counters'
  BY <1>1, <1>2 DEF UInv, Counters, Unity, Running, Functions
<1>4. Flags'
  BY <1>1, <1>2 DEF UInv, Flags, Unity, ReturnIfFailOrIgnore
<1>5. Plain(TestResultsBegin("INFO")) /\ Plain(AddMsgIfSpecified(c)) /\ Plain(<<>>)
  BY PlainText, Labels, Sayings, Zenon DEF AddMsgIfSpecified, TestResultsBegin
<1>6. (Running <=> Running') /\ (ReturnIfFailOrIgnore <=> ReturnIfFailOrIgnore')
  BY <1>1, <1>2 DEF Unity, ReturnIfFailOrIgnore
<1>7. CASE Shown
  <2>1. Plain(line \o TestResultsBegin("INFO") \o AddMsgIfSpecified(c))
    BY <1>5, <1>7, PlainText DEF Shown
  <2>2. Shown'
    BY <1>1, <1>5, <1>6, <1>7, <2>1, PlainLine DEF Shown, Unity, Counter
  <2> QED BY <1>3, <1>4, <2>2 DEF UInv, Booked
<1>8. CASE Pending
  <2> DEFINE word == IF CurrentTestFailed THEN "FAIL" ELSE "IGNORE"
             text == line \o TestResultsBegin("INFO") \o AddMsgIfSpecified(c)
  <2>1. word \in VerdictWords
    BY DEF VerdictWords
  <2>2. OneVerdict(line, word, NumberOfTests) /\ ReturnIfFailOrIgnore
        /\ Book(output, NumberOfTests - 1, TestFailures, TestIgnores)
    BY <1>8 DEF Pending
  <2>3. OneVerdict(text, word, NumberOfTests)
    BY <1>5, <2>1, <2>2, VerdictText
  <2>4. /\ NumberOfTests \in Nat /\ NumberOfTests - 1 \in Nat
        /\ NumberOfTests - 1 + 1 = NumberOfTests
        /\ TestFailures \in Nat /\ TestIgnores \in Nat
    BY <1>2, CounterFacts DEF UInv, Counters
  <2> HIDE DEF word, text
  <2>5. Book(Append(output, text), NumberOfTests,
             IF word = "FAIL" THEN TestFailures + 1 ELSE TestFailures,
             IF word = "IGNORE" THEN TestIgnores + 1 ELSE TestIgnores)
    BY <2>1, <2>2, <2>3, <2>4, VerdictLine
  <2>6. /\ (IF word = "FAIL" THEN TestFailures + 1 ELSE TestFailures)
           = TestFailures + Counter(CurrentTestFailed)
        /\ (IF word = "IGNORE" THEN TestIgnores + 1 ELSE TestIgnores)
           = TestIgnores + Counter(CurrentTestIgnored)
        /\ NumberOfTests = NumberOfTests - Counter(Running /\ ~ReturnIfFailOrIgnore)
    BY <2>2, <2>4 DEF word, Counter, UInv, Flags, ReturnIfFailOrIgnore
  <2>7. Book(output, NumberOfTests - Counter(Running /\ ~ReturnIfFailOrIgnore),
             TestFailures + Counter(CurrentTestFailed),
             TestIgnores + Counter(CurrentTestIgnored))'
    BY <1>1, <1>6, <2>5, <2>6 DEF text, Unity, Counter
  <2>8. Shown'
    BY <1>1, <1>5, <2>7 DEF Shown
  <2> QED BY <1>3, <1>4, <2>8 DEF UInv, Booked
<1> QED BY <1>7, <1>8 DEF UInv, Booked

LEMMA CallStep ==
    ASSUME UInv, Call
    PROVE  UInv'
<1> DEFINE c == Calls[next]
<1>1. phase \in Functions /\ IsCall(c)
  BY CallFacts DEF Call, UInv
<1>2. Assertion(c) \/ Holds(c) \/ Ignore(c) \/ Message(c) \/ TestPass(c)
  BY DEF Call
<1> HIDE DEF c
<1>3. CASE Holds(c) \/ TestPass(c)
  <2>1. (TestAbort \/ GoOn) /\ UNCHANGED <<suite, Unity, line, output, status>>
    BY <1>3 DEF Holds, TestPass
  <2> QED BY <1>1, <2>1, Jumps, Stay DEF UInv
<1> QED BY <1>1, <1>2, <1>3, AssertionStep, IgnoreStep, MessageStep

(* Printed now or before, a test's verdict is counted when it ends.        *)
LEMMA ConcludeStep ==
    ASSUME UInv, ConcludeTest
    PROVE  UInv'
<1> DEFINE failed == Counter(CurrentTestFailed)
           ignored == Counter(CurrentTestIgnored)
<1>1. /\ phase = "conclude" /\ phase' = "between" /\ line' = <<>>
      /\ CurrentTestFailed' = FALSE /\ CurrentTestIgnored' = FALSE
      /\ UNCHANGED <<suite, next, NumberOfTests, status>>
      /\ output' = Append(output, IF CurrentTestIgnored \/ CurrentTestFailed THEN line
                                  ELSE line \o TestResultsBegin("PASS"))
  BY DEF ConcludeTest, ClearFlags
<1>2. /\ NumberOfTests \in Nat /\ NumberOfTests - 1 \in Nat
      /\ NumberOfTests - 1 + 1 = NumberOfTests
      /\ TestFailures \in Nat /\ TestIgnores \in Nat
      /\ failed \in 0 .. 1 /\ ignored \in 0 .. 1
  BY <1>1, CounterFacts DEF UInv, Counters, Running, Counter
<1>3. TestFailures' = TestFailures + failed /\ TestIgnores' = TestIgnores + ignored
  BY DEF ConcludeTest, CountFailure, Counter, UInv, Flags
<1>4. Counters'
  BY <1>1, <1>2, <1>3 DEF UInv, Counters, Running, Functions
<1>5. Flags'
  BY <1>1 DEF Flags, ReturnIfFailOrIgnore
<1>6. Book(output', NumberOfTests, TestFailures + failed, TestIgnores + ignored)
  <2>1. CASE ReturnIfFailOrIgnore
    <3>1. output' = Append(output, line)
      BY <1>1, <2>1 DEF ReturnIfFailOrIgnore
    <3>2. CASE Shown
      <4>1. NumberOfTests - Counter(Running /\ ~ReturnIfFailOrIgnore) = NumberOfTests
        BY <1>2, <2>1 DEF Counter
      <4> QED BY <3>1, <3>2, <4>1, PlainLine DEF Shown
    <3>3. CASE Pending
      <4> DEFINE word == IF CurrentTestFailed THEN "FAIL" ELSE "IGNORE"
      <4>1. word \in VerdictWords
        BY DEF VerdictWords
      <4>2. OneVerdict(line, word, NumberOfTests)
            /\ Book(output, NumberOfTests - 1, TestFailures, TestIgnores)
        BY <3>3 DEF Pending
      <4>3. /\ (IF word = "FAIL" THEN TestFailures + 1 ELSE TestFailures) = TestFailures + failed
            /\ (IF word = "IGNORE" THEN TestIgnores + 1 ELSE TestIgnores) = TestIgnores + ignored
        BY <1>2, <2>1 DEF Counter, UInv, Flags, ReturnIfFailOrIgnore
      <4> HIDE DEF word, failed, ignored
      <4>4. Book(Append(output, line), NumberOfTests,
                 IF word = "FAIL" THEN TestFailures + 1 ELSE TestFailures,
                 IF word = "IGNORE" THEN TestIgnores + 1 ELSE TestIgnores)
        BY <1>2, <4>1, <4>2, VerdictLine
      <4> QED BY <3>1, <4>3, <4>4
    <3> QED BY <3>2, <3>3 DEF UInv, Booked
  <2>2. CASE ~ReturnIfFailOrIgnore
    <3>1. Shown /\ line = <<>> /\ ~CurrentTestFailed /\ ~CurrentTestIgnored
      BY <2>2 DEF UInv, Booked, Pending, Flags, ReturnIfFailOrIgnore
    <3>2. Book(output, NumberOfTests - 1, TestFailures, TestIgnores)
      <4>1. TestFailures + 0 = TestFailures /\ TestIgnores + 0 = TestIgnores
        BY <1>2
      <4> QED BY <1>1, <2>2, <3>1, <4>1 DEF Shown, Counter, Running
    <3>3. output' = Append(output, <<Label("PASS", <<NumberOfTests>>)>>)
      <4>1. \A a : <<>> \o <<a>> = <<a>>
        OBVIOUS
      <4> QED BY <1>1, <3>1, <4>1 DEF TestResultsBegin
    <3>4. "PASS" \in VerdictWords /\ "PASS" # "FAIL" /\ "PASS" # "IGNORE"
      BY DEF VerdictWords
    <3>5. OneVerdict(<<Label("PASS", <<NumberOfTests>>)>>, "PASS", NumberOfTests)
      BY <3>4, VerdictText
    <3>6. Book(output', NumberOfTests, TestFailures, TestIgnores)
      BY <1>2, <3>2, <3>3, <3>4, <3>5, VerdictLine
    <3>7. TestFailures + failed = TestFailures /\ TestIgnores + ignored = TestIgnores
      BY <1>2, <3>1 DEF Counter
    <3> QED BY <3>6, <3>7
  <2> QED BY <2>1, <2>2
<1>7. Shown'
  <2>1. ~Running'
    BY <1>1 DEF Running, Functions
  <2>2. /\ NumberOfTests' - 0 = NumberOfTests /\ TestFailures' + 0 = TestFailures + failed
        /\ TestIgnores' + 0 = TestIgnores + ignored
    BY <1>1, <1>2, <1>3
  <2> HIDE DEF failed, ignored
  <2>3. Book(output', NumberOfTests' - 0, TestFailures' + 0, TestIgnores' + 0)
    BY <1>6, <2>2
  <2> QED BY <1>1, <2>1, <2>3, PlainText DEF Shown, Counter
<1> QED BY <1>4, <1>5, <1>7 DEF UInv, Booked

(* The summary is on lines without a verdict.                              *)
LEMMA EndStep ==
    ASSUME UInv, End
    PROVE  UInv'
<1> DEFINE counts == <<Label("Tests", PrintNumber(NumberOfTests)),
                       Label("Failures", PrintNumber(TestFailures)),
                       Label("Ignored", PrintNumber(TestIgnores))>>
           verdict == <<Say(IF TestFailures = 0 THEN "OK" ELSE "FAILED")>>
           breaker == <<Say("breaker")>>
<1>1. /\ phase = "between" /\ phase' = "exit" /\ line' = <<>> /\ status' = TestFailures
      /\ UNCHANGED <<suite, next, Unity>>
      /\ output' = output \o <<line, breaker, counts, verdict>>
  BY DEF End
<1>2. Counters'
  BY <1>1 DEF UInv, Counters, Unity, Running, Functions
<1>3. Flags'
  BY <1>1 DEF UInv, Flags, Unity, ReturnIfFailOrIgnore, Running, Functions
<1>4. ~Running /\ ~Running'
  BY <1>1 DEF Running, Functions
<1>5. ~ReturnIfFailOrIgnore /\ line = <<>> /\ Shown
  BY <1>4 DEF UInv, Flags, Booked, Pending
<1>6. Plain(line) /\ Plain(breaker) /\ Plain(counts) /\ Plain(verdict) /\ Plain(<<>>)
  <2>1. \A label, shown : label \notin VerdictWords => Plain(<<Label(label, shown)>>)
    BY PlainText
  <2>2. "breaker" \notin VerdictWords /\ "OK" \notin VerdictWords /\ "FAILED" \notin VerdictWords
        /\ "Tests" \notin VerdictWords /\ "Failures" \notin VerdictWords
        /\ "Ignored" \notin VerdictWords
    BY DEF VerdictWords
  <2>3. Plain(breaker) /\ Plain(verdict)
    BY <2>1, <2>2, Zenon DEF Say
  <2>4. \A a, b, d : <<a>> \o <<b>> \o <<d>> = <<a, b, d>>
    BY ThreeParts
  <2>5. \A a, b, d : Plain(<<Label("Tests", a)>> \o <<Label("Failures", b)>>
                           \o <<Label("Ignored", d)>>)
    BY <2>1, <2>2, PlainText
  <2>6. \A a, b, d : Plain(<<Label("Tests", a), Label("Failures", b), Label("Ignored", d)>>)
    <3> TAKE a, b, d
    <3>1. <<Label("Tests", a)>> \o <<Label("Failures", b)>> \o <<Label("Ignored", d)>>
          = <<Label("Tests", a), Label("Failures", b), Label("Ignored", d)>>
      BY ThreeParts, Zenon
    <3> QED BY <2>5, <3>1, Zenon
  <2>7. Plain(counts)
    BY <2>6, Zenon
  <2> QED BY <1>5, <2>3, <2>7, PlainText
<1> HIDE DEF counts, verdict, breaker
<1>7. output' = Append(Append(Append(Append(output, line), breaker), counts), verdict)
  BY <1>1, <1>5, FourLines DEF Shown, Book
<1>8. Shown'
  <2> DEFINE n == NumberOfTests - Counter(FALSE)
             f == TestFailures + Counter(CurrentTestFailed)
             g == TestIgnores + Counter(CurrentTestIgnored)
  <2>1. Book(output, n, f, g)
    BY <1>4, <1>5 DEF Shown, Counter
  <2> HIDE DEF n, f, g
  <2>2. Book(output', n, f, g)
    BY <1>6, <1>7, <2>1, PlainLine
  <2>3. Book(output', n, f, g) => Shown'
    BY <1>1, <1>4, <1>6 DEF Shown, Unity, n, f, g, Counter
  <2> QED BY <2>2, <2>3
<1> QED BY <1>2, <1>3, <1>8 DEF UInv, Booked

LEMMA StepUInv == UInv /\ [Next]_vars => UInv'
<1> SUFFICES ASSUME UInv, [Next]_vars PROVE UInv'
  OBVIOUS
<1>1. CASE Begin
  <2>1. /\ phase = "main" /\ phase' = "between" /\ ~Running /\ ~Running'
        /\ UNCHANGED <<suite, next, line, output, status>>
    BY <1>1 DEF Begin, Running, Functions
  <2>2. UNCHANGED Unity
    <3>1. ~CurrentTestFailed /\ ~CurrentTestIgnored
      BY <2>1 DEF UInv, Flags, ReturnIfFailOrIgnore
    <3>2. CurrentTestFailed = FALSE /\ CurrentTestIgnored = FALSE
      BY <3>1 DEF UInv, Flags
    <3> QED BY <1>1, <2>1, <3>2 DEF Begin, UInv, Counters, Unity
  <2>3. Counters' /\ Flags'
    BY <2>1, <2>2 DEF UInv, Counters, Flags, Unity, ReturnIfFailOrIgnore, Functions
  <2>4. (Shown => Shown') /\ (Pending => Pending')
    BY <2>1, <2>2 DEF Shown, Pending, Unity, ReturnIfFailOrIgnore, Counter
  <2> QED BY <2>3, <2>4 DEF UInv, Booked
<1>2. CASE DefaultTestRun
  <2>1. /\ phase = "between" /\ NumberOfTests < Len(suite.tests)
        /\ NumberOfTests' = NumberOfTests + 1 /\ phase' = "setUp" /\ next' = 1
        /\ UNCHANGED <<suite, TestFailures, TestIgnores, CurrentTestFailed, CurrentTestIgnored,
                       line, output, status>>
    BY <1>2 DEF DefaultTestRun
  <2>2. ~Running /\ Running' /\ ~ReturnIfFailOrIgnore /\ ~ReturnIfFailOrIgnore'
    BY <2>1 DEF Running, Functions, UInv, Flags, ReturnIfFailOrIgnore
  <2>3. Counters' /\ Flags'
    <3>1. NumberOfTests \in Nat /\ Len(suite.tests) \in Nat
      BY CounterFacts DEF UInv
    <3>2. Counters'
      BY <2>1, <3>1 DEF UInv, Counters, Functions
    <3>3. Flags'
      BY <2>1, <2>2 DEF UInv, Flags, ReturnIfFailOrIgnore
    <3> QED BY <3>2, <3>3
  <2>4. Shown
    BY <2>2 DEF UInv, Booked, Pending
  <2>5. NumberOfTests' - 1 = NumberOfTests - 0
    BY <2>1, CounterFacts DEF UInv
  <2>6. Shown'
    BY <2>1, <2>2, <2>4, <2>5 DEF Shown, Counter
  <2> QED BY <2>3, <2>6 DEF UInv, Booked
<1>3. CASE Call
  BY <1>3, CallStep
<1>4. CASE Return
  <2>1. /\ phase \in Functions /\ next' = 1
        /\ UNCHANGED <<suite, Unity, line, output, status>>
    BY <1>4 DEF Return
  <2>2. phase' \in Functions \cup {"conclude"}
    <3>1. phase' \in {"test", "tearDown", "conclude"}
      BY <1>4, <2>1, Zenon DEF Return, Functions
    <3> QED BY <3>1 DEF Functions
  <2>3. Running /\ Running'
    BY <2>1, <2>2 DEF Running
  <2> QED BY <2>1, <2>2, <2>3, Stay
<1>5. CASE ConcludeTest
  BY <1>5, ConcludeStep
<1>6. CASE End
  BY <1>6, EndStep
<1>7. CASE Done \/ UNCHANGED vars
  <2>1. UNCHANGED <<suite, phase, next, Unity, line, output, status>>
    BY <1>7 DEF Done, vars
  <2>2. (Running <=> Running') /\ (ReturnIfFailOrIgnore <=> ReturnIfFailOrIgnore')
    BY <2>1 DEF Running, Unity, ReturnIfFailOrIgnore
  <2>3. Counters' /\ Flags'
    BY <2>1, <2>2 DEF UInv, Counters, Flags, Unity, Running
  <2>4. (Shown => Shown') /\ (Pending => Pending')
    BY <2>1, <2>2 DEF Shown, Pending, Unity, Counter
  <2> QED BY <2>3, <2>4 DEF UInv, Booked
<1> QED BY <1>1, <1>2, <1>3, <1>4, <1>5, <1>6, <1>7 DEF Next

(* The verdicts in the output are those of the tests that have run, in     *)
(* order, and the counters and main()'s status count them.                 *)
THEOREM SummaryProved == Spec => []SummaryMatchesLines
<1>1. UInv => SummaryMatchesLines
  <2> SUFFICES ASSUME UInv, phase \in {"between", "exit"} PROVE SummaryMatchesLines
    BY DEF SummaryMatchesLines
  <2>1. ~Running /\ ~ReturnIfFailOrIgnore /\ Shown
    BY DEF UInv, Flags, Booked, Pending, Running, Functions
  <2>2. /\ NumberOfTests - 0 = NumberOfTests /\ TestFailures + 0 = TestFailures
        /\ TestIgnores + 0 = TestIgnores
    BY CounterFacts DEF UInv, Counters
  <2>3. Book(output, NumberOfTests, TestFailures, TestIgnores)
    BY <2>1, <2>2 DEF Shown, Counter, ReturnIfFailOrIgnore
  <2>4. phase = "exit" => status = TestFailures
    BY DEF UInv, Counters
  <2> QED BY <2>3, <2>4 DEF Book, SummaryMatchesLines
<1> QED BY <1>1, InitUInv, StepUInv, PTL DEF Spec

-----------------------------------------------------------------------------
(* The scoreboard.                                                         *)
Verdict == IF ~Running /\ ~ReturnIfFailOrIgnore THEN "none"
           ELSE IF CurrentTestFailed THEN "failed"
           ELSE IF CurrentTestIgnored THEN "ignored"
           ELSE "open"
Score == [passed  |-> NumberOfTests - TestFailures - TestIgnores - Counter(Running),
          failed  |-> TestFailures,
          ignored |-> TestIgnores]

(* A step that keeps the counters and at most decides the test.            *)
LEMMA DecidesOnce ==
    ASSUME UInv, Running, Running', UNCHANGED <<NumberOfTests, TestFailures, TestIgnores>>,
           CurrentTestFailed' \in BOOLEAN, CurrentTestIgnored' \in BOOLEAN,
           ReturnIfFailOrIgnore => UNCHANGED <<CurrentTestFailed, CurrentTestIgnored>>
    PROVE  /\ UNCHANGED Score
           /\ \/ UNCHANGED Verdict
              \/ Verdict = "open" /\ Verdict' \in {"failed", "ignored"}
<1>1. UNCHANGED Score
  BY DEF Score, Counter
<1>2. CASE ReturnIfFailOrIgnore
  <2>1. UNCHANGED Verdict
    BY <1>2 DEF Verdict, ReturnIfFailOrIgnore
  <2> QED BY <1>1, <2>1
<1>3. CASE ~ReturnIfFailOrIgnore
  <2>1. Verdict = "open"
    BY <1>3 DEF Verdict, ReturnIfFailOrIgnore
  <2>2. Verdict' \in {"failed", "ignored", "open"}
    BY DEF Verdict
  <2> QED BY <1>1, <2>1, <2>2
<1> QED BY <1>2, <1>3

LEMMA CallDecides ==
    ASSUME UInv, Call, UInv'
    PROVE  /\ Running /\ Running'
           /\ UNCHANGED <<NumberOfTests, TestFailures, TestIgnores>>
           /\ ReturnIfFailOrIgnore => UNCHANGED <<CurrentTestFailed, CurrentTestIgnored>>
<1> DEFINE c == Calls[next]
<1>1. phase \in Functions /\ Counters
  BY DEF Call, UInv
<1>2. Assertion(c) \/ Holds(c) \/ Ignore(c) \/ Message(c) \/ TestPass(c)
  BY DEF Call
<1> HIDE DEF c
<1>3. CASE Holds(c) \/ Message(c) \/ TestPass(c)
  <2>1. (TestAbort \/ GoOn) /\ UNCHANGED Unity
    BY <1>3 DEF Holds, Message, TestPass
  <2> QED BY <1>1, <2>1, Jumps DEF Unity
<1>4. CASE Ignore(c)
  <2>1. CASE ReturnIfFailOrIgnore
    <3>1. TestAbort /\ UNCHANGED Unity
      BY <1>4, <2>1 DEF Ignore, LeaveAlone
    <3> QED BY <1>1, <3>1, Jumps DEF Unity
  <2>2. CASE ~ReturnIfFailOrIgnore
    <3>1. TestAbort /\ UNCHANGED <<NumberOfTests, TestFailures, TestIgnores>>
      BY <1>4, <2>2 DEF Ignore
    <3> QED BY <1>1, <2>2, <3>1, Jumps
  <2> QED BY <2>1, <2>2
<1>5. CASE Assertion(c)
  <2>1. CASE ReturnIfFailOrIgnore
    <3>1. TestAbort /\ UNCHANGED Unity
      BY <1>5, <2>1 DEF Assertion, LeaveAlone
    <3> QED BY <1>1, <3>1, Jumps DEF Unity
  <2>2. CASE ~ReturnIfFailOrIgnore
    <3>1. /\ IF Judge(c).failed THEN TestAbort ELSE GoOn
          /\ UNCHANGED <<NumberOfTests, TestFailures, TestIgnores>>
      BY <1>5, <2>2, Zenon DEF Assertion
    <3>2. TestAbort \/ GoOn
      BY <3>1, Zenon
    <3> QED BY <1>1, <2>2, <3>1, <3>2, Jumps
  <2> QED BY <2>1, <2>2
<1> QED BY <1>2, <1>3, <1>4, <1>5

(* A test that ends is counted under what was decided.                     *)
LEMMA CountsOnce ==
    ASSUME UInv, ConcludeTest, UInv'
    PROVE  /\ Verdict # "none" /\ Verdict' = "none"
           /\ Verdict = "open" => Score' = [Score EXCEPT !.passed = @ + 1]
           /\ Verdict = "failed" => Score' = [Score EXCEPT !.failed = @ + 1]
           /\ Verdict = "ignored" => Score' = [Score EXCEPT !.ignored = @ + 1]
<1>1. /\ phase = "conclude" /\ Running /\ ~Running'
      /\ CurrentTestFailed' = FALSE /\ CurrentTestIgnored' = FALSE
      /\ NumberOfTests' = NumberOfTests
      /\ TestFailures' = TestFailures + Counter(~CurrentTestIgnored /\ CurrentTestFailed)
      /\ TestIgnores' = TestIgnores + Counter(CurrentTestIgnored)
  BY DEF ConcludeTest, ClearFlags, CountFailure, Counter, Running, Functions
<1>2. /\ NumberOfTests \in Nat /\ TestFailures \in Nat /\ TestIgnores \in Nat
      /\ CurrentTestFailed \in BOOLEAN /\ CurrentTestIgnored \in BOOLEAN
  BY CounterFacts DEF UInv, Counters, Flags
<1>3. Verdict # "none" /\ Verdict' = "none"
  BY <1>1 DEF Verdict, ReturnIfFailOrIgnore
<1>4. /\ Score.passed = NumberOfTests - TestFailures - TestIgnores - 1
      /\ Score'.passed = NumberOfTests - TestFailures' - TestIgnores'
  <2>1. NumberOfTests - TestFailures' - TestIgnores' - 0
        = NumberOfTests - TestFailures' - TestIgnores'
    BY <1>1, <1>2 DEF Counter
  <2> QED BY <1>1, <2>1 DEF Score, Counter
<1>5. /\ Score = [passed |-> Score.passed, failed |-> TestFailures, ignored |-> TestIgnores]
      /\ Score' = [passed |-> Score'.passed, failed |-> TestFailures', ignored |-> TestIgnores']
  BY DEF Score
<1>6. CASE Verdict = "open"
  <2>1. ~CurrentTestFailed /\ ~CurrentTestIgnored
    BY <1>6 DEF Verdict
  <2>2. TestFailures' = TestFailures /\ TestIgnores' = TestIgnores
    BY <1>1, <1>2, <2>1 DEF Counter
  <2>3. Score'.passed = Score.passed + 1
    BY <1>2, <1>4, <2>2
  <2> QED BY <1>3, <1>5, <1>6, <2>2, <2>3
<1>7. CASE Verdict = "failed"
  <2>1. CurrentTestFailed /\ ~CurrentTestIgnored
    BY <1>7 DEF Verdict, UInv, Flags
  <2>2. TestFailures' = TestFailures + 1 /\ TestIgnores' = TestIgnores
    BY <1>1, <1>2, <2>1 DEF Counter
  <2>3. Score'.passed = Score.passed
    BY <1>2, <1>4, <2>2
  <2> QED BY <1>3, <1>5, <1>7, <2>2, <2>3
<1>8. CASE Verdict = "ignored"
  <2>1. ~CurrentTestFailed /\ CurrentTestIgnored
    BY <1>8 DEF Verdict
  <2>2. TestFailures' = TestFailures /\ TestIgnores' = TestIgnores + 1
    BY <1>1, <1>2, <2>1 DEF Counter
  <2>3. Score'.passed = Score.passed
    BY <1>2, <1>4, <2>2
  <2> QED BY <1>3, <1>5, <1>8, <2>2, <2>3
<1> QED BY <1>3, <1>6, <1>7, <1>8

(* The abstract actions, of the values that stand for its variables.       *)
LEMMA Abstract ==
    /\ Verdict = "none" /\ Verdict' = "open" /\ UNCHANGED Score => S!Start
    /\ Verdict = "open" /\ Verdict' \in {"failed", "ignored"} /\ UNCHANGED Score => S!Decide
    /\ Verdict = "none" /\ Score = [passed |-> 0, failed |-> 0, ignored |-> 0] => S!Init
<1>1. Verdict = "none" /\ Verdict' = "open" /\ UNCHANGED Score => S!Start
  BY Zenon DEF S!Start, Verdict, Score, Counter
<1>2. Verdict = "open" /\ Verdict' \in {"failed", "ignored"} /\ UNCHANGED Score => S!Decide
  BY Zenon DEF S!Decide, Verdict, Score, Counter
<1>3. Verdict = "none" /\ Score = [passed |-> 0, failed |-> 0, ignored |-> 0] => S!Init
  BY Zenon DEF S!Init, Verdict, Score, Counter
<1> QED BY <1>1, <1>2, <1>3

LEMMA AbstractCount ==
    ASSUME Verdict # "none", Verdict' = "none",
           \/ Verdict = "open" /\ Score' = [Score EXCEPT !.passed = @ + 1]
           \/ Verdict = "failed" /\ Score' = [Score EXCEPT !.failed = @ + 1]
           \/ Verdict = "ignored" /\ Score' = [Score EXCEPT !.ignored = @ + 1]
    PROVE  S!Count
<1>1. PICK v, w, s, t : v = Verdict /\ w = Verdict' /\ s = Score /\ t = Score'
  OBVIOUS
<1>2. t = CASE v = "open"    -> [s EXCEPT !.passed = @ + 1]
            [] v = "failed"  -> [s EXCEPT !.failed = @ + 1]
            [] v = "ignored" -> [s EXCEPT !.ignored = @ + 1]
  BY <1>1, Zenon
<1>3. Score' = CASE Verdict = "open"    -> [Score EXCEPT !.passed = @ + 1]
                 [] Verdict = "failed"  -> [Score EXCEPT !.failed = @ + 1]
                 [] Verdict = "ignored" -> [Score EXCEPT !.ignored = @ + 1]
  BY <1>1, <1>2, Zenon
<1> QED BY <1>3, Zenon DEF S!Count, Verdict, Score, Counter

(* Every step of the runner is one of the scoreboard, or none.             *)
LEMMA StepScoreboard == UInv /\ UInv' /\ [Next]_vars => [S!Next]_<<Verdict, Score>>
<1> SUFFICES ASSUME UInv, UInv', [Next]_vars
             PROVE  UNCHANGED <<Verdict, Score>> \/ S!Start \/ S!Decide \/ S!Count
  BY Zenon DEF S!Next
<1>1. CASE Begin
  <2>1. ~Running /\ ~Running' /\ ~ReturnIfFailOrIgnore /\ ~ReturnIfFailOrIgnore'
    BY <1>1 DEF Begin, Running, Functions, UInv, Flags
  <2>2. UNCHANGED <<NumberOfTests, TestFailures, TestIgnores>>
    BY <1>1 DEF Begin, UInv, Counters
  <2>3. Verdict = "none" /\ Verdict' = "none"
    BY <2>1 DEF Verdict
  <2>4. UNCHANGED Score
    BY <2>1, <2>2 DEF Score, Counter
  <2> QED BY <2>3, <2>4
<1>2. CASE DefaultTestRun
  <2>1. /\ ~Running /\ Running' /\ ~ReturnIfFailOrIgnore /\ ~ReturnIfFailOrIgnore'
        /\ NumberOfTests' = NumberOfTests + 1 /\ UNCHANGED <<TestFailures, TestIgnores>>
    BY <1>2 DEF DefaultTestRun, Running, Functions, UInv, Flags, ReturnIfFailOrIgnore
  <2>2. Verdict = "none" /\ Verdict' = "open"
    BY <2>1 DEF Verdict, ReturnIfFailOrIgnore
  <2>3. UNCHANGED Score
    <3>1. NumberOfTests \in Nat /\ TestFailures \in Nat /\ TestIgnores \in Nat
      BY CounterFacts DEF UInv, Counters
    <3>2. NumberOfTests' - TestFailures' - TestIgnores' - 1
          = NumberOfTests - TestFailures - TestIgnores - 0
      BY <2>1, <3>1
    <3> QED BY <2>1, <3>2 DEF Score, Counter
  <2> QED BY <2>2, <2>3, Abstract
<1>3. CASE Call
  <2>1. CurrentTestFailed' \in BOOLEAN /\ CurrentTestIgnored' \in BOOLEAN
    BY DEF UInv, Flags
  <2> QED BY <1>3, <2>1, CallDecides, DecidesOnce, Abstract
<1>4. CASE Return
  <2>1. phase \in Functions /\ UNCHANGED Unity
    BY <1>4 DEF Return
  <2>2. phase' \in Functions \cup {"conclude"}
    <3>1. phase' \in {"test", "tearDown", "conclude"}
      BY <1>4, <2>1, Zenon DEF Return, Functions
    <3> QED BY <3>1 DEF Functions
  <2> QED BY <2>1, <2>2 DEF Verdict, Score, Unity, Running, ReturnIfFailOrIgnore, Counter
<1>5. CASE ConcludeTest
  <2>1. Verdict \in {"open", "failed", "ignored", "none"}
    BY DEF Verdict
  <2> QED BY <1>5, <2>1, CountsOnce, AbstractCount
<1>6. CASE End
  <2>1. ~Running /\ ~Running' /\ UNCHANGED Unity
    BY <1>6 DEF End, Running, Functions
  <2> QED BY <2>1 DEF Verdict, Score, Unity, ReturnIfFailOrIgnore, Counter
<1>7. CASE Done \/ UNCHANGED vars
  BY <1>7 DEF Done, vars, Verdict, Score, Unity, Running, ReturnIfFailOrIgnore, Counter
<1> QED BY <1>1, <1>2, <1>3, <1>4, <1>5, <1>6, <1>7 DEF Next

(* The runner implements the scoreboard: whatever setUp(), the tests and   *)
(* tearDown() call, what is decided stays decided, and is counted once.    *)
THEOREM ScoreboardProved == Spec => ImplementsScoreboard
<1>1. Init => S!Init
  <2> SUFFICES ASSUME Init PROVE S!Init
    OBVIOUS
  <2>1. ~Running /\ ~ReturnIfFailOrIgnore /\ NumberOfTests = 0 /\ TestFailures = 0
        /\ TestIgnores = 0
    BY DEF Init, Running, Functions, ReturnIfFailOrIgnore
  <2>2. Score = [passed |-> 0, failed |-> 0, ignored |-> 0]
    <3>1. Score = [passed |-> 0 - 0 - 0 - 0, failed |-> 0, ignored |-> 0]
      BY <2>1 DEF Score, Counter
    <3> QED BY <3>1
  <2>3. Verdict = "none"
    BY <2>1 DEF Verdict
  <2> QED BY <2>2, <2>3, Abstract
<1>2. UInv /\ UInv' /\ [Next]_vars => [S!Next]_<<IF ~Running /\ ~ReturnIfFailOrIgnore THEN "none"
               ELSE IF CurrentTestFailed THEN "failed"
               ELSE IF CurrentTestIgnored THEN "ignored"
               ELSE "open",
               [passed  |-> NumberOfTests - TestFailures - TestIgnores - (IF Running THEN 1 ELSE 0),
              failed  |-> TestFailures,
              ignored |-> TestIgnores]>>
  BY StepScoreboard DEF Verdict, Score, Counter
<1> QED BY <1>1, <1>2, InitUInv, StepUInv, PTL DEF Spec, ImplementsScoreboard, S!Spec
=============================================================================
