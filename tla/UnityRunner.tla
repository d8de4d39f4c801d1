----------------------------- MODULE UnityRunner -----------------------------
(***************************************************************************)
(* src/unity.c as a test program runs it: UNITY_BEGIN(), RUN_TEST() for    *)
(* each test and UNITY_END(), as main() of src/tests/t-string.c does.  A   *)
(* test program is its setUp(), its tests and its tearDown(): the calls    *)
(* each of them makes.  An assertion leaves them by longjmp().             *)
(***************************************************************************)
EXTENDS UnityFloats

CONSTANT Suites      (* sets of test programs, by what they try           *)

Controls == {"message", "ignore", "pass"}
Assertions ==
    {"condition", "bits", "equal", "order", "within", "equal array", "array within",
     "equal string", "equal string len", "equal strings", "not equal string",
     "not equal string len", "equal memory", "not equal memory", "float within",
     "float not within", "float order", "float array", "float special"}

(* The arguments whose type decides what a report can say.                 *)
IsCall(c) ==
    /\ c.kind \in Controls \cup Assertions
    /\ c.kind \in {"order", "float order"} =>
           c.compare \subseteq {"EQUAL_TO", "GREATER_THAN", "SMALLER_THAN", "NOT_EQUAL"}
    /\ c.kind = "float special" =>
           c.trait \in {"Infinity", "Negative Infinity", "NaN", "Determinate", "Invalid"}
IsBody(calls) == calls \in Seq(Range(calls)) /\ \A c \in Range(calls) : IsCall(c)
IsProgram(s) ==
    /\ IsBody(s.setUp) /\ IsBody(s.tearDown)
    /\ s.tests \in Seq(Range(s.tests)) /\ \A test \in Range(s.tests) : IsBody(test)

ASSUME SuitesAssumption == \A k \in DOMAIN Suites : \A s \in Suites[k] : IsProgram(s)

VARIABLES
    suite,                   (* the test program                            *)
    phase, next,             (* which of its functions runs, its next call  *)
    (* struct UNITY_STORAGE_T                                               *)
    NumberOfTests, TestFailures, TestIgnores,
    CurrentTestFailed, CurrentTestIgnored,
    line, output,            (* the line being printed, and those before it *)
    status,                  (* what main() returns                         *)
    judged                   (* the assertion just made, only for properties*)

Unity == <<NumberOfTests, TestFailures, TestIgnores, CurrentTestFailed, CurrentTestIgnored>>
vars == <<suite, phase, next, Unity, line, output, status, judged>>

Functions == {"setUp", "test", "tearDown"}

Init ==
    /\ \E k \in DOMAIN Suites : suite \in Suites[k]
    /\ phase = "main" /\ next = 1
    /\ NumberOfTests = 0 /\ TestFailures = 0 /\ TestIgnores = 0
    /\ CurrentTestFailed = FALSE /\ CurrentTestIgnored = FALSE
    /\ line = <<>> /\ output = <<>> /\ status = 0 /\ judged = <<>>

Begin ==
    /\ phase = "main"
    /\ phase' = "between"
    /\ NumberOfTests' = 0 /\ TestFailures' = 0 /\ TestIgnores' = 0
    /\ CurrentTestFailed' = FALSE /\ CurrentTestIgnored' = FALSE
    /\ UNCHANGED <<suite, next, line, output, status, judged>>

DefaultTestRun ==
    /\ phase = "between" /\ NumberOfTests < Len(suite.tests)
    /\ NumberOfTests' = NumberOfTests + 1
    /\ phase' = "setUp" /\ next' = 1
    /\ UNCHANGED <<suite, TestFailures, TestIgnores, CurrentTestFailed, CurrentTestIgnored,
                   line, output, status, judged>>

-----------------------------------------------------------------------------
Calls ==
    CASE phase = "setUp"    -> suite.setUp
      [] phase = "test"     -> suite.tests[NumberOfTests]
      [] phase = "tearDown" -> suite.tearDown
      [] OTHER              -> <<>>

(* The file and the line are left out: the test's number is its name.      *)
TestResultsBegin(word) == <<Label(word, <<NumberOfTests>>)>>

(* Mutant of ReturnIfFailOrIgnore: an ignored test is not left.            *)
ReturnIfFail == CurrentTestFailed

ReturnIfFailOrIgnore == CurrentTestFailed \/ CurrentTestIgnored

(* longjmp() to the TEST_PROTECT() that was passed last.                   *)
TestAbort ==
    /\ phase' = IF phase = "tearDown" THEN "conclude" ELSE "tearDown"
    /\ next' = 1

GoOn == next' = next + 1 /\ UNCHANGED phase

Judge(c) ==
    CASE c.kind = "condition"         -> FailIf(~c.holds, c, <<>>)
      [] c.kind = "bits"              -> AssertBits(c)
      [] c.kind = "equal"             -> AssertEqualNumber(c)
      [] c.kind = "order"             -> AssertGreaterOrLessOrEqualNumber(c)
      [] c.kind = "within"            -> AssertNumbersWithin(c)
      [] c.kind = "equal array"       -> AssertEqualIntArray(c)
      [] c.kind = "array within"      -> AssertNumbersArrayWithin(c)
      [] c.kind = "equal string"      -> AssertEqualString(c)
      [] c.kind = "equal string len"  -> AssertEqualStringLen(c)
      [] c.kind = "equal strings"     -> AssertEqualStringArray(c)
      [] c.kind = "not equal string"  -> AssertNotEqualString(c)
      [] c.kind = "not equal string len" -> AssertNotEqualStringLen(c)
      [] c.kind = "equal memory"      -> AssertEqualMemory(c)
      [] c.kind = "not equal memory"  -> AssertNotEqualMemory(c)
      [] c.kind = "float within"      -> AssertFloatsWithin(c)
      [] c.kind = "float not within"  -> AssertFloatsNotWithin(c)
      [] c.kind = "float order"       -> AssertGreaterOrLessFloat(c)
      [] c.kind = "float array"       -> AssertWithinFloatArray(c)
      [] c.kind = "float special"     -> AssertFloatSpecial(c)

(* The test program tests a condition itself, and calls UnityFail() only   *)
(* when it does not hold.                                                  *)
Silent(c) == c.kind = "condition" /\ c.holds

(* These assign their answer to CurrentTestFailed.                         *)
Assigns(c) == c.kind \in {"within", "array within"}

LeaveAlone ==
    /\ ReturnIfFailOrIgnore
    /\ TestAbort
    /\ judged' = <<>>
    /\ UNCHANGED <<suite, Unity, line, output, status>>

Assertion(c) ==
    /\ c.kind \notin Controls /\ ~Silent(c)
    /\ IF ReturnIfFailOrIgnore THEN LeaveAlone
       ELSE LET r == Judge(c) IN
            /\ judged' = <<[call |-> c, failed |-> r.failed, report |-> r.report]>>
            /\ CurrentTestFailed' = (r.failed \/ (~Assigns(c) /\ CurrentTestFailed))
            /\ line' = IF r.failed THEN line \o TestResultsBegin("FAIL") \o r.report ELSE line
            /\ IF r.failed THEN TestAbort ELSE GoOn
            /\ UNCHANGED <<suite, NumberOfTests, TestFailures, TestIgnores,
                           CurrentTestIgnored, output, status>>

Holds(c) ==
    /\ Silent(c)
    /\ GoOn
    /\ judged' = <<>>
    /\ UNCHANGED <<suite, Unity, line, output, status>>

Ignore(c) ==
    /\ c.kind = "ignore"
    /\ IF ReturnIfFailOrIgnore THEN LeaveAlone
       ELSE /\ CurrentTestIgnored' = TRUE
            /\ line' = line \o TestResultsBegin("IGNORE") \o AddMsgIfSpecified(c)
            /\ TestAbort
            /\ judged' = <<>>
            /\ UNCHANGED <<suite, NumberOfTests, TestFailures, TestIgnores,
                           CurrentTestFailed, output, status>>

(* It does not look at the flags, and it ends the line.                    *)
Message(c) ==
    /\ c.kind = "message"
    /\ output' = Append(output, line \o TestResultsBegin("INFO") \o AddMsgIfSpecified(c))
    /\ line' = <<>>
    /\ GoOn
    /\ judged' = <<>>
    /\ UNCHANGED <<suite, Unity, status>>

TestPass(c) ==
    /\ c.kind = "pass"
    /\ TestAbort
    /\ judged' = <<>>
    /\ UNCHANGED <<suite, Unity, line, output, status>>

Call ==
    /\ phase \in Functions /\ next <= Len(Calls)
    /\ LET c == Calls[next] IN
       Assertion(c) \/ Holds(c) \/ Ignore(c) \/ Message(c) \/ TestPass(c)

Return ==
    /\ phase \in Functions /\ next > Len(Calls)
    /\ phase' = CASE phase = "setUp"    -> "test"
                  [] phase = "test"     -> "tearDown"
                  [] phase = "tearDown" -> "conclude"
    /\ next' = 1
    /\ judged' = <<>>
    /\ UNCHANGED <<suite, Unity, line, output, status>>

-----------------------------------------------------------------------------

ClearFlags == CurrentTestFailed' = FALSE /\ CurrentTestIgnored' = FALSE

(* Mutant of CountFailure: what was ignored counts as failed too.          *)
CountFailureOfIgnored == CurrentTestIgnored \/ CurrentTestFailed

(* What was ignored is not also counted as failed.                         *)
CountFailure == ~CurrentTestIgnored /\ CurrentTestFailed

ConcludeTest ==
    /\ phase = "conclude"
    /\ TestIgnores' = TestIgnores + (IF CurrentTestIgnored THEN 1 ELSE 0)
    /\ TestFailures' = TestFailures + (IF CountFailure THEN 1 ELSE 0)
    /\ output' = Append(output, IF CurrentTestIgnored \/ CurrentTestFailed THEN line
                                ELSE line \o TestResultsBegin("PASS"))
    /\ line' = <<>>
    /\ ClearFlags
    /\ phase' = "between"
    /\ judged' = <<>>
    /\ UNCHANGED <<suite, next, NumberOfTests, status>>

End ==
    /\ phase = "between" /\ NumberOfTests = Len(suite.tests)
    /\ output' = output \o
           <<line, <<Say("breaker")>>,
             <<Label("Tests", PrintNumber(NumberOfTests)),
               Label("Failures", PrintNumber(TestFailures)),
               Label("Ignored", PrintNumber(TestIgnores))>>,
             <<Say(IF TestFailures = 0 THEN "OK" ELSE "FAILED")>> >>
    /\ line' = <<>>
    /\ status' = TestFailures
    /\ phase' = "exit"
    /\ judged' = <<>>
    /\ UNCHANGED <<suite, next, Unity>>

Done == phase = "exit" /\ UNCHANGED vars

Next == Begin \/ DefaultTestRun \/ Call \/ Return \/ ConcludeTest \/ End \/ Done

Spec == Init /\ [][Next]_vars
=============================================================================
