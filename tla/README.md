# operative0 in TLA+

A model of the operative0 interpreter: how it cuts a source into tokens, makes a
tree of them, and evaluates the tree. It is checked with TLC on small instances
and, where this pays, proved with TLAPS for all of them. Every definition is
translated from the C code; paths below are those of the repository.

## The system

operative0 is one sequential process. `main()` reads a file (`execute_file()`) or
lines from standard input (`repl()`) and passes each source through three
stages. There are no threads and nothing is persistent; what is hard is a long
pointer-based state machine in each stage, errors in the middle of it, and the
ownership of what it has allocated.

| component | state it keeps | operations | correct when |
|---|---|---|---|
| Tokenizer, `src/parsing.c:13-194` | tokens pushed, one pending token, `slice_begin`, bracket depth | one branch per character class, five error returns, finish | the tokens tile the source, each slice is its token's span and each text of its token's type, brackets carry their depth, the first offence is the error reported |
| Parser, `src/parsing.c:196-358` | `*i`, shared by all activations; per activation a block, a pending node, `quoted` | one branch per token type, the recursive call and its return | the tree mirrors the source, every block has one owner, all of them are freed after an error |
| Numbers, `src/parsing.c:219-286`, `src/miscutil.c` | accumulator | `parse_number`, checked add and multiply | the value is that of the literal, or it does not fit |
| Evaluator, `src/main.c:75-228` | a stack of frames, in each a stack of pending calls and an index | evaluate a form, run a complete call, end a frame | calls run as soon as they are complete, values reach their call, the value is the program's, memory is freed once and in time |
| Environment, `src/runtime/env.c` | bindings of a frame | `lookup`, `bind`, `free_runtime` | the nearest binding is found, a word is bound once |
| Strings, `src/string/`, sequences, `include/seq.h` | growing arrays, slices of them, chains of slices | push, append, empty, clone, slice, compare, read from a file | what was appended is there, in order, inside the capacity; a slice keeps its text as long as its memory lives; comparison is an order |
| File reading, `src/surface.c` | a string, the stream | `read_file` | the string is the file |
| Error reporting, `src/error.c` | - | `report_err` | the caret stands under the error |
| Driver, `src/main.c:230-344` | the line, the root bindings, what is allocated | file and REPL modes | each line is answered once and by what it says, every stage's results are freed on every way out, the REPL ends with its input |
| Printing, `src/runtime/value.c`, `src/parsing.c:360-394` | - | `printval`, `fprintast` | what is printed is the value |
| Unity, `src/unity.c`, `include/unity*.h` | flags and counters of the test that runs, its output | assertions, reports, the runner | an assertion fails exactly when it should, its report shows why, a test has one verdict and the summary counts them |

How they interact: the driver hands a `StringView` to `tokenize()`; its tokens
hold slices of that string, and so do the words of the tree that
`parse_tokens()` makes of them. `eval_ast()` borrows the tree and the root
bindings, and owns its frames and calls. Errors travel up as results with a
location in the source; a panic or a failed `assert()` ends the process. The REPL
empties its string after each line, and everything the stages made of the line
refers to that string. Unity is the framework of the tests in `src/tests/`: the
runner calls `setUp()`, the test and `tearDown()`, and an assertion that fails
jumps out of them.

The list of hazards, each at its line with the properties about it, is in
`PROJECT.json`.

## The modules

`Tokens` has the token, the only thing the tokenizer and the parser share.

`Tokenizer` is `tokenize()`. The loop body is an if/else chain on the current
character, and there is one action per branch; a guard excludes the branches
above it in the chain. Variables are the locals of the function (`i`, `tokens`,
`tok`, `has_token`, `slice_begin`, `depth`) and its result (`status`,
`location`). A character is abstracted to its class, because no branch
distinguishes two characters of a class. `Builds` tells the debug build from the
release build, which CMake compiles with `NDEBUG`: a byte above 127 aborts the
first and is an unexpected character to the second. As it ends `tokenize()` in
both, one run covers them: the build is chosen where it matters.

`Parser` is `parse_tokens_helper()`. The C call stack is the variable `stack`,
one record of locals per activation, and `*i` is `pos`. Allocated blocks are in
`heap` so that ownership can be stated. Returning from a nested call and what the
caller does with the result are one step, as no other code runs in between.
`parse_number()` is abstracted to its outcome: any number may be found too large.

`Evaluator` is `eval_ast()` with `eval_form()`, `lookup()` and `free_runtime()`.
`pc` says where in the outer loop it is: at its head, in the inner loop that runs
complete calls, or behind it. `live` is the set of heap objects allocated and
not freed. Writing outside the arguments of a call, or to arguments that were
freed, is undefined behaviour and leads to `pc = "corrupt"`, where a model can
say no more. The table of operatives is a constant, since `eval_ast()` takes any
bindings: `main()` binds only `identity`, and no builtin makes an `OP_FUNCTION`
yet, but `eval_ast()` runs them and its comments speak of nested ones.
`EvaluatorMeaning` adds what a program means, by recursion over its forms and
without a stack. It uses RECURSIVE operators and is for TLC only.

`Overflow` has the checked arithmetic of `miscutil.c`, both halves of it: what
the overflow builtins answer, and the hand-written range checks. `Numbers` is
`parse_number()` on top of it, one action per digit. A double is abstracted to
the rational it approximates; rounding is left out. `NumbersPortable` relates
`parse_number()` as compiled with the range checks to the same compiled with the
builtins, which is an INSTANCE of `Numbers`.

`ReadFile` is `read_file()` with `str_pushfile()`. `fread()` is external: it
returns all that was asked for, or less at the end of the file or because of an
error, and sets the stream's flags as the C standard says. A byte of the string's
memory is the place in the file that it came from, or 0 if it was never written.

`ErrorReport` is `report_err()` for an error that has a place in its source: the
search for the line, the line, the spaces in front of the carets. `size_t`
arithmetic wraps around at `SIZE_MAX`. Its specification is `ReportSpec`, so that one
module can speak of both it and `ReadFile`.

`Interpreter` is `main()`: `execute_file()` and `repl()` composed of instances of
`Tokenizer`, `Parser` and `Evaluator`, twice for the evaluator because the REPL
keeps its root bindings and a file gives them away. `stage` says which of them
runs; a step of a stage is a step of its module. The rest is what the driver does
itself: characters read until a newline, the end of the input or an error of the
stream, what is handed to the next stage, which error is reported, what is freed
on each way out (`owned`, with the heap of `Parser` and `live` of `Evaluator`), and
whether the loop goes on. `Printed` is `printval()`: the marks it writes and the
slices of the line between them. One word is bound, to `identity`.
`Session` is what a session promises and knows no stages: lines are taken in order,
each is answered with a value, an error or a panic as the line alone determines,
and after the last one the session is closed. `Interpreter` is shown to implement
it under a refinement mapping.

`GrowingArray` is what `include/seq.h` and `string.c` share: an array with a
capacity that is doubled by `realloc()`, which keeps the block or moves it, so
that its identity is `id`. `Strings` has the operations of `string.c` on such an
array, a slice of it that remembers the block it points into, and a chain of
slices (`StringVChain`) with its limit of ten; `Environment` has `bind()` and
`lookup_bindings()` on an array of words and values. `AppendOnly` and `Dictionary`
are what a user of the two expects: a text that only grows or is emptied, and a
map. `str_pushstr()` is modelled for two different strings; no caller appends a
string to itself, which would read the block that `realloc()` has freed.

`UnityPrinting`, `UnityAsserts`, `UnityFloats` and `UnityRunner` are `src/unity.c`.
An assertion is an operator from its arguments to whether it fails and what it
reports; a report is a sequence of labels and the text shown behind them, text
being character codes where the code converts numbers, and left out where it
prints fixed words. `UnityRunner` has the flags and counters of `Unity` and the
control flow: which function runs, what its next call is, and the jump of
`TEST_ABORT()`. Widths are constants: a byte of `ByteBits` bits keeps the relation
between 1, 2, 4 and 8 bytes. `UnityMeaning` says when an assertion ought to fail,
in terms of the objects and not of the code's casts and pointers, and reads the
reports back. `Scoreboard` is a test's life: open, decided once, counted once.

`MCTokenizer`, `MCParser`, `MCEvaluator`, `MCNumbers`, `MCErrorReport`,
`MCInterpreter`, `MCEnvironment` and `MCUnity` give the constants their values.
`TokenizerProofs`, `ParserProofs`, `NumbersProofs`, `EvaluatorProofs`,
`EnvironmentProofs`, `ReadReportProofs` (for `ReadFile` and `ErrorReport`),
`UnityProofs` and `InterpreterProofs` hold the theorems.

Operators whose comment begins with "Mutant of" are wrong on purpose. They
stand for plausible bugs in the operator after them; no specification uses them,
and each is there because replacing that operator by it violates a property.

## What is checked

All constants are small, and all of the inputs within them are initial states;
every run is exhaustive.

| run | bounds | question |
|---|---|---|
| `tokenizer` | both builds; all sources of 4 characters out of 10 classes, all of 6 out of the number and word characters, all of 6 out of brackets, letter and blank | tokens tile the source, slices are spans, each is a longest text of its type, brackets match, the verdict is that of the source |
| `parser` | all 6-token sequences that `tokenize()` can return | one owner for each block at any time, also after an error; depths; order; the tree mirrors the source if blanks follow closing brackets and only words are quoted |
| `evaluator` | the REPL: programs of 6 forms over `identity`, an unbound word and data; programs of 5 forms over builtins with 0, 1 and 2 arguments, a bound value, an unbound word; programs of 5 forms over two of these builtins and three functions, which call each other three deep and are called under waiting calls too, but not as the last argument of one | calls are run in time, writes are in bounds, memory is owned; the value computed is the program's and the result is its last form; what a waiting call has been given is what the expressions behind its word mean, also if functions computed it |
| `numbers` | literals of 4 characters out of sign, point and 7 digits, a long long of 8 bits, without overflow builtins | the value is the literal's, or no long long has it; doubles; the same program as with the builtins |
| `read_file` | files of 0 to 8 bytes in chunks of 3, with errors and short reads anywhere | room for every chunk, the length, the content of a file of one chunk, it returns |
| `error_report` | all errors in sources of 6 characters, `size_t` of 4 bits | reads in bounds, the line printed, the column in the first line |
| `interpreter` | files and REPL sessions of 4 characters out of 10 classes and the newline, all of 5 out of letter, quote, blank and newline and out of digit, unknown character, quote, letter and newline, all of 6 out of brackets, letter and blank; inputs of 2 characters that end in a read error or an interrupt; one bound word of one letter; debug build | errors lie in one line; the answer to a line is what its items say, and shows its last item, so that what `eval_ast()` returns is what the calls made; at the prompt nothing is allocated but the string and the bindings; the session refines `Session`; it ends with its input, and so each stage returns |
| `strings` | strings of at most 4 characters, two different ones, from a capacity of 2 and with three moves; four literals, the empty one among them; chains of 3 links and one part more; both builds | what was pushed is there after any move; a slice keeps its text until its memory is reused; a message that fits shows all its parts; comparison is the order of the texts; strings refine `AppendOnly`, bindings refine `Dictionary` |
| `unity` | bytes of 2 bits, floats with 2 digits; single assertions of every kind with values at the ends of their ranges, short strings with characters that must be escaped, arrays of two elements, NaN and infinities; suites of two tests with one call or none in `setUp()`, the first test and `tearDown()` and up to two in the second, out of seven that decide a test or leave it open | every assertion fails exactly when what it says is not so; reports show a difference but for the exceptions that `ReportsDiffer` names, and read back as the values compared; the summary is the count of the lines; the runner refines `Scoreboard` |

Four characters are the shortest source with an error after a token after a
token, and six are needed for a number with a sign, two points and a digit on
each side of them, and for brackets three deep. Six tokens have three nested
blocks and a quote in front of a number before a word. Two calls pending under a
third need four forms with arities up to two, and so does a complete
call of two arguments whose first is made by a function that takes one; a fifth
leaves room for a call around it or a form behind it. Literals of four characters reach
`-128`, the smallest long long of 8 bits, and zeros on both sides of a point;
chunks of 3 in files of 8 end inside, at and behind a chunk; sources of 6
characters have an error with empty lines and full ones around it. Five
characters are a line with a quote or an error and a second line after it, six
are nested blocks with something in and behind them. Three moves reach a capacity
of eight times the first, and a chain of 3 is full after 3 parts as one of 10 is
after 10. With 2 bits to a byte the eight-byte integers have 16 bits, and the four widths and
their ends stay apart, so that every cast and sign extension of the code matters;
characters of strings keep their eight bits.

The other runs show a disagreement between the code and what it says of itself:

| run | what TLC finds |
|---|---|
| `parser_mirrors` | `parse_tokens()` skips the token after a nested block: `*i` is behind the closing bracket when the loop increments it again (`src/parsing.c:296`, `:308`). `[]a` loses its `a`, `[a][b]` is parsed as `[[a], b]` since the second opening bracket is skipped, and `[[a]b]` as `[[a]]`; after brackets that close together, what is read as `closing_bracket` (`src/parsing.c:315`) is another token or lies past the end |
| `interpreter_eof` | `eval_ast()` returns `result` (`src/main.c:227`), which a program without forms leaves uninitialized, where `value` is nil (`src/main.c:123`). The REPL evaluates such a program at every blank line and, as it looks for the end of the input only after an answer, at the end of every input whose last character is a newline |
| `read_file_content` | `str_pushfile()` reads each chunk to the start of the string (`src/string/string.c:92`): of a file longer than 1024 bytes, only the length is right |

More of the same kind, which no run of their own is spent on; where a property of a
passing run would meet one, its comment names it as the exception:

- `'-5 a`: the quote is accepted for the word `-`, which a digit then makes a
  number; `quoted` is not used up by a number (`src/parsing.c:323-332`, `:343`) and
  `a` is quoted. `SpacedParseMirrorsSource` and `AnswerCorrect` are therefore about
  quotes before words.
- `eval_ast()` returns `result`, the value of the last form it evaluated, and not
  `value`, what the calls made of it (`src/main.c:227`). `OutcomeCorrect` says so for
  both: the caller gets what the program means only where these are the same, as
  they are with `identity`, the one builtin that is shipped.
- A function's value can complete a call of its caller (`src/main.c:164`), which is
  not run; the comment at `src/main.c:187` says this cannot be, and the next form is
  written past the arguments. The program as shipped binds no function.
- On lines after the first the caret stands one column to the left, and at the
  start of such a line the number of spaces wraps around (`src/error.c:43`). `FirstLineCaret`
  is about the first line, the only one the REPL has.
- The quote's error covers the quote and the character after it
  (`src/parsing.c:108`); in a file that may be a newline, where `include/error.h:23`
  assumes one line. `ErrorsInOneLine` has this as its one exception.
- After an error the REPL does not look for the end of the input; the next
  `getc()` returns it again and the line is empty, so that the session ends
  through the answer to an empty program (`src/main.c:331`).
- An empty text takes no link of a chain, since a link of length 0 counts as free;
  an eleventh part is dropped by the release build (`src/string/string.c:107-116`).
- `UnityPrintMask()` prints the low 32 of 64 bits (`src/unity.c:331`), so that a
  report of `TEST_ASSERT_BITS` on wider values may show two equal ones.
- `UnityPrintFloat()` prints 7 digits, and 0 for what is below 1e-5 (`src/unity.c:381`,
  `:459`): two floats that were found to differ may be printed alike.
  `ReportsFaithful` allows it where both are that small, or not further apart than a
  unit of the last digit of the larger one, and nowhere else.
- A failed `UnityAssertNotEqualStringLen()` shows the first characters of both texts,
  which are alike, and then the character behind them, which was not compared and
  may differ (`src/unity.c:2000`).
- `UnityPrintFloat()` splits off the integer part before it rounds, so that
  1234567.5 is shown as 1234567: the half is rounded to the even fraction, not to
  the even number that the comment at `src/unity.c:462` speaks of.
- With a NaN delta, the comparison of two floats passes everything finite
  (`src/unity.c:1023`), and that of arrays rejects it (`src/unity.c:1085`).
- A message from `tearDown()` after a failed test is printed into the line of the
  failure (`src/unity.c:2478`).

`evaluator` therefore has no program in which a function is the last argument of a
call (`NeverLast`). It also stays within the first capacity of the frame stack,
`SeqSize`: pushing a function's frame may move the frames while `cstack` points into
them, and the call is then popped from the freed array (`src/main.c:212-214`).
`ApplyFunction` has both outcomes; with `SeqSize = 2` in `MCEvaluator.cfg` TLC shows
that `MemoryOwned` fails in this way. Neither defect is covered by a property that
is checked.

Fairness: `read_file()` and the interpreter are sequential code that runs until
it returns, so weak fairness of the whole next-state relation is all that is
assumed, for `Terminates` and `EndsWithInput`. For the interpreter this also
says that `getc()` returns: the input is there or at its end, as for a file or a
pipe; a user may of course think for ever. `EndsWithInput` has one exception:
the result of an empty program is garbage that may read as an error each time,
and then the REPL, at the end of its input, starts over each time. The
refinements of `Session`, `AppendOnly`, `Dictionary` and `Scoreboard` are safety
properties and need no fairness. The final states stutter explicitly
(`Returned`, `Stopped`), so deadlock is checked everywhere.

## What is proved

For every value of the constants:

- `TokenizerProofs`: all seven properties of the tokenizer. `TypeOK` includes that
  `tokenize()` stays inside the source. The tiling is not inductive by itself:
  a pending token is extended from `slice_begin`, so the invariant `IInv` adds
  that a pending token starts at `slice_begin`, ends at `i`, and that the tokens
  before it tile the source up to its start; `TokensTile` and `SliceIsSpan` follow.
  There is one lemma for each way a branch changes the tokens (push a mark, start,
  extend, fail), and each branch is an instance of one. `VerdictCorrect` needs that
  what has been scanned is free of offences and that `depth` is the difference of
  two counts (`VInv`); `BracketsMatch` needs what is still open at each depth
  (`BInv`); `TokensAreLexemes` that the pending token is a lexeme already and that
  the token pushed last does not go on (`LInv`). `ResultIsTokenStream` is what
  `Parser` assumes of its `TokenStreams`, and `ResultIsBalanced` that every bracket
  in a result closes, which the tree of a source needs.
- `ParserProofs`: all four properties of the `parser` run, `BlocksHeldOnce`,
  `DepthIsNesting`, `NodesInSourceOrder` and `SpacedParseMirrorsSource`. The
  invariant `PInv` says of the heap and the stack that activations fill blocks of
  rising index and depth, that only the top one has a node pending, that a block
  is held in one way by one holder, and that everything in the tree stands before
  the tokens to come. A step is proved in two: first the emission of the pending
  node, then what is done with a stack that has none. Freeing all blocks from the
  roots, after an error (`RejectNumber`) or of a result (`ResultFreesAll`), follows
  from the least block that would be missed: its holder is an earlier one.
  For the tree the invariant is `MInv`: after `q` tokens the activations are for the
  brackets opened and not closed (`Nest`), and a block holds, or waits for, exactly
  the nodes of those of the `q` tokens that are directly in its bracket (`Tree`). The
  token that the code skips after a nested block is white space in the sources that
  `SpacedParseMirrorsSource` is about; this is the only place where that is used.
- `NumbersProofs`: the range checks of `miscutil.c` are exact for any two
  operands of a long long of any width (`OverflowsExact`, from bounds on integer
  division, one case for each pair of signs). With it, `TypeOK` of `Numbers`: the
  integer is in range after every digit, and the loop to the point stays in the
  text, which it does not check; the invariant `Position` says that the point is
  ahead of that loop and behind the next. `ValueIsLiteral`: the accumulator is the
  value of the digits read, and once they do not fit no more digits can make them
  fit. `parse_number()` with the range checks implements `parse_number()` with the
  builtins, step by step; the invariant is needed because the checks are exact only
  for operands in range.
- `EvaluatorProofs`: `TypeOK` for any table of builtins and functions. Its
  invariant adds that the root frame has no parent, which bounds the chains that
  `lookup()` follows. If every operative is a builtin, as in the program that is
  shipped: `PendingCallsOpen`, `ArgumentsInBounds` and `MemoryOwned`. The
  invariant is the discipline of pending calls: only the top one can have all its
  arguments, and only in the inner loop; then what is live is one object per
  call and three more. If they take one argument each, like that of `main()`,
  `UnaryProgramsAnswered` says what any program ends in: a word without a binding
  is an error, a last form that is an operative a panic, and otherwise the value
  computed is what the builtins of the words before the last form make of it, the
  nearest first, while the result returned is the last form itself, as
  `src/main.c:227` has it. Its invariant `WInv` says that a call is pending exactly
  behind a word; `AInv` adds that the calls pending are those of the words just
  before the forms that `value` has been made of (`Awaits`, `ComesTo`).
- `EnvironmentProofs`: `Strings` implements `AppendOnly`, and `Environment`
  implements `Dictionary`, both from lemmas about `GrowingArray`: whatever
  `realloc()` does, the array keeps what it holds and has room. The strings'
  invariant adds what is still to be appended of an operation in progress and that
  a view lies behind no text that was changed (`ViewKeepsText`). `bind()` relies on
  `strv_cmp()` being 0 for equal words only, which is part of `ComparesInOrder`.
  `MessageComplete` holds for a chain of any length.
- `ReadReportProofs`, of the two small modules that a file's errors pass through.
  `TypeOK`, `RoomForChunk` and `LengthIsSize` of `ReadFile` for any file and
  chunk, from the invariant that the stream's position is what `len` and
  `consumption` count, unless there was an error; `ChunkRead`, that a file of one
  chunk is read as it is. `ReportTypeOK`, `LinePrinted` and `FirstLineCaret` of
  `ErrorReport` for sources of any length. The invariant follows the line through the
  function's loops: `line_idx` is the start of the line as far as it is known, no
  newline lies between it and where the loop is, and what is printed counts from it.
- `UnityProofs`: `SummaryMatchesLines`, and `ImplementsScoreboard`, for suites of any
  tests that call any assertions in any order. The invariant `UInv` relates the
  output to the counters: it has one verdict for each test that is over, the k-th is
  that of test k, and as many say FAIL and IGNORE as are counted; the test that runs
  is in it if it has been decided and its line has ended (`Shown`), or its verdict is on the
  line being printed (`Pending`), and in both cases it is counted only in
  `UnityConcludeTest()`. What an assertion reports is irrelevant but for its labels:
  no report contains the word of a verdict besides its own (`JudgedQuietly`, over all
  kinds of assertions). Hence the one assumption on suites, `SuitesAssumption`: a
  call is of a kind that there is, and where the code prints the name of a comparison
  or of a trait, the argument is one of its enumeration.
- `InterpreterProofs`: `PromptClean`, `ErrorsInOneLine`, `AnswerCorrect`,
  `EchoesLastItem`, and that the interpreter implements `Session`, for inputs of any
  length. `AnswerCorrect` and `EchoesLastItem` are about lines that are accepted and
  whose brackets close before white space (`Spaced`); what a rejected line is
  answered is part of `Session`. Nothing is proved again of the stages: their proof modules are
  instantiated with every input of the type that a stage can be started on, a
  stage's step in `Interpreter` is shown to be a step there, and the start of a
  stage an initial state. So the invariants of the stages hold from call to call
  (`DriverInvariant`), and what is left is the driver's: what is allocated at each
  stage of a line, and which place is reported. That a rejected number lies in one
  line uses the lexemes of the tokenizer, that its place is inside the source the
  tiling, that the tree is freed the parser's ownership, and that `eval_ast()`
  leaves the root bindings alone its `MemoryOwned`. `AnswerCorrect` needs two stages
  at once: by `MInv` of the parser the forms of a line are its items (`Evals` keeps
  them until the line ends), and by `WInv` of the evaluator they are answered as they say
  (`Answered`). `Session` knows only characters, so its answers have to be traced
  back to them: a text is accepted by the tokenizer if and only if it is one that
  `Lexes` describes without tokens (`AcceptedLexes`, `RejectedLexes`, from the
  invariants that make `VerdictCorrect` hold), and a line of quoted words and blocks
  becomes forms that are all data (`DataAnswered`). `Reading` says what of the input
  is still in the line being read, and `Replies` carries the answer to the last step.
  `EchoesLastItem` joins all three stages: `eval_ast()` returns the last node of the
  root (`Shown`, from `WInv`), that node is the one of the last item (`LastNode`), and
  what `printval()` writes for the tree is what the tokens of the item say. The last
  is shown for a block at a time (`RowIs`): the nodes are its items in order, between
  two of them there are blanks and quotes only (`GapInvisible` of `ParserProofs`), and
  a blank is printed where an item follows another. `Elements`, the recursion of
  `printval()` over inner blocks, is then settled from the innermost block outwards
  (`ElementsAre`), as a block begins behind the bracket of the one it is in.

The assumptions are those of the modules: sources are sequences of character
classes and one of the two builds runs them, token sequences are in the order of
the source, programs are sequences of forms, builtins return values, arities are
natural numbers, the capacity of a sequence is positive, the bounds of strings and
chains are natural numbers, literals are what `LexemesWellFormed` says of numbers, a long long can hold 10, an
error lies inside its source and in one line, as `include/error.h` assumes, and the
input of the interpreter is no longer than a `size_t` can count. Two of them are
results of other modules: token sequences by `ResultIsTokenStream`, places of errors
by `ErrorsProved`.

The prover has no induction over data. Where a proof needs one, it takes the least
element of the set of counterexamples (`NatLeast`, from the well-foundedness of finite
sets that the library proves): for what `FreedWith`, `Elements` and `PowerOfTen` compute, and
that their recursive functions exist at all. Powers of ten are therefore the value
that `Reading` gives a one and zeros, as `^` is unknown to the provers.

Only model-checked:

- `Terminates` and `EndsWithInput`: liveness is out of the prover's reach.
- `OutcomeCorrect` and `ArgumentsCorrect`, which compare with a RECURSIVE reference.
  With functions the second holds only of programs like those of the run: not where
  a function is a call's last argument, and not once the frames are moved.
- `VerdictsCorrect` and `ReportsFaithful`: they are about the digits and bytes of
  values, through powers and folds that the provers do not expand.

Trying to prove `AnswerCorrect` showed that its arms, like those of a few other
operators, were CASE arms that overlap, where TLA+ leaves the choice open and TLC
takes the first; they are IF chains now, in the order of the code. The verdicts in
`SummaryMatchesLines` are found by their places in the output, and no longer by
filtering it with `SelectSeq`, which no prover here expands.

The type invariants of `Evaluator` and `ReadFile` are proved and not checked besides.

## What is not modelled, and what is left

`frozen()` is the identity on data: the block it allocates is never freed, which
the code says (`src/main.c:58`). `fprintast()` prints the tree before a panic and
changes nothing; the digits of a printed number are `printf()`'s. Memory exhaustion
panics everywhere and is left out. Of Unity: double precision
(`UNITY_EXCLUDE_DOUBLE` is the default), `UnityPrintf`, the detail stack and the
command line, which no build of this repository compiles in, and the rounding of float
arithmetic, as in `Numbers`. The macros of `unity.h` that only name an assertion of
another width are the styles of one.

Left to do: proofs about functions, for which the invariant of `eval_ast()` has to
follow the calls of every frame and not of the first only, and the digits that
Unity prints for every width.
