----------------------------- MODULE Interpreter -----------------------------
(***************************************************************************)
(* main() of src/main.c: execute_file() and repl() with the stages they    *)
(* run, each an instance of its own module.  What the stages leave to      *)
(* their caller is here: what is read, when a stage starts, which error is *)
(* reported, what is printed, what is freed on each way out, and when the  *)
(* REPL ends.                                                              *)
(***************************************************************************)
EXTENDS Tokens, FiniteSets, SequencesExt

CONSTANTS
    Inputs,   (* what the program is given: mode, text, how the text ends   *)
    Build,    (* "debug" or "release"                                       *)
    Name,     (* the one word that is bound: as the classes of its letters  *)
    SIZE_MAX  (* the largest size_t: a string in memory is not longer       *)

VARIABLES
    mode, ending,   (* execute_file() or repl(); how the input ends         *)
    stdin,          (* what getc() has not returned yet; the file           *)
    at_eof,         (* feof(stdin)                                          *)
    buf,            (* the characters of repl_input or file_content         *)
    stage,          (* what runs; "exit" and "abort" are the ends           *)
    owned,          (* of "input", "tokens": allocated and not freed        *)
    err,            (* the place of the error to report                     *)
    last,           (* the last line answered, and how: only for properties *)
    (* the variables of the stages                                          *)
    src, i, tokens, tok, has_token, slice_begin, depth, status, location,
    pos, stack, heap, freed, outcome,
    fstack, fcap, cur, value, result, live, pc

drivervars == <<mode, ending, stdin, at_eof, buf, stage, owned, err, last>>
tokenizervars == <<src, i, tok, has_token, slice_begin, depth, status, location>>
parservars == <<pos, stack, heap, freed, outcome>>
evaluatorvars == <<fstack, fcap, cur, value, result, live, pc>>
vars == <<drivervars, tokenizervars, tokens, parservars, evaluatorvars>>

T == INSTANCE Tokenizer WITH Sources <- {}, Builds <- {Build}

(* Newlines matter to the REPL and to the error report only.               *)
Character == T!Char \cup {"n"}

ASSUME BuildAssumption == Build \in {"debug", "release"}
ASSUME SizeAssumption == SIZE_MAX \in Nat
ASSUME InputsAssumption ==
    \A input \in Inputs :
        /\ input.mode \in {"repl", "file"}
        /\ input.text \in Seq(Character) /\ Len(input.text) <= SIZE_MAX
        /\ input.ending \in {"eof", "error", "interrupt"}

P == INSTANCE Parser WITH TokenStreams <- {s \in Seq(Token) : InSourceOrder(s)}

(* A data form is the k-th node of the root block, so that what is printed *)
(* can be found in the tree.  default_builtins() binds identity only.      *)
Operation == [type |-> "op", id |-> "identity"]
RootBindings == [w \in {"identity"} |-> Operation]
Apply(op, args) == args[1]

FileEval == INSTANCE Evaluator WITH
    Programs <- {}, Word <- {"identity", "other"}, Data <- Nat, Builtin <- {"identity"},
    Function <- {}, Arity <- [op \in {"identity"} |-> 1], Body <- [op \in {} |-> <<>>],
    SeqSize <- 8, FreeRoot <- TRUE

ReplEval == INSTANCE Evaluator WITH
    Programs <- {}, Word <- {"identity", "other"}, Data <- Nat, Builtin <- {"identity"},
    Function <- {}, Arity <- [op \in {"identity"} |-> 1], Body <- [op \in {} |-> <<>>],
    SeqSize <- 8, FreeRoot <- FALSE

NoError == [src_idx |-> 0, len |-> 0]
Unanswered == [line |-> <<>>, outcome |-> "none"]

(* repl() makes its bindings and its string first, execute_file() neither. *)
Init ==
    /\ \E input \in Inputs :
          /\ mode = input.mode /\ stdin = input.text /\ ending = input.ending
          /\ owned = IF input.mode = "repl" THEN {"input"} ELSE {}
          /\ live = IF input.mode = "repl" THEN {ReplEval!Bindings(1)} ELSE {}
    /\ at_eof = FALSE /\ buf = <<>> /\ stage = "read" /\ err = NoError /\ last = Unanswered
    /\ src = <<>> /\ i = 0 /\ tokens = <<>> /\ tok = T!ZeroToken /\ has_token = FALSE
    /\ slice_begin = 0 /\ depth = 0 /\ status = "scan" /\ location = NoError
    /\ pos = 0 /\ stack = <<>> /\ heap = <<>> /\ freed = {} /\ outcome = "run"
    /\ fstack = <<>> /\ fcap = 0 /\ cur = 0 /\ value = ReplEval!Nil
    /\ result = ReplEval!Indeterminate /\ pc = "walk"

----------------------------------------------------------------------------
(* Reading.                                                                *)

(* To the tokenizer a newline is white space like any other.               *)
Classes(text) == [k \in 1 .. Len(text) |-> IF text[k] = "n" THEN " " ELSE text[k]]

(* The call of tokenize() on all of the string: its locals start anew.     *)
StartTokenize ==
    /\ stage' = "tokenize"
    /\ src' = Classes(buf') /\ i' = 0 /\ tokens' = <<>> /\ tok' = T!ZeroToken
    /\ has_token' = FALSE /\ slice_begin' = 0 /\ depth' = 0 /\ status' = "scan"
    /\ location' = NoError

Typed == stage = "read" /\ mode = "repl" /\ stdin # <<>>

ReadCharacter ==
    /\ Typed /\ Head(stdin) # "n" /\ T!Passes(Head(stdin))
    /\ buf' = Append(buf, Head(stdin))
    /\ stdin' = Tail(stdin)
    /\ UNCHANGED <<mode, ending, at_eof, stage, owned, err, last>>
    /\ UNCHANGED <<tokenizervars, tokens, parservars, evaluatorvars>>

(* assert(character <= 127) in str_push.                                   *)
AbortCharacter ==
    /\ Typed /\ ~ T!Passes(Head(stdin))
    /\ stage' = "abort"
    /\ UNCHANGED <<mode, ending, stdin, at_eof, buf, owned, err, last>>
    /\ UNCHANGED <<tokenizervars, tokens, parservars, evaluatorvars>>

ReadLine ==
    /\ Typed /\ Head(stdin) = "n"
    /\ stdin' = Tail(stdin)
    /\ UNCHANGED buf
    /\ StartTokenize
    /\ UNCHANGED <<mode, ending, at_eof, owned, err, last, parservars, evaluatorvars>>

(* getc() returns EOF, and does so again if it is called once more.  What  *)
(* was typed before it is a line.                                          *)
ReadEnd ==
    /\ stage = "read" /\ mode = "repl" /\ stdin = <<>> /\ ending = "eof"
    /\ at_eof' = TRUE
    /\ UNCHANGED buf
    /\ StartTokenize
    /\ UNCHANGED <<mode, ending, stdin, owned, err, last, parservars, evaluatorvars>>

(* ferror(stdin): repl() returns if it was a signal, and panics otherwise. *)
(* execute_file() panics if the file cannot be read.                       *)
ReadFails ==
    /\ stage = "read" /\ (mode = "file" \/ stdin = <<>>) /\ ending # "eof"
    /\ stage' = IF mode = "repl" /\ ending = "interrupt" THEN "exit" ELSE "abort"
    /\ UNCHANGED <<mode, ending, stdin, at_eof, buf, owned, err, last>>
    /\ UNCHANGED <<tokenizervars, tokens, parservars, evaluatorvars>>

(* read_file() has succeeded, for a file of one chunk.                     *)
ReadFile ==
    /\ stage = "read" /\ mode = "file" /\ ending = "eof"
    /\ buf' = stdin /\ stdin' = <<>>
    /\ owned' = {"input"}
    /\ StartTokenize
    /\ UNCHANGED <<mode, ending, at_eof, err, last, parservars, evaluatorvars>>

----------------------------------------------------------------------------
(* The stages.                                                             *)

Tokenize ==
    /\ stage = "tokenize" /\ status = "scan"
    /\ T!Next
    /\ UNCHANGED <<drivervars, parservars, evaluatorvars>>

ToReport(place) ==
    /\ stage' = "report"
    /\ err' = place
    /\ UNCHANGED <<mode, ending, stdin, at_eof, buf, last>>

TokenizeFails ==
    /\ stage = "tokenize" /\ status \in T!Errors
    /\ ToReport(location)
    /\ UNCHANGED <<owned, tokenizervars, tokens, parservars, evaluatorvars>>

(* tokens.ptr is the caller's now; parse_tokens() starts.                  *)
StartParse ==
    /\ stage = "tokenize" /\ status = "ok"
    /\ stage' = "parse"
    /\ owned' = owned \cup {"tokens"}
    /\ pos' = 0 /\ stack' = <<P!NewFrame(1)>> /\ heap' = <<[seq |-> <<>>, depth |-> 0]>>
    /\ freed' = {} /\ outcome' = "run"
    /\ UNCHANGED <<mode, ending, stdin, at_eof, buf, err, last>>
    /\ UNCHANGED <<tokenizervars, tokens, evaluatorvars>>

Parse ==
    /\ stage = "parse" /\ outcome = "run"
    /\ P!Next
    /\ UNCHANGED <<drivervars, tokenizervars, evaluatorvars>>

(* Mutant of ParseFails: the error is as long as the source.               *)
ParseFailsWholeSource ==
    /\ stage = "parse" /\ outcome = "error"
    /\ ToReport([src_idx |-> tokens[pos + 1].src_idx, len |-> Len(src)])
    /\ owned' = IF mode = "file" THEN owned \ {"tokens"} ELSE owned
    /\ UNCHANGED <<tokenizervars, tokens, parservars, evaluatorvars>>

(* execute_file() frees the tokens before it reports, repl() after.        *)
ParseFails ==
    /\ stage = "parse" /\ outcome = "error"
    /\ ToReport([src_idx |-> tokens[pos + 1].src_idx, len |-> tokens[pos + 1].len])
    /\ owned' = IF mode = "file" THEN owned \ {"tokens"} ELSE owned
    /\ UNCHANGED <<tokenizervars, tokens, parservars, evaluatorvars>>

TokenOf(node) == tokens[node.last + 1]

(* Mutant of FormOf: is_quoted is not looked at.                           *)
FormOfWord(k) ==
    LET node == heap[1].seq[k]
    IN  IF node.type = "word"
        THEN [kind |-> "word",
              id |-> IF T!Text(TokenOf(node)) = Name THEN "identity" ELSE "other"]
        ELSE [kind |-> "data", id |-> k]

FormOf(k) ==
    LET node == heap[1].seq[k]
    IN  IF node.type = "word" /\ ~ node.quoted
        THEN [kind |-> "word",
              id |-> IF T!Text(TokenOf(node)) = Name THEN "identity" ELSE "other"]
        ELSE [kind |-> "data", id |-> k]

(* eval_ast() starts on the root.  The REPL lends it bindings that outlive *)
(* it, execute_file() makes them now and gives them away.                  *)
StartEval ==
    /\ stage = "parse" /\ outcome = "ok"
    /\ stage' = "eval"
    /\ fstack' = <<ReplEval!NewFrame([k \in 1 .. Len(heap[1].seq) |-> FormOf(k)], RootBindings, 0)>>
    /\ fcap' = 8 /\ cur' = 1 /\ value' = ReplEval!Nil /\ result' = ReplEval!Indeterminate
    /\ pc' = "walk"
    /\ live' = live \cup {ReplEval!FStack, ReplEval!CStack(1)}
                    \cup (IF mode = "file" THEN {ReplEval!Bindings(1)} ELSE {})
    /\ UNCHANGED <<mode, ending, stdin, at_eof, buf, owned, err, last>>
    /\ UNCHANGED <<tokenizervars, tokens, parservars>>

Evaluate ==
    /\ stage = "eval" /\ pc \in {"walk", "apply", "next"}
    /\ IF mode = "file" THEN FileEval!Next ELSE ReplEval!Next
    /\ UNCHANGED <<drivervars, tokenizervars, tokens, parservars>>

(* The word of the message is a slice of the source, which is still there; *)
(* the error has no place to show.                                         *)
EvalFails ==
    /\ stage = "eval" /\ pc = "error"
    /\ ToReport(NoError)
    /\ IF mode = "file"
       THEN owned' = owned \ {"tokens"} /\ freed' = P!FreedWith(heap, {1})
       ELSE UNCHANGED <<owned, freed>>
    /\ UNCHANGED <<pos, stack, heap, outcome, tokenizervars, tokens, evaluatorvars>>

(* panicf() on an incomplete call.                                         *)
EvalPanics ==
    /\ stage = "eval" /\ pc = "panic"
    /\ stage' = "abort"
    /\ last' = [line |-> buf, outcome |-> "panic"]
    /\ UNCHANGED <<mode, ending, stdin, at_eof, buf, owned, err>>
    /\ UNCHANGED <<tokenizervars, tokens, parservars, evaluatorvars>>

EvalReturns ==
    /\ stage = "eval" /\ pc = "done" /\ result # ReplEval!Indeterminate
    /\ stage' = "print"
    /\ UNCHANGED <<mode, ending, stdin, at_eof, buf, owned, err, last>>
    /\ UNCHANGED <<tokenizervars, tokens, parservars, evaluatorvars>>

(* An empty program's result is uninitialized: r.type may read as either,  *)
(* and printval() may panic on the type of the value.                      *)
EvalReturnsGarbage ==
    /\ stage = "eval" /\ pc = "done" /\ result = ReplEval!Indeterminate
    /\ \/ /\ stage' = "print"
          /\ UNCHANGED <<err, last>>
       \/ /\ stage' = "report" /\ err' = NoError
          /\ UNCHANGED last
       \/ /\ stage' = "abort"
          /\ last' = [line |-> buf, outcome |-> "panic"]
          /\ UNCHANGED err
    /\ UNCHANGED <<mode, ending, stdin, at_eof, buf>>
    /\ IF mode = "file" /\ stage' = "report"
       THEN owned' = owned \ {"tokens"} /\ freed' = P!FreedWith(heap, {1})
       ELSE UNCHANGED <<owned, freed>>
    /\ UNCHANGED <<pos, stack, heap, outcome, tokenizervars, tokens, evaluatorvars>>

(* Mutant of Report: the tree is kept when evaluation fails.               *)
ReportKeepsTree ==
    /\ stage = "report"
    /\ last' = [line |-> buf, outcome |-> "error"]
    /\ IF mode = "file"
       THEN stage' = "exit" /\ UNCHANGED <<buf, owned>>
       ELSE stage' = "read" /\ buf' = <<>> /\ owned' = owned \ {"tokens"}
    /\ UNCHANGED <<mode, ending, stdin, at_eof, err, freed>>
    /\ UNCHANGED <<pos, stack, heap, outcome, tokenizervars, tokens, evaluatorvars>>

(* report_err(), and what follows it: execute_file() returns EXIT_FAILURE, *)
(* repl() empties its string, frees what the stages reached have left, and *)
(* continues, without a look at feof(stdin).                               *)
Report ==
    /\ stage = "report"
    /\ last' = [line |-> buf, outcome |-> "error"]
    /\ IF mode = "file"
       THEN stage' = "exit" /\ UNCHANGED <<buf, owned, freed>>
       ELSE /\ stage' = "read" /\ buf' = <<>>
            /\ owned' = owned \ {"tokens"}
            /\ freed' = IF status = "ok" /\ outcome = "ok" THEN P!FreedWith(heap, {1}) ELSE freed
    /\ UNCHANGED <<mode, ending, stdin, at_eof, err>>
    /\ UNCHANGED <<pos, stack, heap, outcome, tokenizervars, tokens, evaluatorvars>>

(* Mutant of PrintValue: the string is not emptied.                        *)
PrintValueKeepsLine ==
    /\ stage = "print"
    /\ last' = [line |-> buf, outcome |-> "value"]
    /\ owned' = owned \ ({"tokens"} \cup (IF mode = "file" \/ at_eof THEN {"input"} ELSE {}))
    /\ freed' = P!FreedWith(heap, {1})
    /\ stage' = IF mode = "file" \/ at_eof THEN "exit" ELSE "read"
    /\ UNCHANGED <<mode, ending, stdin, at_eof, err, buf>>
    /\ UNCHANGED <<pos, stack, heap, outcome, tokenizervars, tokens, evaluatorvars>>

(* Mutant of PrintValue: the REPL does not look at feof(stdin).            *)
PrintValueGoesOn ==
    /\ stage = "print"
    /\ last' = [line |-> buf, outcome |-> "value"]
    /\ owned' = owned \ {"tokens"}
    /\ freed' = P!FreedWith(heap, {1})
    /\ buf' = <<>>
    /\ stage' = IF mode = "file" THEN "exit" ELSE "read"
    /\ UNCHANGED <<mode, ending, stdin, at_eof, err>>
    /\ UNCHANGED <<pos, stack, heap, outcome, tokenizervars, tokens, evaluatorvars>>

(* printval(), and what follows it.                                        *)
PrintValue ==
    /\ stage = "print"
    /\ last' = [line |-> buf, outcome |-> "value"]
    /\ owned' = owned \ ({"tokens"} \cup (IF mode = "file" \/ at_eof THEN {"input"} ELSE {}))
    /\ freed' = P!FreedWith(heap, {1})
    /\ buf' = <<>>
    /\ stage' = IF mode = "file" \/ at_eof THEN "exit" ELSE "read"
    /\ UNCHANGED <<mode, ending, stdin, at_eof, err>>
    /\ UNCHANGED <<pos, stack, heap, outcome, tokenizervars, tokens, evaluatorvars>>

(* main() has returned or the process is gone.                             *)
Ended == stage \in {"exit", "abort"} /\ UNCHANGED vars

(* assert() in tokenize(): the debug build only.                           *)
TokenizeAborts ==
    /\ stage = "tokenize" /\ status = "abort"
    /\ stage' = "abort"
    /\ last' = [line |-> buf, outcome |-> "panic"]
    /\ UNCHANGED <<mode, ending, stdin, at_eof, buf, owned, err>>
    /\ UNCHANGED <<tokenizervars, tokens, parservars, evaluatorvars>>

Next ==
    \/ ReadCharacter \/ AbortCharacter \/ ReadLine \/ ReadEnd \/ ReadFails \/ ReadFile
    \/ Tokenize \/ TokenizeFails \/ TokenizeAborts
    \/ StartParse \/ Parse \/ ParseFails
    \/ StartEval \/ Evaluate \/ EvalFails \/ EvalPanics \/ EvalReturns \/ EvalReturnsGarbage
    \/ Report \/ PrintValue
    \/ Ended

Spec == Init /\ [][Next]_vars

(* One process, whose calls return: getc() too, as the input is there.     *)
FairSpec == Spec /\ WF_vars(Next)

----------------------------------------------------------------------------
(* What printval() writes for a value: brackets, blanks and slices of the  *)
(* source, a number standing for its literal.                              *)
Mark(m) == <<[mark |-> m, begin |-> 0, size |-> 0]>>
Slice(t) == <<[mark |-> "slice", begin |-> t.begin, size |-> t.size]>>

(* Mutant of Separator: a blank in front of the first element too.         *)
SeparatorAlways(n) == Mark(" ")

Separator(n) == IF n > 1 THEN Mark(" ") ELSE <<>>

(* printval(), of a value whose inner blocks are printed as rows says.     *)
Element(node, rows) ==
    IF node.type = "block" THEN Mark("[") \o rows[node.block] \o Mark("]") ELSE Slice(TokenOf(node))

(* The elements of each block in the tree.                                 *)
Elements[b \in 1 .. Len(heap)] ==
    FlattenSeq([n \in 1 .. Len(heap[b].seq) |-> Separator(n) \o Element(heap[b].seq[n], Elements)])

Printed(node) == Element(node, Elements)

----------------------------------------------------------------------------
(* Properties.                                                             *)

(* At every prompt the REPL is as it was at the first: nothing typed, and  *)
(* nothing allocated but its string and the root bindings, whether the     *)
(* line before was answered, or rejected by any of the stages.             *)
PromptClean ==
    stage = "read" /\ mode = "repl" =>
        /\ owned = {"input"}
        /\ freed = 1 .. Len(heap)
        /\ live = {ReplEval!Bindings(1)}

R == INSTANCE ErrorReport WITH
    Errors <- {}, error <- err, line_idx <- 0, i <- 0,
    start <- 0, line <- <<>>, column <- 0, at <- "scan"

QuoteBeforeNewline ==
    status = "quote without word" /\ buf[err.src_idx + 2] = "n"

(* include/error.h:23: what report_err() is to show lies inside the        *)
(* source it is given, in one line of it.  (A quote in front of a newline  *)
(* is two characters long all the same.)                                   *)
ErrorsInOneLine ==
    stage = "report" /\ err.len > 0 /\ ~ QuoteBeforeNewline =>
        R!IsError([source  |-> [k \in 1 .. Len(buf) |-> IF buf[k] = "n" THEN "n" ELSE "x"],
                   src_idx |-> err.src_idx, len |-> err.len])

(* What a line says, from its tokens: the items outside of brackets, and   *)
(* which of them are words to look up.                                     *)
TopItems == P!Children(0)
LastItem == CHOOSE k \in TopItems : \A m \in TopItems : m <= k

LookedUp(k) ==
    tokens[k].type = "word" /\ ~ (k > 1 /\ tokens[k - 1].type = "quote")

Unbound(k) == LookedUp(k) /\ T!Text(tokens[k]) # Name

Evaluated == stage \in {"print", "report", "abort"} /\ status = "ok" /\ outcome = "ok"

(* A line that the tokenizer and the parser accept, from the text to the   *)
(* answer: an error if a word that it looks up has no binding, a panic if  *)
(* it ends in an operative, and otherwise a value, unless there is nothing *)
(* in it.  Only for lines that P!Spaced describes, whose trees mirror them *)
(* (src/parsing.c:308): closing brackets stand before white space or at    *)
(* the end, and quotes before words.                                       *)
AnswerCorrect ==
    Evaluated /\ P!Spaced =>
        pc = IF \E k \in TopItems : Unbound(k) THEN "error"
             ELSE IF TopItems # {} /\ LookedUp(LastItem) THEN "panic"
             ELSE "done"

(* The tokens that are printed, all but blanks and quotes.                 *)
IsLexeme(k) == tokens[k].type \notin {"ws", "quote"}

Written(k) ==
    IF tokens[k].type = "open" THEN Mark("[")
    ELSE IF tokens[k].type = "close" THEN Mark("]")
    ELSE Slice(tokens[k])

FollowsElement(k) ==
    \E l \in 1 .. k - 1 : /\ IsLexeme(l) /\ tokens[l].type # "open"
                         /\ \A m \in l + 1 .. k - 1 : ~ IsLexeme(m)

Respelled(k) ==
    IF ~ IsLexeme(k) THEN <<>>
    ELSE IF tokens[k].type # "close" /\ FollowsElement(k) THEN Mark(" ") \o Written(k)
    ELSE Written(k)

(* The item at k, from its tokens.                                         *)
ItemEnd(k) == IF tokens[k].type = "open" THEN P!ClosedBy(k) ELSE k
Normalized(k) == Written(k) \o FlattenSeq([n \in 1 .. ItemEnd(k) - k |-> Respelled(k + n)])

(* What is printed is the last item of the line as it was typed, without   *)
(* its quotes and with one blank between elements: nothing else than       *)
(* identity runs, and it returns what it is given, however often.  As for  *)
(* AnswerCorrect, the line is one that P!Spaced describes.                 *)
EchoesLastItem ==
    stage = "print" /\ result # ReplEval!Indeterminate /\ P!Spaced =>
        Printed(heap[1].seq[result.id]) = Normalized(LastItem)

(* What is printed has been computed.                                      *)
PrintsComputed == stage = "print" => result # ReplEval!Indeterminate

(* The answers a line can have, from its characters alone.                 *)
Blank(c) == c \in {" ", "n"}
Number(line, c) == Cardinality({k \in 1 .. Len(line) : line[k] = c})

Balanced(line) ==
    /\ Number(line, "[") = Number(line, "]")
    /\ \A k \in 1 .. Len(line) :
          Number(SubSeq(line, 1, k), "]") <= Number(SubSeq(line, 1, k), "[")

Lexes(line) ==
    /\ Balanced(line)
    /\ \A k \in 1 .. Len(line) :
          /\ line[k] \notin {"~", "hi"}
          /\ line[k] = "'" => k < Len(line) /\ line[k + 1] \in {"a", "-", "."}

(* Quoted words and blocks, with blanks after the brackets that close.     *)
IsData(line) ==
    /\ \E k \in 1 .. Len(line) : ~ Blank(line[k])
    /\ \A k \in 1 .. Len(line) :
          /\ line[k] \notin {"0", "-", "."}
          /\ line[k] = "a" => k > 1 /\ line[k - 1] \in {"'", "a"}
          /\ line[k] = "]" /\ k < Len(line) => Blank(line[k + 1])

Answers(line) ==
    CASE ~ Lexes(line) -> {"error"} \cup
                          {x \in {"panic"} : \E k \in 1 .. Len(line) : line[k] = "hi"}
      [] Lexes(line) /\ IsData(line) -> {"value"}
      [] OTHER -> {"value", "error", "panic"}

Unread ==
    IF stage \in {"exit", "abort"} THEN <<>>
    ELSE IF stage = "read" THEN buf \o stdin
    ELSE IF mode = "file" \/ at_eof THEN buf
    ELSE buf \o <<"n">> \o stdin

Open == CASE stage = "exit" -> "closed" [] stage = "abort" -> "dead" [] OTHER -> "open"

Session == INSTANCE Session WITH unread <- Unread, open <- Open

(* Each line is answered once, in order, and by itself: no error in a line *)
(* changes what becomes of the lines behind it.                            *)
ImplementsSession == Session!Spec

(* The program ends, once its input has, unless it takes what an empty     *)
(* program leaves for an error again and again: the REPL looks at          *)
(* feof(stdin) only after a value.                                         *)
EndsWithInput ==
    <>(stage \in {"exit", "abort"})
    \/ []<>(stage = "report" /\ status = "ok" /\ tokens = <<>>)
=============================================================================
