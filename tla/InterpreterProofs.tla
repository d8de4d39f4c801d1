-------------------------- MODULE InterpreterProofs --------------------------
(***************************************************************************)
(* Proofs about main(), put together from the proofs of the stages it      *)
(* runs: what is proved of every step of tokenize(), parse_tokens() and    *)
(* eval_ast() is used here for the calls that execute_file() and repl()    *)
(* make of them, one after the other and line after line.                  *)
(***************************************************************************)
EXTENDS Interpreter, Integers, FiniteSetTheorems, SequenceTheorems, TLAPS

(* Each stage with every input of the type that it is started on.          *)
TP == INSTANCE TokenizerProofs WITH Sources <- Seq(T!Char), Builds <- {Build}

PP == INSTANCE ParserProofs WITH TokenStreams <- {s \in Seq(Token) : InSourceOrder(s)}

EP == INSTANCE EvaluatorProofs WITH
    Programs <- Seq(ReplEval!Form), Word <- {"identity", "other"}, Data <- Nat, Builtin <- {"identity"},
    Function <- {}, Arity <- [op \in {"identity"} |-> 1], Body <- [op \in {} |-> <<>>],
    SeqSize <- 8, FreeRoot <- FALSE

FP == INSTANCE EvaluatorProofs WITH
    Programs <- Seq(ReplEval!Form), Word <- {"identity", "other"}, Data <- Nat, Builtin <- {"identity"},
    Function <- {}, Arity <- [op \in {"identity"} |-> 1], Body <- [op \in {} |-> <<>>],
    SeqSize <- 8, FreeRoot <- TRUE

(* The stages of Interpreter are the ones that those proofs are about.     *)
LEMMA TokenizerSame ==
    /\ T!Next => TP!Next
    /\ T!ZeroToken = TP!ZeroToken /\ T!Errors = TP!Errors /\ T!Char = TP!Char
BY DEF T!Next, TP!Next, T!vars, TP!vars, T!Char, TP!Char, T!Errors, TP!Errors,
       T!ZeroToken, TP!ZeroToken, T!IsWordFirst, TP!IsWordFirst, T!IsWordRest, TP!IsWordRest,
       T!Text, TP!Text, T!HasDot, TP!HasDot, T!InLoop, TP!InLoop, T!Scanning, TP!Scanning,
       T!Emitted, TP!Emitted, T!PushMark, TP!PushMark, T!StartToken, TP!StartToken,
       T!ExtendToken, TP!ExtendToken, T!Fail, TP!Fail, T!Passes, TP!Passes,
       T!Punnable, TP!Punnable, T!ContinuesNumber, TP!ContinuesNumber,
       T!ScanOpen, TP!ScanOpen, T!ScanClose, TP!ScanClose, T!RejectClose, TP!RejectClose,
       T!ScanQuote, TP!ScanQuote, T!RejectLastQuote, TP!RejectLastQuote,
       T!RejectQuote, TP!RejectQuote, T!ScanWhitespace, TP!ScanWhitespace,
       T!ScanDigit, TP!ScanDigit, T!ScanPoint, TP!ScanPoint, T!ScanWordRest, TP!ScanWordRest,
       T!ScanWordFirst, TP!ScanWordFirst, T!RejectCharacter, TP!RejectCharacter,
       T!AbortNonAscii, TP!AbortNonAscii, T!RejectUnclosed, TP!RejectUnclosed,
       T!Finish, TP!Finish, T!Returned, TP!Returned

LEMMA ParserSame ==
    /\ P!Next => PP!Next
    /\ P!NewFrame(1) = PP!NewFrame(1)
    /\ \A h, roots : P!FreedWith(h, roots) = PP!FreedWith(h, roots)
BY DEF P!Next, PP!Next, P!vars, PP!vars, P!NewFrame, PP!NewFrame, P!FreedWith, PP!FreedWith,
       P!Top, PP!Top, P!WithTop, PP!WithTop, P!AtToken, PP!AtToken, P!Emitted, PP!Emitted,
       P!SetNode, PP!SetNode, P!ParseWhitespace, PP!ParseWhitespace, P!ParseQuote, PP!ParseQuote,
       P!ParseWord, PP!ParseWord, P!ParseNumber, PP!ParseNumber, P!RejectNumber, PP!RejectNumber,
       P!EnterBlock, PP!EnterBlock, P!Return, PP!Return, P!LeaveBlock, PP!LeaveBlock,
       P!EndOfTokens, PP!EndOfTokens, P!Returned, PP!Returned

LEMMA EvaluatorSame == ReplEval!Next => EP!Next
BY DEF ReplEval!Next, EP!Next, ReplEval!vars, EP!vars, ReplEval!Operative, EP!Operative,
       ReplEval!NewFrame, EP!NewFrame, ReplEval!NoBindings, EP!NoBindings, ReplEval!Nil, EP!Nil,
       ReplEval!Bindings, EP!Bindings, ReplEval!CStack, EP!CStack, ReplEval!Args, EP!Args,
       ReplEval!FStack, EP!FStack, ReplEval!Scope, EP!Scope, ReplEval!IsBound, EP!IsBound,
       ReplEval!Lookup, EP!Lookup, ReplEval!Calls, EP!Calls, ReplEval!Top, EP!Top,
       ReplEval!Full, EP!Full, ReplEval!FormIs, EP!FormIs, ReplEval!FormId, EP!FormId,
       ReplEval!Writable, EP!Writable, ReplEval!Given, EP!Given, ReplEval!Pop, EP!Pop,
       ReplEval!FreeRuntime, EP!FreeRuntime, ReplEval!EvalUnbound, EP!EvalUnbound,
       ReplEval!EvalValue, EP!EvalValue, ReplEval!EvalData, EP!EvalData,
       ReplEval!EvalBoundValue, EP!EvalBoundValue, ReplEval!EvalOperative, EP!EvalOperative,
       ReplEval!Applying, EP!Applying, ReplEval!ApplyBuiltin, EP!ApplyBuiltin,
       ReplEval!ApplyFunction, EP!ApplyFunction, ReplEval!NextIteration, EP!NextIteration,
       ReplEval!AtEnd, EP!AtEnd, ReplEval!PanicIncomplete, EP!PanicIncomplete,
       ReplEval!FreedFrame, EP!FreedFrame, ReplEval!EndFrame, EP!EndFrame,
       ReplEval!EndRoot, EP!EndRoot, ReplEval!Running, EP!Running, ReplEval!Stopped, EP!Stopped

LEMMA FileEvaluatorSame == FileEval!Next => FP!Next
BY DEF FileEval!Next, FP!Next, FileEval!vars, FP!vars, FileEval!Operative, FP!Operative,
       FileEval!NewFrame, FP!NewFrame, FileEval!NoBindings, FP!NoBindings, FileEval!Nil, FP!Nil,
       FileEval!Bindings, FP!Bindings, FileEval!CStack, FP!CStack, FileEval!Args, FP!Args,
       FileEval!FStack, FP!FStack, FileEval!Scope, FP!Scope, FileEval!IsBound, FP!IsBound,
       FileEval!Lookup, FP!Lookup, FileEval!Calls, FP!Calls, FileEval!Top, FP!Top,
       FileEval!Full, FP!Full, FileEval!FormIs, FP!FormIs, FileEval!FormId, FP!FormId,
       FileEval!Writable, FP!Writable, FileEval!Given, FP!Given, FileEval!Pop, FP!Pop,
       FileEval!FreeRuntime, FP!FreeRuntime, FileEval!EvalUnbound, FP!EvalUnbound,
       FileEval!EvalValue, FP!EvalValue, FileEval!EvalData, FP!EvalData,
       FileEval!EvalBoundValue, FP!EvalBoundValue, FileEval!EvalOperative, FP!EvalOperative,
       FileEval!Applying, FP!Applying, FileEval!ApplyBuiltin, FP!ApplyBuiltin,
       FileEval!ApplyFunction, FP!ApplyFunction, FileEval!NextIteration, FP!NextIteration,
       FileEval!AtEnd, FP!AtEnd, FileEval!PanicIncomplete, FP!PanicIncomplete,
       FileEval!FreedFrame, FP!FreedFrame, FileEval!EndFrame, FP!EndFrame,
       FileEval!EndRoot, FP!EndRoot, FileEval!Running, FP!Running, FileEval!Stopped, FP!Stopped

----------------------------------------------------------------------------
(* tokenize(): the invariants that are proved of it; and as long as its    *)
(* error is not a quote in front of no word, it is one character long.     *)
Place ==
    \/ location.len \in {0, 1}
    \/ status = "quote without word" /\ location.len = 2

TokInv == TP!IInv /\ TP!VInv /\ TP!LInv /\ TP!CInv /\ TP!UInv /\ Place

LEMMA TokenizerAssumptions ==
    /\ {Build} # {} /\ {Build} \subseteq {"debug", "release"}
    /\ Seq(T!Char) \subseteq Seq(TP!Char)
BY BuildAssumption, TokenizerSame

LEMMA TokInvInit == TP!Init => TokInv
<1>1. TP!Init => TP!IInv
  BY TokenizerAssumptions, TP!InitIInv
<1>2. TP!Init => TP!VInv
  BY TokenizerAssumptions, TP!InitVInv
<1>3. TP!Init => TP!LInv
  BY TokenizerAssumptions, TP!InitLInv
<1>4. TP!Init => Place
  BY DEF TP!Init, Place
<1>5. TP!Init => TP!CInv
  BY TokenizerAssumptions, TP!InitCInv
<1>6. TP!Init => TP!UInv
  BY TokenizerAssumptions, TP!InitUInv
<1> QED BY <1>1, <1>2, <1>3, <1>4, <1>5, <1>6 DEF TokInv

LEMMA TokInvStep == TokInv /\ [TP!Next]_(TP!vars) => TokInv'
<1> SUFFICES ASSUME TokInv, [TP!Next]_(TP!vars) PROVE TokInv'
  OBVIOUS
<1>1. TP!IInv'
  BY TokenizerAssumptions, TP!NextIInv DEF TokInv
<1>2. TP!VInv'
  BY TokenizerAssumptions, TP!NextVInv DEF TokInv
<1>3. TP!LInv'
  BY TokenizerAssumptions, TP!NextLInv DEF TokInv
<1>4. Place'
  <2>1. CASE TP!RejectClose \/ TP!RejectLastQuote \/ TP!RejectCharacter \/ TP!RejectUnclosed
    <3>1. location' = [src_idx |-> i, len |-> 1] \/ location' = [src_idx |-> 0, len |-> 0]
      BY <2>1 DEF TP!RejectClose, TP!RejectLastQuote, TP!RejectCharacter, TP!RejectUnclosed, TP!Fail
    <3>2. location'.len \in {0, 1}
      BY <3>1
    <3> QED BY <3>2 DEF Place
  <2>2. CASE TP!RejectQuote
    BY <2>2 DEF TP!RejectQuote, TP!Fail, Place
  <2>3. CASE location' = location /\ (status = "scan" \/ status' = status)
    BY <2>3 DEF TokInv, Place
  <2>4. CASE UNCHANGED TP!vars
    BY <2>3, <2>4 DEF TP!vars
  <2>5. CASE TP!ScanOpen \/ TP!ScanClose \/ TP!ScanQuote
    BY <2>3, <2>5 DEF TP!ScanOpen, TP!ScanClose, TP!ScanQuote, TP!PushMark
  <2>6. CASE TP!ScanWhitespace \/ TP!ScanDigit \/ TP!ScanPoint \/ TP!ScanWordRest \/ TP!ScanWordFirst
    BY <2>3, <2>6 DEF TP!ScanWhitespace, TP!ScanDigit, TP!ScanPoint, TP!ScanWordRest,
                      TP!ScanWordFirst, TP!StartToken, TP!ExtendToken
  <2>7. CASE TP!AbortNonAscii \/ TP!Finish \/ TP!Returned
    BY <2>3, <2>4, <2>7 DEF TP!AbortNonAscii, TP!Scanning, TP!InLoop, TP!Finish, TP!Returned
  <2> QED BY <2>1, <2>2, <2>4, <2>5, <2>6, <2>7 DEF TP!Next
<1>5. TP!CInv'
  BY TokenizerAssumptions, TP!NextCInv DEF TokInv
<1>6. TP!UInv'
  BY TokenizerAssumptions, TP!NextUInv DEF TokInv
<1> QED BY <1>1, <1>2, <1>3, <1>4, <1>5, <1>6 DEF TokInv

(* In any state a call of it starts in.                                    *)
LEMMA TokInvStart == TP!Init' => TokInv'
BY TokInvInit, PTL

----------------------------------------------------------------------------
(* parse_tokens(): as proved, and it gives up at a number only.            *)
Rejected == outcome = "error" => pos < Len(tokens) /\ tokens[pos + 1].type = "number"

ParInv == PP!PInv /\ PP!MInv /\ Rejected

LEMMA ParserAssumptions ==
    {s \in Seq(Token) : InSourceOrder(s)} \subseteq {s \in Seq(PP!Token) : PP!InSourceOrder(s)}
BY DEF Token, PP!Token, TokenType, PP!TokenType, InSourceOrder, PP!InSourceOrder

LEMMA ParInvInit == PP!Init => ParInv
<1>1. PP!Init => PP!PInv
  BY ParserAssumptions, PP!PInvInit
<1>2. PP!Init => Rejected
  BY DEF PP!Init, Rejected
<1>3. PP!Init => PP!MInv
  BY ParserAssumptions, PP!MInvInit
<1> QED BY <1>1, <1>2, <1>3 DEF ParInv

LEMMA ParInvStep == ParInv /\ [PP!Next]_(PP!vars) => ParInv'
<1> SUFFICES ASSUME ParInv, [PP!Next]_(PP!vars) PROVE ParInv'
  OBVIOUS
<1>1. PP!PInv'
  BY ParserAssumptions, PP!PInvStep DEF ParInv
<1>2. Rejected'
  <2>1. CASE PP!RejectNumber
    BY <2>1 DEF PP!RejectNumber, PP!AtToken, Rejected
  <2>2. CASE PP!ParseWhitespace \/ PP!ParseQuote \/ PP!ParseWord \/ PP!ParseNumber \/ PP!EnterBlock
    BY <2>2 DEF PP!ParseWhitespace, PP!ParseQuote, PP!ParseWord, PP!ParseNumber, PP!EnterBlock,
                PP!SetNode, PP!AtToken, Rejected
  <2>3. ASSUME NEW p, PP!Return(p), outcome = "run" PROVE outcome' # "error"
    BY <2>3 DEF PP!Return
  <2>4. CASE PP!LeaveBlock \/ PP!EndOfTokens
    BY <2>3, <2>4 DEF PP!LeaveBlock, PP!EndOfTokens, PP!AtToken, Rejected
  <2>5. CASE PP!Returned \/ UNCHANGED PP!vars
    BY <2>5 DEF PP!Returned, PP!vars, ParInv, Rejected
  <2> QED BY <2>1, <2>2, <2>4, <2>5 DEF PP!Next
<1>3. PP!MInv'
  BY ParserAssumptions, PP!MInvStep DEF ParInv
<1> QED BY <1>1, <1>2, <1>3 DEF ParInv

LEMMA ParInvStart == PP!Init' => ParInv'
BY ParInvInit, PTL

----------------------------------------------------------------------------
(* eval_ast() as the REPL calls it: no function is bound.                  *)
LEMMA EvaluatorAssumptions ==
    /\ EP!ProgramAssumption /\ EP!OperativeAssumption /\ EP!ApplyAssumption
<1>1. EP!ProgramAssumption
  BY DEF ReplEval!Form, EP!Form
<1>2. RootBindings["identity"] \in EP!Value /\ DOMAIN RootBindings = {"identity"}
  BY DEF RootBindings, Operation, EP!Value, EP!Operative
<1>3. EP!OperativeAssumption
  BY <1>2 DEF EP!Operative
<1>4. EP!ApplyAssumption
  <2> SUFFICES ASSUME NEW args \in [1 .. 1 -> EP!Value] PROVE args[1] \in EP!Value
    BY DEF Apply
  <2> QED OBVIOUS
<1> QED BY <1>1, <1>3, <1>4

LEMMA FileEvaluatorAssumptions ==
    /\ FP!ProgramAssumption /\ FP!OperativeAssumption /\ FP!ApplyAssumption
<1>1. FP!ProgramAssumption
  BY DEF ReplEval!Form, FP!Form
<1>2. RootBindings["identity"] \in FP!Value /\ DOMAIN RootBindings = {"identity"}
  BY DEF RootBindings, Operation, FP!Value, FP!Operative
<1>3. FP!OperativeAssumption
  BY <1>2 DEF FP!Operative
<1>4. FP!ApplyAssumption
  <2> SUFFICES ASSUME NEW args \in [1 .. 1 -> FP!Value] PROVE args[1] \in FP!Value
    BY DEF Apply
  <2> QED OBVIOUS
<1> QED BY <1>1, <1>3, <1>4

LEMMA TreeFreed ==
    ASSUME ParInv, outcome = "ok"
    PROVE  P!FreedWith(heap, {1}) = 1 .. Len(heap)
<1>1. PP!FreedWith(heap, {1}) = PP!Blocks
  BY ParserAssumptions, PP!FreesResult DEF ParInv
<1> QED BY <1>1, ParserSame DEF PP!Blocks

LEMMA EvaluatorStart == EP!Init' => EP!MInv'
<1>1. EP!Init => EP!MInv
  BY EvaluatorAssumptions, EP!InitMInv
<1> QED BY <1>1, PTL

LEMMA EvaluatorStep == EP!MInv /\ [EP!Next]_(EP!vars) => EP!MInv'
BY EvaluatorAssumptions, EP!NextMInv

----------------------------------------------------------------------------
(* What the parser rejects: a number token is inside the source, without a *)
(* blank in it.                                                            *)
LEMMA NumberToken ==
    ASSUME TokInv, status = "ok", NEW k \in 1 .. Len(tokens), tokens[k].type = "number"
    PROVE  /\ tokens[k].src_idx \in Nat /\ tokens[k].len \in Nat
           /\ tokens[k].src_idx + tokens[k].len <= Len(src)
           /\ \A m \in 1 .. tokens[k].len : src[tokens[k].src_idx + m] # " "
<1> DEFINE t == tokens[k]
<1>1. /\ src \in Seq(TP!Char) /\ i \in 0 .. Len(src) /\ tokens \in Seq(TP!Token)
      /\ TP!Tiles(tokens, i) /\ \A m \in 1 .. Len(tokens) : TP!Spans(tokens[m])
  BY DEF TokInv, TP!IInv, TP!TypeOK, TP!DoneTiles, TP!PushedSpan
<1>2. Len(src) \in Nat /\ i \in Nat /\ Len(tokens) \in Nat
  BY <1>1
<1>3. \A m \in 1 .. Len(tokens) : tokens[m] \in TP!Token
  BY <1>1
<1>4. \A m \in 1 .. Len(tokens) : tokens[m].src_idx \in Nat /\ tokens[m].len \in Nat
  BY <1>3 DEF TP!Token
<1>5. \A m \in 1 .. Len(tokens) : tokens[m].len > 0
  BY <1>1 DEF TP!Spans
<1>6. TP!InSourceOrder(tokens)
  BY <1>1, <1>2, <1>5, TokenizerAssumptions, TP!TilesInOrder
<1>7. TP!End(tokens[Len(tokens)]) = i
  <2>1. tokens # <<>>
    OBVIOUS
  <2> QED BY <1>1, <2>1 DEF TP!Tiles
<1>8. t.src_idx + t.len <= Len(src)
  <2>1. CASE k = Len(tokens)
    BY <1>1, <1>2, <1>7, <2>1 DEF TP!End
  <2>2. CASE k # Len(tokens)
    <3>1. k \in 1 .. Len(tokens) - 1 /\ k + 1 \in 1 .. Len(tokens)
      BY <1>2, <2>2
    <3>2. tokens[k].src_idx + tokens[k].len = tokens[k + 1].src_idx
      BY <1>1, <3>1 DEF TP!Tiles, TP!End
    <3>3. tokens[k + 1].src_idx <= tokens[Len(tokens)].src_idx
      <4>1. CASE k + 1 = Len(tokens)
        BY <4>1, <1>2, <1>4, <3>1
      <4>2. CASE k + 1 # Len(tokens)
        <5>1. k + 1 < Len(tokens) /\ Len(tokens) \in 1 .. Len(tokens)
          BY <4>2, <1>2, <3>1
        <5>2. tokens[k + 1].src_idx < tokens[Len(tokens)].src_idx
          BY <5>1, <3>1, <1>6 DEF TP!InSourceOrder
        <5> QED BY <5>1, <5>2, <1>4, <3>1
      <4> QED BY <4>1, <4>2
    <3>4. tokens[Len(tokens)].src_idx + tokens[Len(tokens)].len = i
      BY <1>7 DEF TP!End
    <3>5. Len(tokens) \in 1 .. Len(tokens)
      BY <1>2
    <3> HIDE DEF t
    <3>6. tokens[Len(tokens)].src_idx <= i
      BY <1>2, <1>4, <3>4, <3>5
    <3>7. tokens[k].src_idx + tokens[k].len <= i
      BY <1>2, <1>4, <3>1, <3>2, <3>3, <3>5, <3>6
    <3>8. i <= Len(src)
      BY <1>1, <1>2
    <3>9. tokens[k].src_idx + tokens[k].len \in Nat
      BY <1>4
    <3>10. tokens[k].src_idx + tokens[k].len <= Len(src)
      BY <1>2, <3>7, <3>8, <3>9
    <3> QED BY <3>10 DEF t
  <2> QED BY <2>1, <2>2
<1>9. t.begin = t.src_idx /\ t.size = t.len
  BY <1>1 DEF TP!Spans, TP!HasSlice
<1>10. \A m \in 1 .. t.size : TP!Text(t)[m] = src[t.begin + m]
  <2>1. t.begin + t.size <= Len(src)
    BY <1>8, <1>9
  <2> HIDE DEF t
  <2>2. t \in TP!Token
    BY <1>3 DEF t
  <2> QED BY <1>1, <2>1, <2>2, TokenizerAssumptions, TP!TextFacts
<1>11. DOMAIN TP!Text(t) = 1 .. t.size
  <2>1. t.begin + t.size <= Len(src)
    BY <1>8, <1>9
  <2> HIDE DEF t
  <2>2. t \in TP!Token
    BY <1>3 DEF t
  <2> QED BY <1>1, <2>1, <2>2, TokenizerAssumptions, TP!TextFacts
<1>12. TP!IsNumeral(TP!Text(t))
  BY DEF TokInv, TP!LInv, TP!Lexemes, TP!Lexeme
<1>13. \A m \in 1 .. t.size : TP!Text(t)[m] \in {"0", ".", "-"}
  BY <1>11, <1>12 DEF TP!IsNumeral
<1>14. \A m \in 1 .. t.len : src[t.src_idx + m] # " "
  BY <1>9, <1>10, <1>13
<1> QED BY <1>4, <1>8, <1>14

(* What the tokenizer rejects, unless it is a bracket left open, is inside *)
(* the source, at a character that is no blank.                            *)
LEMMA RejectedPlace ==
    ASSUME TokInv, status \in TP!Errors, location.len > 0
    PROVE  /\ location.src_idx \in Nat /\ location.len \in {1, 2}
           /\ location.src_idx + location.len <= Len(src)
           /\ src[location.src_idx + 1] # " "
           /\ location.len = 2 => status = "quote without word"
<1>1. status # "scan"
  BY DEF TP!Errors
<1>2. TP!Verdict(status, i) /\ location.src_idx = i /\ i + location.len <= Len(src)
  BY <1>1 DEF TokInv, TP!VInv, TP!VerdictCorrect
<1>3. i \in Nat /\ Len(src) \in Nat
  <2>1. src \in Seq(TP!Char) /\ i \in 0 .. Len(src)
    BY DEF TokInv, TP!IInv, TP!TypeOK
  <2> QED BY <2>1
<1>4. location.len \in {1, 2} /\ (location.len = 2 => status = "quote without word")
  <2>1. location \in [src_idx : Nat, len : Nat]
    BY DEF TokInv, TP!IInv, TP!TypeOK
  <2>2. PICK n \in Nat : n = location.len
    BY <2>1
  <2>3. n > 0
    BY <2>2
  <2> DEFINE q == status = "quote without word"
  <2>4. n \in {0, 1} \/ (q /\ n = 2)
    BY <2>2 DEF TokInv, Place
  <2>5. n \in {1, 2} /\ (n = 2 => q)
    <3> HIDE DEF q
    <3> QED BY <2>3, <2>4
  <2> QED BY <2>2, <2>5
<1>5. i < Len(src) /\ i # Len(src)
  <2>1. PICK n \in {1, 2} : n = location.len
    BY <1>4
  <2>2. i + n <= Len(src)
    BY <1>2, <2>1
  <2> QED BY <1>3, <2>2
<1>6. PICK build \in {Build} : TP!Offence(i, build, status)
  <2>1. \E build \in {Build} : TP!Offence(i, build, status)
    <3> HIDE DEF TP!Errors
    <3> QED BY <1>2, <1>5, Zenon DEF TP!Verdict
  <2> QED BY <2>1
<1>7. src[i + 1] \in {"]", "'", "~", "hi"}
  BY <1>6 DEF TP!Offence, TP!Errors
<1>8. src[location.src_idx + 1] # " "
  BY <1>2, <1>7
<1> QED BY <1>2, <1>3, <1>4, <1>8

----------------------------------------------------------------------------
(* What a step of main() leaves alone.                                     *)
LEMMA TokenizerKept ==
    ASSUME Next \/ UNCHANGED vars, ~ (ReadLine \/ ReadEnd \/ ReadFile \/ Tokenize)
    PROVE  UNCHANGED TP!vars
<1>1. CASE ReadCharacter \/ AbortCharacter \/ ReadFails
  BY <1>1 DEF ReadCharacter, AbortCharacter, ReadFails, TP!vars, tokenizervars
<1>2. CASE TokenizeFails \/ TokenizeAborts \/ StartParse
  BY <1>2 DEF TokenizeFails, TokenizeAborts, StartParse, TP!vars, tokenizervars
<1>3. CASE Parse
  <2>1. P!Next => tokens' = tokens
    BY DEF P!Next, P!vars, P!SetNode, P!ParseWhitespace, P!ParseQuote, P!ParseWord, P!ParseNumber,
           P!RejectNumber, P!EnterBlock, P!Return, P!LeaveBlock, P!EndOfTokens, P!Returned
  <2> QED BY <1>3, <2>1 DEF Parse, TP!vars, tokenizervars
<1>4. CASE ParseFails \/ StartEval \/ Evaluate
  BY <1>4 DEF ParseFails, StartEval, Evaluate, TP!vars, tokenizervars
<1>5. CASE EvalFails \/ EvalPanics \/ EvalReturns \/ EvalReturnsGarbage
  BY <1>5 DEF EvalFails, EvalPanics, EvalReturns, EvalReturnsGarbage, TP!vars, tokenizervars
<1>6. CASE Report \/ PrintValue
  BY <1>6 DEF Report, PrintValue, TP!vars, tokenizervars
<1>7. CASE Ended \/ UNCHANGED vars
  BY <1>7 DEF Ended, vars, TP!vars, tokenizervars
<1> QED BY <1>1, <1>2, <1>3, <1>4, <1>5, <1>6, <1>7 DEF Next

LEMMA InputKept ==
    ASSUME Next \/ UNCHANGED vars, ~ (ReadCharacter \/ ReadLine \/ ReadFile \/ Report \/ PrintValue)
    PROVE  UNCHANGED <<mode, stdin, buf>>
<1>1. CASE AbortCharacter \/ ReadEnd \/ ReadFails
  BY <1>1 DEF AbortCharacter, ReadEnd, ReadFails
<1>2. CASE Tokenize \/ TokenizeFails \/ TokenizeAborts \/ StartParse \/ Parse \/ ParseFails
  BY <1>2 DEF Tokenize, TokenizeFails, TokenizeAborts, StartParse, Parse, ParseFails, ToReport, drivervars
<1>3. CASE StartEval \/ Evaluate \/ EvalFails \/ EvalPanics \/ EvalReturns \/ EvalReturnsGarbage
  BY <1>3 DEF StartEval, Evaluate, EvalFails, EvalPanics, EvalReturns, EvalReturnsGarbage,
              ToReport, drivervars
<1>4. CASE Ended \/ UNCHANGED vars
  BY <1>4 DEF Ended, vars, drivervars
<1> QED BY <1>1, <1>2, <1>3, <1>4 DEF Next

----------------------------------------------------------------------------
(* What has been read and what has not: together no more than there was.   *)
Input ==
    /\ mode \in {"repl", "file"}
    /\ buf \in Seq(Character) /\ stdin \in Seq(Character)
    /\ Len(buf) + Len(stdin) <= SIZE_MAX

LEMMA InputStep == ASSUME Input, Next \/ UNCHANGED vars PROVE Input'
<1>l. Len(buf) \in Nat /\ Len(stdin) \in Nat /\ SIZE_MAX \in Nat
  BY SizeAssumption DEF Input
<1>1. CASE ReadCharacter
  <2>1. /\ stdin \in Seq(Character) /\ buf \in Seq(Character) /\ stdin # <<>>
        /\ mode' = mode /\ buf' = Append(buf, Head(stdin)) /\ stdin' = Tail(stdin)
    BY <1>1 DEF ReadCharacter, Typed, Input
  <2>2. Head(stdin) \in Character /\ Tail(stdin) \in Seq(Character)
        /\ Len(Tail(stdin)) = Len(stdin) - 1
    BY <2>1
  <2>3. buf' \in Seq(Character) /\ Len(buf') = Len(buf) + 1
    BY <2>1, <2>2
  <2>4. Len(buf') + Len(stdin') <= SIZE_MAX
    BY <1>l, <2>1, <2>2, <2>3 DEF Input
  <2> QED BY <2>1, <2>2, <2>3, <2>4 DEF Input
<1>2. CASE ReadLine
  <2>1. stdin \in Seq(Character) /\ stdin # <<>> /\ UNCHANGED <<mode, buf>> /\ stdin' = Tail(stdin)
    BY <1>2 DEF ReadLine, Typed, Input
  <2>2. Tail(stdin) \in Seq(Character) /\ Len(Tail(stdin)) = Len(stdin) - 1
    BY <2>1
  <2>3. Len(buf') + Len(stdin') <= SIZE_MAX
    BY <1>l, <2>1, <2>2 DEF Input
  <2> QED BY <2>1, <2>2, <2>3 DEF Input
<1>3. ASSUME mode' = mode, buf' \in {stdin, buf, <<>>}, stdin' \in {stdin, <<>>},
             buf' = stdin => stdin' = <<>>
      PROVE  Input'
  <2>1. Len(<<>>) = 0 /\ <<>> \in Seq(Character)
    OBVIOUS
  <2>2. buf' \in Seq(Character) /\ stdin' \in Seq(Character)
    BY <1>3, <2>1 DEF Input
  <2>3. Len(buf') + Len(stdin') <= SIZE_MAX
    BY <1>l, <1>3, <2>1 DEF Input
  <2> QED BY <1>3, <2>2, <2>3 DEF Input
<1>4. CASE ReadFile
  BY <1>3, <1>4 DEF ReadFile
<1>5. CASE Report \/ PrintValue
  <2>1. UNCHANGED <<mode, stdin>> /\ buf' \in {buf, <<>>}
    BY <1>5 DEF Report, PrintValue
  <2>2. Len(<<>>) = 0 /\ <<>> \in Seq(Character)
    OBVIOUS
  <2>3. Len(buf') + Len(stdin') <= SIZE_MAX
    BY <1>l, <2>1, <2>2 DEF Input
  <2> QED BY <2>1, <2>2, <2>3 DEF Input
<1>6. CASE ~ (ReadCharacter \/ ReadLine \/ ReadFile \/ Report \/ PrintValue)
  BY <1>6, InputKept DEF Input
<1> QED BY <1>1, <1>2, <1>4, <1>5, <1>6

----------------------------------------------------------------------------
(* tokenize() reads the string, and its invariants hold from call to call. *)
LEMMA ClassesTyped ==
    ASSUME NEW text \in Seq(Character)
    PROVE  Classes(text) \in Seq(T!Char) /\ Len(Classes(text)) = Len(text)
<1>1. Len(text) \in Nat /\ \A k \in 1 .. Len(text) : text[k] \in Character
  OBVIOUS
<1>2. \A k \in 1 .. Len(text) : (IF text[k] = "n" THEN " " ELSE text[k]) \in T!Char
  BY <1>1 DEF Character, T!Char
<1>3. PICK n \in Nat : n = Len(text)
  BY <1>1
<1> DEFINE c(k) == IF text[k] = "n" THEN " " ELSE text[k]
<1>4. Classes(text) = [k \in 1 .. n |-> c(k)]
  BY <1>3 DEF Classes
<1>5. \A k \in 1 .. n : c(k) \in T!Char
  BY <1>2, <1>3
<1> HIDE DEF c
<1>6. [k \in 1 .. n |-> c(k)] \in [1 .. n -> T!Char]
  BY <1>5
<1>7. Classes(text) \in [1 .. n -> T!Char]
  BY <1>4, <1>6
<1> QED BY <1>3, <1>7

Lines ==
    /\ TokInv
    /\ stage \notin {"read", "exit", "abort"} => src = Classes(buf)

LEMMA LinesStep == ASSUME Input, Lines, Next \/ UNCHANGED vars PROVE Lines'
<1>1. CASE ReadLine \/ ReadEnd \/ ReadFile
  <2>1. StartTokenize /\ buf' \in Seq(Character)
    BY <1>1, InputStep DEF ReadLine, ReadEnd, ReadFile, Input
  <2>2. Classes(buf') \in Seq(T!Char)
    BY <2>1, ClassesTyped
  <2>3. TP!Init'
    BY <2>1, <2>2, TokenizerSame DEF StartTokenize, TP!Init, NoError
  <2> QED BY <2>1, <2>3, TokInvStart DEF Lines, StartTokenize
<1>2. CASE Tokenize
  <2>1. TP!Next
    BY <1>2, TokenizerSame DEF Tokenize
  <2>2. TokInv'
    BY <2>1, TokInvStep DEF Lines
  <2>3. src' = src /\ buf' = buf /\ stage' = stage
    <3>1. src' = src
      BY <2>1 DEF TP!Next, TP!vars, TP!PushMark, TP!StartToken, TP!ExtendToken, TP!Fail,
           TP!ScanOpen, TP!ScanClose, TP!ScanQuote, TP!ScanWhitespace, TP!ScanDigit, TP!ScanPoint,
           TP!ScanWordRest, TP!ScanWordFirst, TP!RejectClose, TP!RejectLastQuote, TP!RejectQuote,
           TP!RejectCharacter, TP!AbortNonAscii, TP!RejectUnclosed, TP!Finish, TP!Returned
    <3> QED BY <1>2, <3>1 DEF Tokenize, drivervars
  <2> QED BY <2>2, <2>3 DEF Lines, Classes
<1>3. CASE ~ (ReadLine \/ ReadEnd \/ ReadFile \/ Tokenize)
  <2>1. UNCHANGED TP!vars
    BY <1>3, TokenizerKept
  <2>2. TokInv' /\ src' = src
    BY <2>1, TokInvStep DEF Lines, TP!vars
  <2>3. CASE ReadCharacter
    BY <2>2, <2>3 DEF Lines, ReadCharacter, Typed
  <2>4. CASE Report \/ PrintValue
    BY <2>2, <2>4 DEF Lines, Report, PrintValue, Classes
  <2>5. CASE ~ (ReadCharacter \/ Report \/ PrintValue)
    <3>1. buf' = buf
      BY <1>3, <2>5, InputKept
    <3>2. stage' \in {"exit", "abort"} \/ stage \notin {"read", "exit", "abort"} \/ stage' = stage
      BY <1>3, <2>5 DEF Next, vars, drivervars, AbortCharacter, ReadFails, TokenizeFails, TokenizeAborts,
           StartParse, Parse, ParseFails, StartEval, Evaluate, EvalFails, EvalPanics, EvalReturns,
           EvalReturnsGarbage, Ended
    <3> QED BY <2>2, <3>1, <3>2 DEF Lines, Classes
  <2> QED BY <2>3, <2>4, <2>5
<1> QED BY <1>1, <1>2, <1>3

----------------------------------------------------------------------------
(* parse_tokens() is given what tokenize() has accepted, and eval_ast()    *)
(* what parse_tokens() has.                                                *)
Trees ==
    stage \in {"parse", "eval"} =>
        /\ status = "ok" /\ ParInv
        /\ stage = "eval" => outcome = "ok"

LEMMA AcceptedTokens ==
    ASSUME TokInv, status = "ok"
    PROVE  tokens \in Seq(Token) /\ InSourceOrder(tokens)
<1>1. tokens \in Seq(TP!Token) /\ TP!Tiles(tokens, i) /\ i \in Nat
  <2>1. src \in Seq(TP!Char) /\ i \in 0 .. Len(src) /\ tokens \in Seq(TP!Token)
    BY DEF TokInv, TP!IInv, TP!TypeOK
  <2>2. TP!Tiles(tokens, i)
    BY DEF TokInv, TP!IInv, TP!DoneTiles
  <2> QED BY <2>1, <2>2
<1>2. \A k \in 1 .. Len(tokens) : tokens[k].len > 0
  BY DEF TokInv, TP!IInv, TP!PushedSpan, TP!Spans
<1>3. TP!InSourceOrder(tokens)
  BY <1>1, <1>2, TokenizerAssumptions, TP!TilesInOrder
<1> QED BY <1>1, <1>3 DEF TP!InSourceOrder, InSourceOrder, TP!Token, Token, TP!TokenType, TokenType

LEMMA TreesStep == ASSUME Lines, Trees, Next \/ UNCHANGED vars PROVE Trees'
<1>1. CASE StartParse
  <2>1. tokens' \in Seq(Token) /\ InSourceOrder(tokens')
    BY <1>1, AcceptedTokens DEF StartParse, Lines
  <2>2. PP!Init'
    BY <1>1, <2>1, ParserSame DEF StartParse, PP!Init
  <2>3. ParInv' /\ status' = "ok" /\ stage' = "parse"
    BY <1>1, <2>2, ParInvStart DEF StartParse, tokenizervars
  <2> QED BY <2>3 DEF Trees
<1>2. CASE Parse
  <2>1. PP!Next /\ stage = "parse" /\ stage' = stage /\ status' = status
    BY <1>2, ParserSame DEF Parse, drivervars, tokenizervars
  <2>2. ParInv'
    BY <2>1, ParInvStep DEF Trees
  <2> QED BY <2>1, <2>2 DEF Trees
<1>3. ASSUME UNCHANGED PP!vars, status' = status, stage \in {"parse", "eval"},
             stage' = "eval" => outcome = "ok"
      PROVE  Trees'
  <2>1. ParInv' /\ outcome' = outcome
    BY <1>3, ParInvStep DEF Trees, PP!vars
  <2> QED BY <1>3, <2>1 DEF Trees
<1>4. CASE StartEval \/ Evaluate
  BY <1>3, <1>4 DEF StartEval, Evaluate, Trees, PP!vars, parservars, tokenizervars, drivervars
<1>5. CASE UNCHANGED vars
  BY <1>3, <1>5 DEF vars, Trees, PP!vars, parservars, tokenizervars, drivervars
<1>6. CASE Ended
  BY <1>6 DEF Ended, Trees, vars, drivervars
<1>7. CASE ReadCharacter \/ AbortCharacter \/ ReadLine \/ ReadEnd \/ ReadFails \/ ReadFile
  BY <1>7 DEF ReadCharacter, AbortCharacter, ReadLine, ReadEnd, ReadFails, ReadFile, Typed,
              StartTokenize, Trees
<1>8. CASE Tokenize \/ TokenizeFails \/ TokenizeAborts \/ ParseFails
  BY <1>8 DEF Tokenize, TokenizeFails, TokenizeAborts, ParseFails, ToReport, drivervars, Trees
<1>9. CASE EvalFails \/ EvalPanics \/ EvalReturns \/ EvalReturnsGarbage
  BY <1>9 DEF EvalFails, EvalPanics, EvalReturns, EvalReturnsGarbage, ToReport, Trees
<1>10. CASE Report \/ PrintValue
  BY <1>10 DEF Report, PrintValue, Trees
<1> QED BY <1>1, <1>2, <1>4, <1>5, <1>6, <1>7, <1>8, <1>9, <1>10 DEF Next

----------------------------------------------------------------------------
(* The errors.                                                             *)
LEMMA ShownInOneLine ==
    ASSUME NEW text \in Seq(Character), Len(text) <= SIZE_MAX,
           NEW b \in Nat, NEW n \in Nat \ {0}, b + n <= Len(text),
           \A m \in 1 .. n : text[b + m] # "n"
    PROVE  R!IsError([source  |-> [k \in 1 .. Len(text) |-> IF text[k] = "n" THEN "n" ELSE "x"],
                      src_idx |-> b, len |-> n])
<1>1. PICK l \in Nat : l = Len(text)
  OBVIOUS
<1> DEFINE c(k) == IF text[k] = "n" THEN "n" ELSE "x"
           shown == [k \in 1 .. l |-> c(k)]
<1>2. \A k \in 1 .. l : c(k) \in R!Char /\ (text[k] # "n" => c(k) # R!Newline)
  BY DEF R!Char, R!Newline
<1>3. shown = [k \in 1 .. Len(text) |-> IF text[k] = "n" THEN "n" ELSE "x"]
  BY <1>1
<1> HIDE DEF c
<1>4. shown \in [1 .. l -> R!Char] /\ \A k \in 1 .. l : shown[k] = c(k)
  BY <1>2
<1> HIDE DEF shown
<1>5. shown \in Seq(R!Char) /\ Len(shown) = l
  BY <1>4
<1>6. \A k \in b + 1 .. b + n : shown[k] # R!Newline
  <2> SUFFICES ASSUME NEW k \in b + 1 .. b + n PROVE shown[k] # R!Newline
    OBVIOUS
  <2>1. k - b \in 1 .. n /\ b + (k - b) = k /\ k \in 1 .. l
    BY <1>1
  <2>2. text[k] # "n"
    BY <2>1
  <2> QED BY <1>2, <1>4, <2>1, <2>2
<1>7. R!IsError([source |-> shown, src_idx |-> b, len |-> n])
  BY <1>1, <1>5, <1>6 DEF R!IsError
<1> QED BY <1>3, <1>7

(* Characters of the string that tokenize() did not take for blanks.       *)
NoBlank(text, b, n) == \A m \in 1 .. n : Classes(text)[b + m] # " "

LEMMA NoNewline ==
    ASSUME NEW text \in Seq(Character), NEW b \in Nat, NEW n \in Nat, b + n <= Len(text),
           NoBlank(text, b, n)
    PROVE  \A m \in 1 .. n : text[b + m] # "n"
<1> SUFFICES ASSUME NEW m \in 1 .. n PROVE text[b + m] # "n"
  OBVIOUS
<1>1. b + m \in 1 .. Len(text)
  OBVIOUS
<1>2. Classes(text)[b + m] # " "
  BY DEF NoBlank
<1> QED BY <1>1, <1>2 DEF Classes

LEMMA OneIndex == 1 .. 1 = {1}
OBVIOUS

LEMMA OneOrTwo ==
    ASSUME NEW text \in Seq(Character), Len(text) <= SIZE_MAX,
           NEW b \in Nat, NEW n \in {1, 2}, b + n <= Len(text),
           NoBlank(text, b, 1), n = 2 => text[b + 2] # "n"
    PROVE  R!IsError([source  |-> [k \in 1 .. Len(text) |-> IF text[k] = "n" THEN "n" ELSE "x"],
                      src_idx |-> b, len |-> n])
<1>1. b + 1 <= Len(text)
  OBVIOUS
<1>2. \A m \in 1 .. 1 : text[b + m] # "n"
  BY <1>1, NoNewline
<1>3. \A m \in 1 .. n : text[b + m] # "n"
  BY <1>2
<1>4. n \in Nat \ {0}
  OBVIOUS
<1> QED BY <1>3, <1>4, ShownInOneLine

LEMMA ErrorsStep ==
    ASSUME Input, Lines, Trees, ErrorsInOneLine, Next \/ UNCHANGED vars
    PROVE  ErrorsInOneLine'
<1>l. stage \notin {"read", "exit", "abort"} =>
         src = Classes(buf) /\ buf \in Seq(Character) /\ Len(src) = Len(buf) /\ Len(buf) <= SIZE_MAX
  <2>1. buf \in Seq(Character) /\ Len(buf) \in Nat /\ Len(stdin) \in Nat /\ SIZE_MAX \in Nat
    BY SizeAssumption DEF Input
  <2>2. Len(buf) <= SIZE_MAX
    BY <2>1 DEF Input
  <2> QED BY <2>1, <2>2, ClassesTyped DEF Lines
<1>1. CASE TokenizeFails
  <2>1. /\ stage = "tokenize" /\ status \in TP!Errors /\ err' = location /\ buf' = buf
        /\ status' = status
    BY <1>1, TokenizerSame DEF TokenizeFails, ToReport, tokenizervars
  <2> SUFFICES ASSUME location.len > 0, ~ (status = "quote without word" /\ buf[location.src_idx + 2] = "n")
               PROVE  R!IsError([source  |-> [k \in 1 .. Len(buf) |-> IF buf[k] = "n" THEN "n" ELSE "x"],
                                 src_idx |-> location.src_idx, len |-> location.len])
    BY <2>1 DEF ErrorsInOneLine, QuoteBeforeNewline
  <2>2. /\ location.src_idx \in Nat /\ location.len \in {1, 2}
        /\ location.src_idx + location.len <= Len(src)
        /\ src[location.src_idx + 1] # " "
        /\ location.len = 2 => status = "quote without word"
    BY <2>1, RejectedPlace DEF Lines
  <2>3. PICK b \in Nat, n \in {1, 2} : b = location.src_idx /\ n = location.len
    BY <2>2
  <2>4. b + n <= Len(buf) /\ buf \in Seq(Character) /\ Len(buf) <= SIZE_MAX
    BY <1>l, <2>1, <2>2, <2>3
  <2>5. NoBlank(buf, b, 1)
    <3>1. Classes(buf)[b + 1] # " "
      BY <1>l, <2>1, <2>2, <2>3
    <3> QED BY <3>1, OneIndex, Zenon DEF NoBlank
  <2>6. n = 2 => buf[b + 2] # "n"
    BY <2>2, <2>3
  <2> QED BY <2>3, <2>4, <2>5, <2>6, OneOrTwo
<1>2. CASE ParseFails
  <2>1. /\ stage = "parse" /\ outcome = "error" /\ buf' = buf
        /\ err' = [src_idx |-> tokens[pos + 1].src_idx, len |-> tokens[pos + 1].len]
    BY <1>2 DEF ParseFails, ToReport
  <2>2. status = "ok" /\ pos + 1 \in 1 .. Len(tokens) /\ tokens[pos + 1].type = "number"
    <3>1. status = "ok" /\ pos \in Nat /\ tokens \in Seq(PP!Token)
      BY <2>1 DEF Trees, ParInv, PP!PInv
    <3>2. pos < Len(tokens) /\ tokens[pos + 1].type = "number"
      BY <2>1 DEF Trees, ParInv, Rejected
    <3> QED BY <3>1, <3>2
  <2>3. PICK k \in 1 .. Len(tokens) : k = pos + 1
    BY <2>2
  <2>4. /\ tokens[k].src_idx \in Nat /\ tokens[k].len \in Nat
        /\ tokens[k].src_idx + tokens[k].len <= Len(src)
        /\ \A m \in 1 .. tokens[k].len : src[tokens[k].src_idx + m] # " "
    BY <2>2, <2>3, NumberToken DEF Lines
  <2>5. PICK b \in Nat, n \in Nat : b = tokens[k].src_idx /\ n = tokens[k].len
    BY <2>4
  <2>6. b + n <= Len(buf) /\ buf \in Seq(Character) /\ Len(buf) <= SIZE_MAX
    BY <1>l, <2>1, <2>4, <2>5
  <2>n. NoBlank(buf, b, n)
    BY <1>l, <2>1, <2>4, <2>5 DEF NoBlank
  <2>7. \A m \in 1 .. n : buf[b + m] # "n"
    BY <2>5, <2>6, <2>n, NoNewline
  <2>8. err' = [src_idx |-> b, len |-> n]
    BY <2>1, <2>3, <2>5
  <2>9. n > 0 => R!IsError([source  |-> [j \in 1 .. Len(buf) |-> IF buf[j] = "n" THEN "n" ELSE "x"],
                           src_idx |-> b, len |-> n])
    <3> SUFFICES ASSUME n > 0
                 PROVE  R!IsError([source  |-> [j \in 1 .. Len(buf) |-> IF buf[j] = "n" THEN "n" ELSE "x"],
                                   src_idx |-> b, len |-> n])
      OBVIOUS
    <3>1. n \in Nat \ {0}
      OBVIOUS
    <3> QED BY <2>6, <2>7, <3>1, ShownInOneLine
  <2>10. err'.len > 0 =>
            R!IsError([source  |-> [j \in 1 .. Len(buf') |-> IF buf'[j] = "n" THEN "n" ELSE "x"],
                       src_idx |-> err'.src_idx, len |-> err'.len])
    <3>1. err'.src_idx = b /\ err'.len = n /\ buf' = buf
      BY <2>1, <2>8
    <3> QED BY <2>9, <3>1
  <2> QED BY <2>10 DEF ErrorsInOneLine
<1>3. CASE err' = NoError \/ stage' # "report"
  BY <1>3 DEF ErrorsInOneLine, NoError
<1>4. CASE EvalFails \/ EvalReturnsGarbage
  BY <1>3, <1>4 DEF EvalFails, EvalReturnsGarbage, ToReport
<1>5. CASE UNCHANGED vars
  BY <1>5 DEF vars, drivervars, tokenizervars, ErrorsInOneLine, QuoteBeforeNewline
<1>6. CASE ReadCharacter \/ AbortCharacter \/ ReadLine \/ ReadEnd \/ ReadFails \/ ReadFile
  BY <1>3, <1>6 DEF ReadCharacter, AbortCharacter, ReadLine, ReadEnd, ReadFails, ReadFile, Typed,
                    StartTokenize
<1>7. CASE Tokenize \/ TokenizeAborts \/ StartParse \/ Parse
  BY <1>3, <1>7 DEF Tokenize, TokenizeAborts, StartParse, Parse, drivervars
<1>8. CASE StartEval \/ Evaluate \/ EvalPanics \/ EvalReturns \/ Report \/ PrintValue
  BY <1>3, <1>8 DEF StartEval, Evaluate, EvalPanics, EvalReturns, Report, PrintValue, drivervars
<1>9. CASE Ended
  BY <1>3, <1>9 DEF Ended, vars, drivervars
<1> QED BY <1>1, <1>2, <1>4, <1>5, <1>6, <1>7, <1>8, <1>9 DEF Next

----------------------------------------------------------------------------
(* What is allocated, at each stage of a line of the REPL.                 *)
Allocated ==
    mode = "repl" =>
        /\ stage \in {"read", "tokenize"} =>
              owned = {"input"} /\ freed = 1 .. Len(heap) /\ live = {ReplEval!Bindings(1)}
        /\ stage = "parse" => owned = {"input", "tokens"} /\ live = {ReplEval!Bindings(1)}
        /\ stage = "eval" => owned = {"input", "tokens"} /\ EP!MInv
        /\ stage \in {"print", "report"} =>
              /\ owned \ {"tokens"} = {"input"} /\ live = {ReplEval!Bindings(1)}
              /\ IF status = "ok" /\ outcome = "ok"
                 THEN P!FreedWith(heap, {1}) = 1 .. Len(heap)
                 ELSE freed = 1 .. Len(heap)
        /\ stage = "print" => status = "ok" /\ outcome = "ok"

LEMMA FormTyped == \A k \in Nat : FormOf(k) \in ReplEval!Form
BY DEF FormOf, ReplEval!Form

(* The program of a line: what eval_ast() makes of the root block.         *)
Forms == [k \in 1 .. Len(heap[1].seq) |-> FormOf(k)]

LEMMA FormsTyped == ASSUME ParInv PROVE Forms \in Seq(ReplEval!Form)
<1>1. heap \in Seq(PP!Block) /\ Len(heap) > 0
  BY DEF ParInv, PP!PInv, PP!Typed
<1>2. heap[1] \in PP!Block
  BY <1>1
<1>3. PICK n \in Nat : n = Len(heap[1].seq)
  BY <1>2 DEF PP!Block
<1>4. \A k \in 1 .. n : FormOf(k) \in ReplEval!Form
  BY FormTyped
<1>5. [k \in 1 .. n |-> FormOf(k)] \in [1 .. n -> ReplEval!Form]
  BY <1>4
<1>6. [k \in 1 .. n |-> FormOf(k)] \in Seq(ReplEval!Form)
  BY <1>5
<1> QED BY <1>3, <1>6 DEF Forms

LEMMA EvaluatorStarts ==
    ASSUME Trees, StartEval, mode = "repl", live = {ReplEval!Bindings(1)}
    PROVE  EP!Init'
<1>1. Forms \in Seq(ReplEval!Form)
  BY FormsTyped DEF Trees, StartEval
<1>2. fstack' = <<EP!NewFrame(Forms, RootBindings, 0)>>
  BY DEF StartEval, ReplEval!NewFrame, EP!NewFrame, Forms
<1>3. live' = {EP!FStack, EP!Bindings(1), EP!CStack(1)}
  BY DEF StartEval, ReplEval!FStack, EP!FStack, ReplEval!Bindings, EP!Bindings,
         ReplEval!CStack, EP!CStack
<1>4. /\ fcap' = 8 /\ cur' = 1 /\ value' = EP!Nil /\ result' = EP!Indeterminate /\ pc' = "walk"
  BY DEF StartEval, ReplEval!Nil, EP!Nil, ReplEval!Indeterminate, EP!Indeterminate
<1> QED BY <1>1, <1>2, <1>3, <1>4 DEF EP!Init

(* The bindings that are left when eval_ast() has returned.                *)
LEMMA EvaluatorReturned ==
    ASSUME EP!MInv, pc \in {"done", "error"}
    PROVE  live = {ReplEval!Bindings(1)}
BY DEF EP!MInv, EP!Bindings, ReplEval!Bindings

LEMMA AllocatedStep ==
    ASSUME Lines, Trees, Allocated, Next \/ UNCHANGED vars
    PROVE  Allocated'
<1> SUFFICES ASSUME mode' = "repl" PROVE Allocated'
  BY DEF Allocated
<1>m. mode = "repl"
  <2>1. mode' = mode
    BY InputKept DEF ReadCharacter, ReadLine, ReadFile, Report, PrintValue
  <2> QED BY <2>1
<1>1. CASE ReadCharacter \/ ReadLine \/ ReadEnd
  BY <1>1, <1>m DEF ReadCharacter, ReadLine, ReadEnd, Typed, StartTokenize, Allocated,
                    parservars, evaluatorvars
<1>2. CASE Tokenize
  BY <1>2, <1>m DEF Tokenize, Allocated, drivervars, parservars, evaluatorvars
<1>3. CASE TokenizeFails
  <2>1. /\ stage = "tokenize" /\ stage' = "report" /\ status' # "ok"
        /\ UNCHANGED <<owned, freed, heap, live>>
    BY <1>3 DEF TokenizeFails, ToReport, T!Errors, tokenizervars, parservars, evaluatorvars
  <2>2. owned = {"input"} /\ freed = 1 .. Len(heap) /\ live = {ReplEval!Bindings(1)}
    BY <1>m, <2>1 DEF Allocated
  <2>3. owned' \ {"tokens"} = {"input"}
    BY <2>1, <2>2
  <2> QED BY <2>1, <2>2, <2>3 DEF Allocated
<1>4. CASE StartParse
  <2>1. /\ stage = "tokenize" /\ stage' = "parse" /\ owned' = owned \cup {"tokens"} /\ live' = live
    BY <1>4 DEF StartParse, evaluatorvars
  <2>2. owned = {"input"} /\ live = {ReplEval!Bindings(1)}
    BY <1>m, <2>1 DEF Allocated
  <2> QED BY <2>1, <2>2 DEF Allocated
<1>5. CASE Parse
  BY <1>5, <1>m DEF Parse, Allocated, drivervars, evaluatorvars
<1>6. CASE ParseFails
  <2>1. /\ stage = "parse" /\ stage' = "report" /\ outcome = "error"
        /\ UNCHANGED <<owned, freed, heap, live, status, outcome>>
    BY <1>6, <1>m DEF ParseFails, ToReport, tokenizervars, parservars, evaluatorvars
  <2>2. owned = {"input", "tokens"} /\ live = {ReplEval!Bindings(1)}
    BY <1>m, <2>1 DEF Allocated
  <2>3. freed = 1 .. Len(heap)
    BY <2>1 DEF Trees, ParInv, PP!PInv
  <2>4. owned' \ {"tokens"} = {"input"}
    BY <2>1, <2>2
  <2> QED BY <2>1, <2>2, <2>3, <2>4 DEF Allocated
<1>7. CASE StartEval
  <2>1. stage = "parse" /\ stage' = "eval" /\ owned' = owned
    BY <1>7 DEF StartEval
  <2>2. owned = {"input", "tokens"} /\ live = {ReplEval!Bindings(1)}
    BY <1>m, <2>1 DEF Allocated
  <2>3. EP!MInv'
    BY <1>7, <1>m, <2>2, EvaluatorStarts, EvaluatorStart
  <2> QED BY <2>1, <2>2, <2>3 DEF Allocated
<1>8. CASE Evaluate
  <2>1. stage = "eval" /\ stage' = stage /\ owned' = owned /\ ReplEval!Next
    BY <1>8, <1>m DEF Evaluate, drivervars
  <2>2. EP!MInv' /\ owned = {"input", "tokens"}
    BY <1>m, <2>1, EvaluatorSame, EvaluatorStep DEF Allocated
  <2> QED BY <2>1, <2>2 DEF Allocated
<1>9. CASE EvalFails \/ EvalReturns \/ EvalReturnsGarbage
  <2>1. /\ stage = "eval" /\ stage' \in {"report", "print", "abort"} /\ pc \in {"done", "error"}
        /\ UNCHANGED <<owned, freed, heap, live, status, outcome>>
    BY <1>9, <1>m DEF EvalFails, EvalReturns, EvalReturnsGarbage, ToReport, tokenizervars,
                      parservars, evaluatorvars
  <2>2. owned = {"input", "tokens"} /\ live = {ReplEval!Bindings(1)}
    BY <1>m, <2>1, EvaluatorReturned DEF Allocated
  <2>3. status = "ok" /\ outcome = "ok" /\ ParInv
    BY <2>1 DEF Trees
  <2>4. P!FreedWith(heap, {1}) = 1 .. Len(heap)
    BY <2>3, TreeFreed
  <2>5. P!FreedWith(heap, {1})' = 1 .. Len(heap')
    BY <2>1, <2>4
  <2>6. owned' \ {"tokens"} = {"input"}
    BY <2>1, <2>2
  <2> QED BY <2>1, <2>2, <2>3, <2>5, <2>6 DEF Allocated
<1>10. CASE Report
  <2>1. /\ stage = "report" /\ stage' = "read" /\ owned' = owned \ {"tokens"}
        /\ freed' = IF status = "ok" /\ outcome = "ok" THEN P!FreedWith(heap, {1}) ELSE freed
        /\ UNCHANGED <<heap, live>>
    BY <1>10, <1>m DEF Report, evaluatorvars
  <2>2. owned' = {"input"} /\ live' = {ReplEval!Bindings(1)} /\ freed' = 1 .. Len(heap')
    BY <1>m, <2>1 DEF Allocated
  <2> QED BY <2>1, <2>2 DEF Allocated, ReplEval!Bindings
<1>11. CASE PrintValue
  <2>1. /\ stage = "print" /\ stage' \in {"read", "exit"}
        /\ stage' = "read" => owned' = owned \ {"tokens"}
        /\ freed' = P!FreedWith(heap, {1})
        /\ UNCHANGED <<heap, live>>
    BY <1>11, <1>m DEF PrintValue, evaluatorvars
  <2>2. live' = {ReplEval!Bindings(1)} /\ freed' = 1 .. Len(heap')
        /\ (stage' = "read" => owned' = {"input"})
    BY <1>m, <2>1 DEF Allocated
  <2> QED BY <2>1, <2>2 DEF Allocated, ReplEval!Bindings
<1>12. CASE AbortCharacter \/ ReadFails \/ TokenizeAborts \/ EvalPanics
  BY <1>12 DEF AbortCharacter, ReadFails, TokenizeAborts, EvalPanics, Allocated
<1>13. CASE ReadFile
  BY <1>13, <1>m DEF ReadFile
<1>14. CASE UNCHANGED vars
  <2>1. /\ UNCHANGED <<stage, owned, freed, heap, live, status, outcome, mode>>
        /\ UNCHANGED EP!vars
    BY <1>14 DEF vars, drivervars, parservars, evaluatorvars, tokenizervars, EP!vars
  <2>2. EP!MInv => EP!MInv'
    BY <2>1, EvaluatorStep
  <2> QED BY <2>1, <2>2 DEF Allocated, ReplEval!Bindings
<1>15. CASE Ended
  BY <1>14, <1>15 DEF Ended
<1> QED BY <1>1, <1>2, <1>3, <1>4, <1>5, <1>6, <1>7, <1>8, <1>9, <1>10, <1>11, <1>12, <1>13,
           <1>14, <1>15 DEF Next

----------------------------------------------------------------------------
(* The answer to a line.  The root block has a node for each item of the   *)
(* line, in the same order: tokenize() leaves the brackets balanced, and   *)
(* then parse_tokens() mirrors them.                                       *)
LEMMA ItemsSame == /\ TopItems = PP!Children(0)
                   /\ P!Spaced <=> PP!Spaced
<1>1. \A type, n : P!Count(type, n) = PP!Count(type, n)
  BY DEF P!Count, PP!Count, P!Cardinality, PP!Cardinality
<1>2. \A n : P!Level(n) = PP!Level(n)
  BY <1>1 DEF P!Level, PP!Level
<1>3. \A j, k : P!Encloses(j, k) <=> PP!Encloses(j, k)
  BY <1>2 DEF P!Encloses, PP!Encloses
<1>4. \A j, k : P!Innermost(j, k) <=> PP!Innermost(j, k)
  BY <1>3 DEF P!Innermost, PP!Innermost
<1>5. TopItems = PP!Children(0)
  BY <1>4 DEF TopItems, P!Children, PP!Children
<1>6. P!Spaced <=> PP!Spaced
  BY DEF P!Spaced, PP!Spaced
<1> QED BY <1>5, <1>6

LEMMA AcceptedBalanced == ASSUME TokInv, status = "ok" PROVE PP!Balanced
<1>1. \A type, n : PP!Count(type, n) = TP!CountOf(tokens, type, n)
  BY DEF PP!Count, TP!CountOf, PP!Cardinality, TP!Cardinality
<1>2. TP!Rises(tokens, 0)
  BY DEF TokInv, TP!CInv
<1>3. \A n \in Nat : PP!Count("open", n) \in Nat /\ PP!Count("close", n) \in Nat
  BY ParserAssumptions, PP!CountStep
<1>4. PICK l \in Nat : l = Len(tokens)
  BY AcceptedTokens
<1>5. ASSUME NEW n \in 1 .. l PROVE PP!Level(n) >= 0
  <2>1. PICK a \in Nat, b \in Nat : a = PP!Count("open", n) /\ b = PP!Count("close", n)
    BY <1>3
  <2>2. n \in 0 .. l
    OBVIOUS
  <2>3. b <= a
    BY <1>1, <1>2, <1>4, <2>1, <2>2 DEF TP!Rises
  <2> QED BY <2>1, <2>3 DEF PP!Level
<1>6. PP!Level(l) = 0
  <2>1. PICK a \in Nat, b \in Nat : a = PP!Count("open", l) /\ b = PP!Count("close", l)
    BY <1>3
  <2>2. b + 0 = a
    BY <1>1, <1>2, <1>4, <2>1 DEF TP!Rises
  <2> QED BY <2>1, <2>2 DEF PP!Level
<1> QED BY <1>4, <1>5, <1>6 DEF PP!Balanced

(* A line that tokenize() and parse_tokens() have accepted.                *)
Accepted == TokInv /\ status = "ok" /\ ParInv /\ outcome = "ok"

LEMMA RootNodes ==
    ASSUME Accepted, P!Spaced
    PROVE  /\ {heap[1].seq[n] : n \in 1 .. Len(heap[1].seq)} = {PP!NodeOf(k) : k \in TopItems}
           /\ \A m, n \in 1 .. Len(heap[1].seq) : m < n => heap[1].seq[m].src_idx < heap[1].seq[n].src_idx
           /\ \A k \in TopItems : k \in 1 .. Len(tokens) /\ tokens[k].type \in {"word", "number", "open"}
           /\ Len(heap[1].seq) \in Nat
<1>1. PP!Balanced /\ PP!Spaced /\ TopItems = PP!Children(0)
  BY AcceptedBalanced, ItemsSame DEF Accepted
<1>2. PP!SpacedParseMirrorsSource
  BY ParserAssumptions, PP!Mirrored DEF Accepted, ParInv
<1>3. 0 \in PP!Opened
  BY DEF PP!Opened
<1>4. PP!Mirrors(0)
  BY <1>1, <1>2, <1>3 DEF PP!SpacedParseMirrorsSource, PP!ParseMirrorsSource, Accepted
<1>5. PP!Count("open", 0) = 0
  BY ParserAssumptions, PP!CountNone
<1>6. 1 + PP!Count("open", 0) = 1
  BY <1>5
<1>7. Len(heap[1].seq) \in Nat
  <2>1. heap \in Seq(PP!Block) /\ Len(heap) > 0
    BY DEF Accepted, ParInv, PP!PInv, PP!Typed
  <2>2. heap[1] \in PP!Block
    BY <2>1
  <2> QED BY <2>2 DEF PP!Block
<1>8. \A k \in TopItems : k \in 1 .. Len(tokens) /\ tokens[k].type \in {"word", "number", "open"}
  BY <1>1 DEF PP!Children
<1> QED BY <1>1, <1>4, <1>6, <1>7, <1>8 DEF PP!Mirrors

(* What eval_ast() makes of the node of an item.                           *)
LEMMA FormOfItem ==
    ASSUME Accepted, NEW k \in TopItems, k \in 1 .. Len(tokens),
           tokens[k].type \in {"word", "number", "open"},
           NEW n, heap[1].seq[n] = PP!NodeOf(k)
    PROVE  /\ FormOf(n).kind = "word" <=> LookedUp(k)
           /\ ~ EP!Known(FormOf(n)) <=> Unbound(k)
<1> DEFINE node == PP!NodeOf(k)
           quoted == k > 1 /\ tokens[k - 1].type = "quote"
<1>1. /\ node.type = (IF tokens[k].type = "open" THEN "block" ELSE tokens[k].type)
      /\ node.quoted = (tokens[k].type = "word" /\ quoted)
      /\ tokens[k].type = "word" => node.last = k - 1
  BY DEF PP!NodeOf
<1>2. node.type = "word" /\ ~ node.quoted <=> tokens[k].type = "word" /\ ~ quoted
  BY <1>1
<1>3. LookedUp(k) <=> tokens[k].type = "word" /\ ~ quoted
  BY DEF LookedUp
<1>4. LookedUp(k) => TokenOf(node) = tokens[k]
  <2>1. k - 1 + 1 = k
    <3>1. PICK l \in Nat : l = Len(tokens)
      BY AcceptedTokens DEF Accepted
    <3>2. k \in Nat
      BY <3>1
    <3> QED BY <3>2
  <2> QED BY <1>1, <1>3, <2>1 DEF TokenOf
<1> HIDE DEF node, quoted
<1>5. heap[1].seq[n] = node
  BY DEF node
<1>6. CASE LookedUp(k)
  <2>1. FormOf(n) = [kind |-> "word", id |-> IF T!Text(tokens[k]) = Name THEN "identity" ELSE "other"]
    BY <1>2, <1>3, <1>4, <1>5, <1>6 DEF FormOf
  <2>2. DOMAIN RootBindings = {"identity"}
    BY DEF RootBindings
  <2>3. EP!Known(FormOf(n)) <=> T!Text(tokens[k]) = Name
    BY <2>1, <2>2 DEF EP!Known
  <2> QED BY <1>6, <2>1, <2>3 DEF Unbound
<1>7. CASE ~ LookedUp(k)
  <2>1. FormOf(n) = [kind |-> "data", id |-> n]
    BY <1>2, <1>3, <1>5, <1>7 DEF FormOf
  <2> QED BY <1>7, <2>1 DEF Unbound, EP!Known
<1> QED BY <1>6, <1>7

(* The last node is that of the last item.                                 *)
LEMMA LastNode ==
    ASSUME Accepted, P!Spaced, Len(heap[1].seq) > 0
    PROVE  LastItem \in TopItems /\ heap[1].seq[Len(heap[1].seq)] = PP!NodeOf(LastItem)
<1> DEFINE seq == heap[1].seq
<1>1. PICK count \in Nat : count = Len(seq)
  BY RootNodes
<1>2. count \in 1 .. count /\ count > 0
  BY <1>1
<1>3. {seq[n] : n \in 1 .. count} = {PP!NodeOf(k) : k \in TopItems}
  BY <1>1, RootNodes
<1>4. PICK k \in TopItems : seq[count] = PP!NodeOf(k)
  BY <1>2, <1>3
<1>5. \A m \in TopItems : m \in 1 .. Len(tokens) /\ PP!NodeOf(m).src_idx = tokens[m].src_idx
  BY RootNodes DEF PP!NodeOf
<1>6. ASSUME NEW m \in TopItems PROVE m <= k
  <2>1. PICK n \in 1 .. count : seq[n] = PP!NodeOf(m)
    BY <1>3
  <2>2. n = count \/ n < count
    OBVIOUS
  <2>3. /\ tokens \in Seq(Token) /\ InSourceOrder(tokens)
        /\ m \in 1 .. Len(tokens) /\ k \in 1 .. Len(tokens)
    BY <1>5, AcceptedTokens DEF Accepted
  <2>4. /\ tokens[m].src_idx \in Nat /\ tokens[k].src_idx \in Nat
        /\ m \in Nat /\ k \in Nat
    <3>1. tokens[m] \in Token /\ tokens[k] \in Token /\ Len(tokens) \in Nat
      BY <2>3
    <3>2. tokens[m].src_idx \in Nat /\ tokens[k].src_idx \in Nat
      BY <3>1 DEF Token
    <3>3. m \in Nat /\ k \in Nat
      BY <2>3, <3>1
    <3> QED BY <3>2, <3>3
  <2>5. tokens[m].src_idx <= tokens[k].src_idx
    <3>1. CASE n = count
      BY <1>4, <1>5, <2>1, <2>4, <3>1
    <3>2. CASE n < count
      <4>1. seq[n].src_idx < seq[count].src_idx
        BY <1>1, <1>2, <3>2, RootNodes
      <4>2. tokens[m].src_idx < tokens[k].src_idx
        BY <1>4, <1>5, <2>1, <4>1
      <4> QED BY <2>4, <4>2
    <3> QED BY <2>2, <3>1, <3>2
  <2>6. ~ (k < m)
    <3>1. k < m => tokens[k].src_idx < tokens[m].src_idx
      BY <2>3 DEF InSourceOrder
    <3> QED BY <2>4, <2>5, <3>1
  <2> QED BY <2>4, <2>6
<1>7. \A m \in TopItems : m \in Nat
  <2>1. Len(tokens) \in Nat
    BY AcceptedTokens DEF Accepted
  <2> QED BY <1>5, <2>1
<1>8. LastItem = k
  <2>1. LastItem \in TopItems /\ \A m \in TopItems : m <= LastItem
    BY <1>6 DEF LastItem
  <2>2. LastItem <= k /\ k <= LastItem
    BY <1>6, <2>1
  <2>3. LastItem \in Nat /\ k \in Nat
    BY <1>7, <2>1
  <2> QED BY <2>2, <2>3
<1> QED BY <1>1, <1>4, <1>8

(* How eval_ast() has ended, from the items.                               *)
Answered ==
    P!Spaced =>
        pc = IF \E k \in TopItems : Unbound(k) THEN "error"
             ELSE IF TopItems # {} /\ LookedUp(LastItem) THEN "panic"
             ELSE "done"

LEMMA EvaluatedAnswers ==
    ASSUME Accepted, EP!WInv, fstack[1].forms = Forms, pc \in {"done", "error", "panic"}
    PROVE  Answered
<1> SUFFICES ASSUME P!Spaced
             PROVE  pc = IF \E k \in TopItems : Unbound(k) THEN "error"
                         ELSE IF TopItems # {} /\ LookedUp(LastItem) THEN "panic"
                         ELSE "done"
  BY DEF Answered
<1> DEFINE seq == heap[1].seq
           n == fstack[1].walk
<1>1. PICK count \in Nat : count = Len(seq)
  BY RootNodes
<1>2. Len(Forms) = count /\ \A m \in 1 .. count : Forms[m] = FormOf(m)
  BY <1>1 DEF Forms
<1>3. EP!Verdict(Forms, n) /\ n \in Nat
  BY EvaluatorAssumptions, EP!WalkFacts DEF EP!WInv
<1>4. {seq[m] : m \in 1 .. count} = {PP!NodeOf(k) : k \in TopItems}
  BY <1>1, RootNodes
<1>5. \A k \in TopItems, m \in 1 .. count : seq[m] = PP!NodeOf(k) =>
         (Forms[m].kind = "word" <=> LookedUp(k)) /\ (~ EP!Known(Forms[m]) <=> Unbound(k))
  BY <1>2, RootNodes, FormOfItem
<1> HIDE DEF seq, n
<1>6. (\E k \in TopItems : Unbound(k)) <=> \E m \in 1 .. count : ~ EP!Known(Forms[m])
  <2>1. ASSUME NEW k \in TopItems, Unbound(k) PROVE \E m \in 1 .. count : ~ EP!Known(Forms[m])
    <3>1. PICK m \in 1 .. count : seq[m] = PP!NodeOf(k)
      BY <1>4
    <3> QED BY <1>5, <2>1, <3>1
  <2>2. ASSUME NEW m \in 1 .. count, ~ EP!Known(Forms[m]) PROVE \E k \in TopItems : Unbound(k)
    <3>1. PICK k \in TopItems : seq[m] = PP!NodeOf(k)
      BY <1>4
    <3> QED BY <1>5, <2>2, <3>1
  <2> QED BY <2>1, <2>2
<1>7. TopItems # {} <=> count > 0
  <2>1. TopItems # {} <=> {PP!NodeOf(k) : k \in TopItems} # {}
    OBVIOUS
  <2>2. {seq[m] : m \in 1 .. count} # {} <=> count > 0
    <3>1. count > 0 => count \in 1 .. count
      OBVIOUS
    <3>2. count = 0 => 1 .. count = {}
      OBVIOUS
    <3> QED BY <3>1, <3>2
  <2> QED BY <1>4, <2>1, <2>2
<1>8. count > 0 => (LookedUp(LastItem) <=> Forms[count].kind = "word")
  <2> SUFFICES ASSUME count > 0 PROVE LookedUp(LastItem) <=> Forms[count].kind = "word"
    OBVIOUS
  <2>1. LastItem \in TopItems /\ seq[count] = PP!NodeOf(LastItem)
    BY <1>1, LastNode DEF seq
  <2>2. count \in 1 .. count
    OBVIOUS
  <2> QED BY <1>5, <2>1, <2>2
<1>9. CASE pc = "error"
  <2>1. n < count /\ ~ EP!Known(Forms[n + 1])
    BY <1>2, <1>3, <1>9 DEF EP!Verdict
  <2>2. n + 1 \in 1 .. count
    BY <1>3, <2>1
  <2>3. \E k \in TopItems : Unbound(k)
    BY <1>6, <2>1, <2>2
  <2> QED BY <1>9, <2>3
<1>10. CASE pc = "panic"
  <2>1. n = count /\ EP!EndsInWord(Forms, n) /\ \A m \in 1 .. n : EP!Known(Forms[m])
    BY <1>2, <1>3, <1>10 DEF EP!Verdict
  <2>2. count > 0 /\ Forms[count].kind = "word"
    BY <2>1 DEF EP!EndsInWord
  <2>3. ~ (\E k \in TopItems : Unbound(k)) /\ TopItems # {} /\ LookedUp(LastItem)
    BY <1>6, <1>7, <1>8, <2>1, <2>2
  <2> QED BY <1>10, <2>3
<1>11. CASE pc = "done"
  <2>1. n = count /\ ~ EP!EndsInWord(Forms, n) /\ \A m \in 1 .. n : EP!Known(Forms[m])
    BY <1>2, <1>3, <1>11 DEF EP!Verdict
  <2>2. ~ (count > 0 /\ Forms[count].kind = "word")
    BY <2>1 DEF EP!EndsInWord
  <2>3. ~ (\E k \in TopItems : Unbound(k)) /\ ~ (TopItems # {} /\ LookedUp(LastItem))
    BY <1>6, <1>7, <1>8, <2>1, <2>2
  <2> QED BY <1>11, <2>3
<1> QED BY <1>9, <1>10, <1>11

(* eval_ast() as execute_file() calls it differs in what it frees, so what *)
(* is proved of how it ends is the same.                                   *)
LEMMA WalkSame == FP!WInv <=> EP!WInv
BY DEF FP!WInv, EP!WInv, FP!BInv, EP!BInv, FP!TInv, EP!TInv, FP!TypeOK, EP!TypeOK,
       FP!RootParent, EP!RootParent, FP!Disciplined, EP!Disciplined, FP!Full, EP!Full,
       FP!Calls, EP!Calls, FP!Top, EP!Top, FP!Verdict, EP!Verdict, FP!ResultOf, EP!ResultOf,
       FP!Known, EP!Known, FP!EndsInWord, EP!EndsInWord, FP!NoBindings, EP!NoBindings,
       FP!Nil, EP!Nil, FP!Frame, EP!Frame, FP!Call, EP!Call, FP!Value, EP!Value, FP!Form, EP!Form,
       FP!Operative, EP!Operative, FP!Indeterminate, EP!Indeterminate

LEMMA UnaryTables == EP!UnaryTable /\ FP!UnaryTable
<1>1. \A w \in DOMAIN RootBindings : RootBindings[w].type = "op"
  BY DEF RootBindings, Operation
<1> QED BY <1>1 DEF EP!UnaryTable, FP!UnaryTable

LEMMA FileEvaluatorStarts ==
    ASSUME Trees, StartEval, mode = "file", live = {}
    PROVE  FP!Init'
<1>1. Forms \in Seq(ReplEval!Form)
  BY FormsTyped DEF Trees, StartEval
<1>2. fstack' = <<FP!NewFrame(Forms, RootBindings, 0)>>
  BY DEF StartEval, ReplEval!NewFrame, FP!NewFrame, Forms
<1>3. live' = {FP!FStack, FP!Bindings(1), FP!CStack(1)}
  BY DEF StartEval, ReplEval!FStack, FP!FStack, ReplEval!Bindings, FP!Bindings,
         ReplEval!CStack, FP!CStack
<1>4. /\ fcap' = 8 /\ cur' = 1 /\ value' = FP!Nil /\ result' = FP!Indeterminate /\ pc' = "walk"
  BY DEF StartEval, ReplEval!Nil, FP!Nil, ReplEval!Indeterminate, FP!Indeterminate
<1> QED BY <1>1, <1>2, <1>3, <1>4 DEF FP!Init

LEMMA WalkStarts == (EP!Init' => EP!WInv') /\ (FP!Init' => EP!WInv')
<1>1. EP!Init => EP!WInv
  BY EvaluatorAssumptions, EP!InitWInv
<1>2. FP!Init => EP!WInv
  BY FileEvaluatorAssumptions, FP!InitWInv, WalkSame
<1> QED BY <1>1, <1>2, PTL

LEMMA WalkSteps ==
    ASSUME EP!WInv, Evaluate \/ UNCHANGED EP!vars
    PROVE  EP!WInv' /\ fstack'[1].forms = fstack[1].forms
<1>1. CASE ReplEval!Next \/ UNCHANGED EP!vars
  <2>1. [EP!Next]_(EP!vars)
    BY <1>1, EvaluatorSame
  <2> QED BY <2>1, EvaluatorAssumptions, UnaryTables, EP!NextWInv
<1>2. CASE FileEval!Next
  <2>1. FP!WInv /\ [FP!Next]_(FP!vars)
    BY <1>2, FileEvaluatorSame, WalkSame
  <2>2. FP!WInv' /\ fstack'[1].forms = fstack[1].forms
    BY <2>1, FileEvaluatorAssumptions, UnaryTables, FP!NextWInv
  <2>3. FP!WInv' <=> EP!WInv'
    BY WalkSame, PTL
  <2> QED BY <2>2, <2>3
<1> QED BY <1>1, <1>2 DEF Evaluate

(* The answer of a line stays until the next one is read.                  *)
LEMMA AnswerStays ==
    ASSUME UNCHANGED <<tokens, src, pc>>, Answered
    PROVE  Answered'
<1>1. TopItems' = TopItems
  BY DEF TopItems, P!Children, P!Innermost, P!Encloses, P!Level, P!Count
<1>2. \A k : LookedUp(k)' <=> LookedUp(k)
  BY DEF LookedUp
<1>3. \A k : Unbound(k)' <=> Unbound(k)
  BY <1>2 DEF Unbound, T!Text
<1>4. LastItem' = LastItem
  BY <1>1 DEF LastItem
<1>5. P!Spaced' <=> P!Spaced
  BY DEF P!Spaced
<1> QED BY <1>1, <1>2, <1>3, <1>4, <1>5 DEF Answered

LEMMA FormsStay == ASSUME UNCHANGED <<tokens, src, heap>> PROVE Forms' = Forms
<1>1. \A k : FormOf(k)' = FormOf(k)
  BY DEF FormOf, TokenOf, T!Text
<1> QED BY <1>1 DEF Forms

(* From StartEval on, what is proved of eval_ast() holds of the forms of   *)
(* this line, and when it has ended the answer is the one they call for.   *)
Evals ==
    /\ mode = "file" /\ stage \in {"read", "tokenize", "parse"} => live = {}
    /\ stage = "eval" => EP!WInv /\ fstack[1].forms = Forms
    /\ stage \notin {"tokenize", "parse", "eval"} /\ status = "ok" /\ outcome = "ok" => Answered

LEMMA EvalsStep ==
    ASSUME Input, Lines, Trees, Allocated, Evals, Next \/ UNCHANGED vars
    PROVE  Evals'
<1>1. CASE StartEval
  <2>1. /\ stage' = "eval" /\ stage = "parse" /\ mode' = mode
        /\ UNCHANGED <<tokens, src, heap>>
        /\ fstack' = <<ReplEval!NewFrame(Forms, RootBindings, 0)>>
    BY <1>1 DEF StartEval, Forms, tokenizervars, parservars
  <2>2. EP!WInv'
    <3>1. CASE mode = "repl"
      <4>1. live = {ReplEval!Bindings(1)}
        BY <2>1, <3>1 DEF Allocated
      <4> QED BY <1>1, <3>1, <4>1, EvaluatorStarts, WalkStarts
    <3>2. CASE mode = "file"
      <4>1. live = {}
        BY <2>1, <3>2 DEF Evals
      <4> QED BY <1>1, <3>2, <4>1, FileEvaluatorStarts, WalkStarts
    <3> QED BY <3>1, <3>2 DEF Input
  <2>3. fstack'[1].forms = Forms
    BY <2>1 DEF ReplEval!NewFrame
  <2>4. Forms' = Forms
    BY <2>1, FormsStay
  <2> QED BY <2>1, <2>2, <2>3, <2>4 DEF Evals
<1>2. CASE Evaluate \/ UNCHANGED vars
  <2>1. /\ UNCHANGED <<mode, stage, tokens, src, heap, status, outcome>>
        /\ stage # "eval" => UNCHANGED <<pc, live>>
        /\ Evaluate \/ UNCHANGED EP!vars
    BY <1>2 DEF Evaluate, vars, drivervars, tokenizervars, parservars, evaluatorvars, EP!vars
  <2>2. Forms' = Forms
    BY <2>1, FormsStay
  <2>3. stage' = "eval" => EP!WInv' /\ fstack'[1].forms = Forms'
    BY <2>1, <2>2, WalkSteps DEF Evals
  <2>4. stage # "eval" => (Answered => Answered')
    BY <2>1, AnswerStays
  <2> QED BY <2>1, <2>3, <2>4 DEF Evals
<1>3. CASE EvalFails \/ EvalPanics \/ EvalReturns \/ EvalReturnsGarbage
  <2>1. /\ stage = "eval" /\ stage' \in {"report", "abort", "print"}
        /\ pc \in {"done", "error", "panic"}
        /\ UNCHANGED <<tokens, src, pc>>
    BY <1>3 DEF EvalFails, EvalPanics, EvalReturns, EvalReturnsGarbage, ToReport,
                tokenizervars, evaluatorvars
  <2>2. Accepted /\ EP!WInv /\ fstack[1].forms = Forms
    BY <2>1 DEF Lines, Trees, Evals, Accepted
  <2>3. Answered
    BY <2>1, <2>2, EvaluatedAnswers
  <2>4. Answered'
    BY <2>1, <2>3, AnswerStays
  <2> QED BY <2>1, <2>4 DEF Evals
<1>4. CASE ReadLine \/ ReadEnd \/ ReadFile
  <2>1. stage = "read" /\ stage' = "tokenize" /\ UNCHANGED <<mode, live>>
    BY <1>4 DEF ReadLine, ReadEnd, ReadFile, Typed, StartTokenize, evaluatorvars
  <2> QED BY <2>1 DEF Evals
<1>5. CASE Tokenize
  <2>1. stage = "tokenize" /\ stage' = "tokenize" /\ UNCHANGED <<mode, live>>
    BY <1>5 DEF Tokenize, drivervars, evaluatorvars
  <2> QED BY <2>1 DEF Evals
<1>6. CASE StartParse \/ Parse
  <2>1. stage \in {"tokenize", "parse"} /\ stage' = "parse" /\ UNCHANGED <<mode, live>>
    BY <1>6 DEF StartParse, Parse, drivervars, evaluatorvars
  <2> QED BY <2>1 DEF Evals
<1>7. CASE TokenizeFails \/ TokenizeAborts
  <2>1. stage' \in {"report", "abort"} /\ status' # "ok"
    BY <1>7 DEF TokenizeFails, TokenizeAborts, ToReport, T!Errors, tokenizervars
  <2> QED BY <2>1 DEF Evals
<1>8. CASE ParseFails
  <2>1. stage' = "report" /\ outcome' # "ok"
    BY <1>8 DEF ParseFails, ToReport, parservars
  <2> QED BY <2>1 DEF Evals
<1>9. CASE ReadCharacter \/ AbortCharacter \/ ReadFails
  <2>1. /\ stage = "read" /\ stage' \in {"read", "abort", "exit"}
        /\ UNCHANGED <<mode, live, status, outcome, tokens, src, pc>>
    BY <1>9 DEF ReadCharacter, AbortCharacter, ReadFails, Typed, tokenizervars, parservars, evaluatorvars
  <2>2. Answered => Answered'
    BY <2>1, AnswerStays
  <2> QED BY <2>1, <2>2 DEF Evals
<1>10. CASE Report \/ PrintValue
  <2>1. /\ stage \in {"report", "print"} /\ stage' \in {"read", "exit"}
        /\ mode = "file" => stage' = "exit"
        /\ UNCHANGED <<mode, status, outcome, tokens, src, pc>>
    BY <1>10 DEF Report, PrintValue, tokenizervars, evaluatorvars
  <2>2. Answered => Answered'
    BY <2>1, AnswerStays
  <2> QED BY <2>1, <2>2 DEF Evals
<1>11. CASE Ended
  BY <1>2, <1>11 DEF Ended
<1> QED BY <1>1, <1>2, <1>3, <1>4, <1>5, <1>6, <1>7, <1>8, <1>9, <1>10, <1>11 DEF Next

----------------------------------------------------------------------------
(* The line as the user sees it: what tokenize() makes of its characters.  *)
LEMMA PrefixFacts ==
    ASSUME NEW S, NEW s \in Seq(S), NEW n \in Nat, n <= Len(s)
    PROVE  /\ SubSeq(s, 1, n) \in Seq(S) /\ Len(SubSeq(s, 1, n)) = n
           /\ \A k \in 1 .. n : SubSeq(s, 1, n)[k] = s[k]
<1>1. \A k \in 1 .. n : s[k] \in S
  OBVIOUS
<1>2. /\ SubSeq(s, 1, n) \in Seq(S)
      /\ Len(SubSeq(s, 1, n)) = IF 1 <= n THEN n - 1 + 1 ELSE 0
      /\ \A k \in 1 .. n - 1 + 1 : SubSeq(s, 1, n)[k] = s[1 + k - 1]
  BY <1>1, SubSeqProperties
<1> QED BY <1>2

LEMMA SliceFacts ==
    ASSUME NEW S, NEW s \in Seq(S), NEW f \in Nat \ {0}, NEW t \in Nat, t <= Len(s)
    PROVE  /\ SubSeq(s, f, t) \in Seq(S)
           /\ Len(SubSeq(s, f, t)) = IF f <= t THEN t - f + 1 ELSE 0
           /\ \A k \in 1 .. t - f + 1 : SubSeq(s, f, t)[k] = s[f + k - 1]
<1>1. \A k \in f .. t : s[k] \in S
  OBVIOUS
<1> QED BY <1>1, SubSeqProperties

LEMMA SuffixFacts ==
    ASSUME NEW S, NEW s \in Seq(S), NEW n \in Nat, NEW l \in Nat, Len(s) = n + 1 + l
    PROVE  /\ SubSeq(s, n + 2, n + 1 + l) \in Seq(S)
           /\ Len(SubSeq(s, n + 2, n + 1 + l)) = l
           /\ \A k \in 1 .. l : SubSeq(s, n + 2, n + 1 + l)[k] = s[n + 1 + k]
<1>1. PICK f \in Nat \ {0} : f = n + 2
  OBVIOUS
<1>2. PICK t \in Nat : t = n + 1 + l
  OBVIOUS
<1>3. PICK rest : rest = SubSeq(s, f, t)
  OBVIOUS
<1>4. t <= Len(s)
  BY <1>2
<1>5. /\ rest \in Seq(S)
      /\ Len(rest) = IF f <= t THEN t - f + 1 ELSE 0
      /\ \A k \in 1 .. t - f + 1 : rest[k] = s[f + k - 1]
  BY <1>3, <1>4, SliceFacts
<1>6. t - f + 1 = l /\ (f <= t <=> l > 0) /\ \A k \in 1 .. l : f + k - 1 = n + 1 + k
  BY <1>1, <1>2
<1>7. Len(rest) = l
  BY <1>5, <1>6
<1>8. \A k \in 1 .. l : rest[k] = s[n + 1 + k]
  BY <1>5, <1>6
<1> QED BY <1>1, <1>2, <1>3, <1>5, <1>7, <1>8

LEMMA LineChars ==
    ASSUME NEW line \in Seq(Character), src = Classes(line)
    PROVE  /\ Len(src) = Len(line) /\ Len(line) \in Nat
           /\ \A k \in 1 .. Len(line) : src[k] = (IF line[k] = "n" THEN " " ELSE line[k])
<1>1. Len(src) = Len(line) /\ Len(line) \in Nat
  BY ClassesTyped
<1> QED BY <1>1 DEF Classes

LEMMA LineCounts ==
    ASSUME NEW line \in Seq(Character), src = Classes(line),
           NEW k \in 0 .. Len(line), NEW c \in {"[", "]"}
    PROVE  Number(SubSeq(line, 1, k), c) = TP!CountIn(k, c)
<1> DEFINE prefix == SubSeq(line, 1, k)
<1>0. PICK n \in Nat : n = Len(line)
  OBVIOUS
<1>1. k \in Nat /\ k <= Len(line)
  BY <1>0
<1>2. Len(prefix) = k /\ \A m \in 1 .. k : prefix[m] = line[m]
  BY <1>1, PrefixFacts
<1>3. \A m \in 1 .. k : m \in 1 .. Len(line)
  BY <1>0, <1>1
<1>4. \A m \in 1 .. k : prefix[m] = c <=> src[m] = c
  <2>1. c # " " /\ c # "n"
    OBVIOUS
  <2> QED BY <1>2, <1>3, <2>1, LineChars
<1> HIDE DEF prefix
<1>5. {m \in 1 .. Len(prefix) : prefix[m] = c} = {m \in 1 .. k : src[m] = c}
  BY <1>2, <1>4
<1>6. Number(prefix, c) = TP!CountIn(k, c)
  BY <1>5 DEF Number, TP!CountIn, Cardinality, TP!Cardinality
<1> QED BY <1>6 DEF prefix

LEMMA WholeLine == ASSUME NEW line \in Seq(Character) PROVE SubSeq(line, 1, Len(line)) = line
<1>1. PICK n \in Nat : n = Len(line)
  OBVIOUS
<1>2. /\ SubSeq(line, 1, n) \in Seq(Character) /\ Len(SubSeq(line, 1, n)) = n
      /\ \A k \in 1 .. n : SubSeq(line, 1, n)[k] = line[k]
  BY <1>1, PrefixFacts
<1> QED BY <1>1, <1>2, SeqEqual

(* What tokenize() accepts and what it rejects, by the text.               *)
LEMMA AcceptedLexes ==
    ASSUME buf \in Seq(Character), src = Classes(buf), TokInv, status = "ok"
    PROVE  Lexes(buf)
<1>1. i = Len(src) /\ TP!Clean(i) /\ TP!CountIn(i, "[") = TP!CountIn(i, "]")
  BY TokenizerAssumptions, TP!OkVerdict DEF TokInv
<1>2. PICK n \in Nat : n = Len(buf) /\ n = Len(src) /\ n = i
  BY <1>1, LineChars
<1>3. \A k \in 1 .. n : src[k] = (IF buf[k] = "n" THEN " " ELSE buf[k])
  BY <1>2, LineChars
<1>4. Balanced(buf)
  <2>1. \A k \in 0 .. n : Number(SubSeq(buf, 1, k), "[") = TP!CountIn(k, "[")
                          /\ Number(SubSeq(buf, 1, k), "]") = TP!CountIn(k, "]")
    BY <1>2, LineCounts
  <2>2. \A k \in 0 .. n : TP!CountIn(k, "]") <= TP!CountIn(k, "[")
    BY <1>2 DEF TokInv, TP!UInv, TP!Prefixes
  <2>3. n \in 0 .. n /\ \A k \in 1 .. n : k \in 0 .. n
    OBVIOUS
  <2>4. Number(buf, "[") = TP!CountIn(n, "[") /\ Number(buf, "]") = TP!CountIn(n, "]")
    BY <1>2, <2>1, <2>3, WholeLine
  <2>5. \A k \in 1 .. n : Number(SubSeq(buf, 1, k), "]") <= Number(SubSeq(buf, 1, k), "[")
    BY <2>1, <2>2, <2>3
  <2>6. TP!CountIn(n, "[") = TP!CountIn(n, "]")
    BY <1>1, <1>2
  <2> QED BY <1>2, <2>4, <2>5, <2>6 DEF Balanced
<1>5. ASSUME NEW k \in 1 .. n
      PROVE  /\ buf[k] \notin {"~", "hi"}
             /\ buf[k] = "'" => k < n /\ buf[k + 1] \in {"a", "-", "."}
  <2>1. PICK m \in 0 .. n - 1 : m + 1 = k
    <3>1. k - 1 \in 0 .. n - 1 /\ k - 1 + 1 = k
      OBVIOUS
    <3> QED BY <3>1
  <2>2. /\ src[k] # "~" /\ src[k] # "hi"
        /\ src[k] = "'" => k # Len(src) /\ src[m + 2] \in {"a", "-", "."}
    BY <1>1, <1>2, <2>1, TokenizerAssumptions, TP!NoOffence
  <2>3. m + 2 = k + 1 /\ (k # n => k < n /\ k + 1 \in 1 .. n)
    BY <2>1
  <2>4. buf[k] \notin {"~", "hi"}
    BY <1>3, <2>2
  <2>5. ASSUME buf[k] = "'" PROVE k < n /\ buf[k + 1] \in {"a", "-", "."}
    <3>1. src[k] = "'"
      BY <1>3, <2>5
    <3>2. k < n /\ k + 1 \in 1 .. n /\ src[k + 1] \in {"a", "-", "."}
      BY <1>2, <2>2, <2>3, <3>1
    <3> QED BY <1>3, <3>2
  <2> QED BY <2>4, <2>5
<1> QED BY <1>2, <1>4, <1>5 DEF Lexes

LEMMA RejectedLexes ==
    ASSUME buf \in Seq(Character), src = Classes(buf), TokInv, status \in TP!Errors \cup {"abort"}
    PROVE  /\ ~ Lexes(buf)
           /\ status = "abort" => \E k \in 1 .. Len(buf) : buf[k] = "hi"
<1>1. \/ i < Len(src) /\ \E build \in {Build} : TP!Offence(i, build, status)
      \/ i = Len(src) /\ TP!CountIn(i, "[") # TP!CountIn(i, "]") /\ status # "abort"
  BY TokenizerAssumptions, TP!ErrorVerdict DEF TokInv
<1>2. PICK n \in Nat : n = Len(buf) /\ n = Len(src)
  BY LineChars
<1>3. \A k \in 1 .. n : src[k] = (IF buf[k] = "n" THEN " " ELSE buf[k])
  BY <1>2, LineChars
<1>4. CASE i = Len(src) /\ TP!CountIn(i, "[") # TP!CountIn(i, "]") /\ status # "abort"
  <2>1. n \in 0 .. n /\ i = n
    BY <1>2, <1>4
  <2>2. Number(buf, "[") = TP!CountIn(n, "[") /\ Number(buf, "]") = TP!CountIn(n, "]")
    BY <1>2, <2>1, LineCounts, WholeLine
  <2> QED BY <1>4, <2>1, <2>2 DEF Lexes, Balanced
<1>5. CASE i < Len(src) /\ \E build \in {Build} : TP!Offence(i, build, status)
  <2>0. i \in 0 .. n
    BY <1>2 DEF TokInv, TP!IInv, TP!TypeOK
  <2>1. PICK k \in 1 .. n : i + 1 = k /\ i \in 0 .. n /\ i + 2 = k + 1
    <3>1. i + 1 \in 1 .. n /\ i + 2 = (i + 1) + 1
      BY <1>2, <1>5, <2>0
    <3> QED BY <2>0, <3>1
  <2>2. /\ \/ src[k] = "]" /\ TP!CountIn(i, "[") <= TP!CountIn(i, "]")
           \/ src[k] = "'" /\ (k = n \/ src[k + 1] \notin {"a", "-", "."})
           \/ src[k] = "~"
           \/ src[k] = "hi"
        /\ status = "abort" => src[k] = "hi" \/ (src[k] = "'" /\ k # n /\ src[k + 1] = "hi")
    BY <1>2, <1>5, <2>1, TokenizerAssumptions, TP!AtOffence
  <2>3. k < n => k + 1 \in 1 .. n
    OBVIOUS
  <2>4. CASE src[k] = "]" /\ TP!CountIn(i, "[") <= TP!CountIn(i, "]")
    <3>1. TP!CountIn(k, "[") = TP!CountIn(i, "[") /\ TP!CountIn(k, "]") = TP!CountIn(i, "]") + 1
          /\ TP!CountIn(i, "[") \in Nat /\ TP!CountIn(i, "]") \in Nat
      <4>1. i \in Nat
        BY <2>1
      <4> QED BY <2>1, <2>4, <4>1, TokenizerAssumptions, TP!CountNext
    <3>2. k \in 0 .. n
      OBVIOUS
    <3>3. /\ Number(SubSeq(buf, 1, k), "[") = TP!CountIn(k, "[")
          /\ Number(SubSeq(buf, 1, k), "]") = TP!CountIn(k, "]")
      BY <1>2, <3>2, LineCounts
    <3>4. ~ (Number(SubSeq(buf, 1, k), "]") <= Number(SubSeq(buf, 1, k), "["))
      BY <2>4, <3>1, <3>3
    <3>5. ~ Lexes(buf)
      BY <1>2, <3>4 DEF Lexes, Balanced
    <3> QED BY <2>2, <2>4, <3>5
  <2>5. CASE src[k] = "~" \/ src[k] = "hi"
    <3>1. buf[k] = src[k]
      BY <1>3, <2>5
    <3>2. ~ Lexes(buf)
      BY <1>2, <2>5, <3>1 DEF Lexes
    <3> QED BY <1>2, <2>2, <2>5, <3>1, <3>2
  <2>6. CASE src[k] = "'" /\ (k = n \/ src[k + 1] \notin {"a", "-", "."})
    <3>1. buf[k] = "'"
      BY <1>3, <2>6
    <3>2. k < n => buf[k + 1] = src[k + 1] \/ (buf[k + 1] = "n" /\ src[k + 1] = " ")
      BY <1>3, <2>3
    <3>3. ~ (k < n /\ buf[k + 1] \in {"a", "-", "."})
      <4>1. CASE k = n
        BY <4>1
      <4>2. CASE src[k + 1] \notin {"a", "-", "."}
        <5>1. ASSUME k < n PROVE buf[k + 1] \notin {"a", "-", "."}
          BY <3>2, <4>2, <5>1
        <5> QED BY <5>1
      <4> QED BY <2>6, <4>1, <4>2
    <3>4. ~ Lexes(buf)
      BY <1>2, <3>1, <3>3 DEF Lexes
    <3>5. ASSUME status = "abort" PROVE k < n /\ k + 1 \in 1 .. n /\ buf[k + 1] = "hi"
      <4>1. k # n /\ src[k + 1] = "hi"
        BY <2>2, <2>6, <3>5
      <4>2. k < n
        BY <4>1
      <4> QED BY <2>3, <3>2, <4>1, <4>2
    <3> QED BY <1>2, <3>4, <3>5
  <2> QED BY <2>2, <2>4, <2>5, <2>6
<1> QED BY <1>1, <1>4, <1>5

(* Data, by the characters that tokenize() sees.                           *)
DataSource ==
    /\ \E k \in 1 .. Len(src) : src[k] # " "
    /\ \A k \in 1 .. Len(src) :
          /\ src[k] \notin {"0", "-", "."}
          /\ src[k] = "a" => k > 1 /\ src[k - 1] \in {"'", "a"}
          /\ src[k] = "]" /\ k < Len(src) => src[k + 1] = " "
          /\ src[k] = "'" => k < Len(src) /\ src[k + 1] = "a"

LEMMA DataSourceOfLine ==
    ASSUME buf \in Seq(Character), src = Classes(buf), Lexes(buf), IsData(buf)
    PROVE  DataSource
<1>2. PICK n \in Nat : n = Len(buf) /\ n = Len(src)
  BY LineChars
<1>3. \A k \in 1 .. n : src[k] = (IF buf[k] = "n" THEN " " ELSE buf[k])
  BY <1>2, LineChars
<1>4. \E k \in 1 .. n : src[k] # " "
  <2>1. PICK k \in 1 .. n : ~ Blank(buf[k])
    BY <1>2 DEF IsData
  <2>2. buf[k] # " " /\ buf[k] # "n"
    BY <2>1 DEF Blank
  <2> QED BY <1>3, <2>2
<1>5. ASSUME NEW k \in 1 .. n
      PROVE  /\ src[k] \notin {"0", "-", "."}
             /\ src[k] = "a" => k > 1 /\ src[k - 1] \in {"'", "a"}
             /\ src[k] = "]" /\ k < n => src[k + 1] = " "
             /\ src[k] = "'" => k < n /\ src[k + 1] = "a"
  <2>1. /\ buf[k] \notin {"0", "-", "."}
        /\ buf[k] = "a" => k > 1 /\ buf[k - 1] \in {"'", "a"}
        /\ buf[k] = "]" /\ k < n => Blank(buf[k + 1])
    BY <1>2 DEF IsData
  <2>2. buf[k] = "'" => k < n /\ buf[k + 1] \in {"a", "-", "."}
    BY <1>2 DEF Lexes
  <2>3. (k > 1 => k - 1 \in 1 .. n) /\ (k < n => k + 1 \in 1 .. n)
    OBVIOUS
  <2>4. src[k] \notin {"0", "-", "."}
    BY <1>3, <2>1
  <2>5. ASSUME src[k] = "a" PROVE k > 1 /\ src[k - 1] \in {"'", "a"}
    <3>1. k > 1 /\ buf[k - 1] \in {"'", "a"}
      BY <1>3, <2>1, <2>5
    <3> QED BY <1>3, <2>3, <3>1
  <2>6. ASSUME src[k] = "]", k < n PROVE src[k + 1] = " "
    <3>1. buf[k + 1] \in {" ", "n"}
      BY <1>3, <2>1, <2>6 DEF Blank
    <3> QED BY <1>3, <2>3, <2>6, <3>1
  <2>7. ASSUME src[k] = "'" PROVE k < n /\ src[k + 1] = "a"
    <3>1. k < n /\ k + 1 \in 1 .. n /\ buf[k + 1] \in {"a", "-", "."}
      BY <1>3, <2>2, <2>3, <2>7
    <3>2. buf[k + 1] \notin {"0", "-", "."}
      BY <1>2, <3>1 DEF IsData
    <3>3. buf[k + 1] = "a"
      BY <3>1, <3>2
    <3> QED BY <1>3, <3>1, <3>3
  <2> QED BY <2>4, <2>5, <2>6, <2>7
<1> QED BY <1>2, <1>4, <1>5 DEF DataSource

(* The tokens of data: every word is quoted, a blank follows each bracket  *)
(* that closes, and there is something else than blanks.                   *)
LEMMA DataTokens ==
    ASSUME TokInv, status = "ok", DataSource
    PROVE  /\ \A k \in 1 .. Len(tokens) : tokens[k].type # "number"
           /\ \A k \in 1 .. Len(tokens) :
                 tokens[k].type = "word" => k > 1 /\ tokens[k - 1].type = "quote"
           /\ P!Spaced
           /\ \E k \in 1 .. Len(tokens) : tokens[k].type \in {"word", "open"}
<1> DEFINE n == Len(tokens)
           first(k) == src[tokens[k].src_idx + 1]
<1>1. i = Len(src) /\ TP!IInv /\ TP!LInv /\ TP!UInv
  BY TokenizerAssumptions, TP!OkVerdict DEF TokInv
<1>2. PICK l \in Nat : l = Len(src)
  BY DEF TokInv, TP!IInv, TP!TypeOK
<1>3. n \in Nat
  BY AcceptedTokens
<1>4. \A k \in 1 .. n :
         /\ tokens[k].type \in TP!TokenType
         /\ tokens[k].src_idx \in Nat /\ tokens[k].len \in Nat /\ tokens[k].len > 0
         /\ tokens[k].src_idx + tokens[k].len <= l
         /\ k = 1 => tokens[k].src_idx = 0
         /\ k < n => tokens[k].src_idx + tokens[k].len = tokens[k + 1].src_idx
         /\ k = n => tokens[k].src_idx + tokens[k].len = l
  BY <1>1, <1>2, TokenizerAssumptions, TP!TokenChars
<1>5. \A k \in 1 .. n :
         /\ tokens[k].type = "open" => tokens[k].len = 1 /\ first(k) = "["
         /\ tokens[k].type = "close" => tokens[k].len = 1 /\ first(k) = "]"
         /\ tokens[k].type = "quote" => tokens[k].len = 1 /\ first(k) = "'"
         /\ tokens[k].type = "ws" => \A m \in 1 .. tokens[k].len : src[tokens[k].src_idx + m] = " "
         /\ tokens[k].type = "word" =>
               \A m \in 1 .. tokens[k].len : TP!IsWordFirst(src[tokens[k].src_idx + m])
         /\ tokens[k].type = "number" =>
               \E m \in 1 .. tokens[k].len : src[tokens[k].src_idx + m] = "0"
  BY <1>1, TokenizerAssumptions, TP!TokenChars
<1>6. \A k \in 1 .. n : \A m \in 1 .. tokens[k].len : tokens[k].src_idx + m \in 1 .. l
  <2> SUFFICES ASSUME NEW k \in 1 .. n, NEW m \in 1 .. tokens[k].len
               PROVE  tokens[k].src_idx + m \in 1 .. l
    OBVIOUS
  <2>1. PICK a \in Nat, b \in Nat : a = tokens[k].src_idx /\ b = tokens[k].len
    BY <1>4
  <2>2. a + b <= l
    BY <1>4, <2>1
  <2>3. a + m \in 1 .. l
    BY <2>1, <2>2
  <2> QED BY <2>1, <2>3
<1>d. \A k \in 1 .. l :
         /\ src[k] \notin {"0", "-", "."}
         /\ src[k] = "a" => k > 1 /\ src[k - 1] \in {"'", "a"}
         /\ src[k] = "]" /\ k < l => src[k + 1] = " "
         /\ src[k] = "'" => k < l /\ src[k + 1] = "a"
  BY <1>2 DEF DataSource
<1>7. \A k \in 1 .. n : tokens[k].type # "number"
  BY <1>5, <1>6, <1>d
<1>8. \A k \in 1 .. n : \A m \in 1 .. tokens[k].len :
         tokens[k].type = "word" => src[tokens[k].src_idx + m] = "a"
  <2> SUFFICES ASSUME NEW k \in 1 .. n, NEW m \in 1 .. tokens[k].len, tokens[k].type = "word"
               PROVE  src[tokens[k].src_idx + m] = "a"
    OBVIOUS
  <2>1. TP!IsWordFirst(src[tokens[k].src_idx + m])
    BY <1>5
  <2>2. src[tokens[k].src_idx + m] \in {"a", "-", "."}
    BY <2>1 DEF TP!IsWordFirst
  <2>3. PICK q \in 1 .. l : q = tokens[k].src_idx + m
    BY <1>6
  <2>4. src[q] \notin {"0", "-", "."}
    BY <1>d
  <2> QED BY <2>2, <2>3, <2>4
<1>9. \A k \in 1 .. n : 1 \in 1 .. tokens[k].len /\ tokens[k].len \in 1 .. tokens[k].len
  BY <1>4
<1>10. \A k \in 1 .. n : tokens[k].type \in {"ws", "word", "open", "close", "quote"}
  BY <1>4, <1>7 DEF TP!TokenType
<1>f. \A k \in 1 .. n :
         /\ first(k) = "[" => tokens[k].type = "open"
         /\ first(k) = "]" => tokens[k].type = "close"
         /\ first(k) = "'" => tokens[k].type = "quote"
         /\ first(k) = " " => tokens[k].type = "ws"
         /\ first(k) = "a" => tokens[k].type = "word"
  BY <1>5, <1>8, <1>9, <1>10
<1> HIDE DEF n
<1>11. ASSUME NEW k \in 1 .. n, tokens[k].type = "word"
       PROVE  k > 1 /\ tokens[k - 1].type = "quote"
  <2>1. PICK p \in Nat : p = tokens[k].src_idx
    BY <1>4
  <2>2. p + 1 \in 1 .. l /\ src[p + 1] = "a"
    BY <1>6, <1>8, <1>9, <1>11, <2>1
  <2>3. p > 0 /\ src[p] \in {"'", "a"}
    <3>1. p + 1 > 1 /\ src[(p + 1) - 1] \in {"'", "a"}
      BY <1>d, <2>2
    <3>2. (p + 1) - 1 = p
      OBVIOUS
    <3> QED BY <3>1, <3>2
  <2>4. k > 1
    BY <1>3, <1>4, <2>1, <2>3
  <2>5. PICK j \in 1 .. n : j = k - 1 /\ j < n /\ j + 1 = k
    <3>1. k - 1 \in 1 .. n /\ k - 1 < n /\ (k - 1) + 1 = k
      BY <1>3, <2>4
    <3> QED BY <3>1
  <2>6. PICK a \in Nat, b \in Nat : a = tokens[j].src_idx /\ b = tokens[j].len
    BY <1>4
  <2>7. a + b = p /\ b \in 1 .. b
    BY <1>4, <1>9, <2>1, <2>5, <2>6
  <2>8. CASE tokens[j].type = "ws"
    <3>1. src[a + b] = " "
      BY <1>5, <2>6, <2>7, <2>8
    <3> QED BY <2>3, <2>7, <3>1
  <2>9. CASE tokens[j].type \in {"open", "close"}
    <3>1. b = 1 /\ src[a + 1] \in {"[", "]"}
      BY <1>5, <2>6, <2>9
    <3> QED BY <2>3, <2>7, <3>1
  <2>10. CASE tokens[j].type = "word"
    <3>1. TP!Mergeable(tokens[j], tokens[k])
      BY <1>11, <2>10 DEF TP!Mergeable
    <3>2. j \in 1 .. Len(tokens) - 1
      BY <1>3, <2>5 DEF n
    <3> QED BY <1>1, <2>5, <3>1, <3>2 DEF TP!LInv, TP!Maximal
  <2> QED BY <1>10, <2>4, <2>5, <2>8, <2>9, <2>10
<1>12. ASSUME NEW k \in 1 .. n, k < n
       PROVE  /\ tokens[k].type = "close" => tokens[k + 1].type = "ws"
              /\ tokens[k].type = "quote" => tokens[k + 1].type = "word"
  <2>1. PICK a \in Nat : a = tokens[k].src_idx
    BY <1>4
  <2>2. k + 1 \in 1 .. n
    BY <1>3, <1>12
  <2>3. tokens[k].len = 1 => tokens[k + 1].src_idx = a + 1
    BY <1>4, <1>12, <2>1
  <2>4. ASSUME tokens[k].len = 1 PROVE a + 1 \in 1 .. l /\ a + 1 < l /\ first(k + 1) = src[a + 2]
    <3>1. PICK q \in Nat : q = tokens[k + 1].src_idx /\ q + 1 \in 1 .. l
      BY <1>4, <1>6, <1>9, <2>2
    <3>2. q = a + 1
      BY <2>3, <2>4, <3>1
    <3>3. q + 1 = a + 2
      BY <3>2
    <3>4. first(k + 1) = src[q + 1]
      BY <3>1
    <3>5. a + 1 \in 1 .. l /\ a + 1 < l
      BY <3>1, <3>2
    <3> QED BY <3>3, <3>4, <3>5
  <2>5. (a + 1) + 1 = a + 2
    OBVIOUS
  <2>6. ASSUME tokens[k].type = "close" PROVE tokens[k + 1].type = "ws"
    <3>1. tokens[k].len = 1 /\ src[a + 1] = "]"
      BY <1>5, <2>1, <2>6
    <3>2. first(k + 1) = " "
      BY <1>d, <2>4, <2>5, <3>1
    <3> QED BY <1>f, <2>2, <3>2
  <2>7. ASSUME tokens[k].type = "quote" PROVE tokens[k + 1].type = "word"
    <3>1. tokens[k].len = 1 /\ src[a + 1] = "'"
      BY <1>5, <2>1, <2>7
    <3>2. first(k + 1) = "a"
      BY <1>d, <2>4, <2>5, <3>1
    <3> QED BY <1>f, <2>2, <3>2
  <2> QED BY <2>6, <2>7
<1>13. P!Spaced
  <2>1. \A k \in 1 .. n - 1 : k \in 1 .. n /\ k < n
    BY <1>3
  <2> QED BY <1>12, <2>1 DEF P!Spaced, n
<1>14. ASSUME \A k \in 1 .. n : tokens[k].type \notin {"word", "open"} PROVE FALSE
  <2>1. \A k \in 1 .. n : tokens[k].type # "close"
    <3>1. {k \in 1 .. n : tokens[k].type = "open"} = {}
      BY <1>14
    <3>2. TP!CountOf(tokens, "open", n) = 0
      BY <3>1, FS_EmptySet DEF TP!CountOf, TP!Cardinality, Cardinality
    <3>3. TP!CountOf(tokens, "close", n) + 0 = TP!CountOf(tokens, "open", n)
      BY DEF TokInv, TP!CInv, TP!Rises, n
    <3>4. TP!CountOf(tokens, "close", n) \in Nat
      BY <1>3, TokenizerAssumptions, TP!CountOfNext
    <3>5. TP!CountOf(tokens, "close", n) = 0
      BY <3>2, <3>3, <3>4
    <3>6. Cardinality({k \in 1 .. n : tokens[k].type = "close"}) = 0
      BY <3>5 DEF TP!CountOf, TP!Cardinality, Cardinality
    <3>7. IsFiniteSet(1 .. n)
      BY <1>3, FS_Interval
    <3>8. IsFiniteSet({k \in 1 .. n : tokens[k].type = "close"})
      BY <3>7, FS_Subset
    <3>9. {k \in 1 .. n : tokens[k].type = "close"} = {}
      BY <3>6, <3>8, FS_EmptySet
    <3> QED BY <3>9
  <2>2. ASSUME NEW k \in 1 .. n, tokens[k].type = "quote" PROVE FALSE
    <3>1. PICK a \in Nat : a = tokens[k].src_idx
      BY <1>4
    <3>2. tokens[k].len = 1 /\ src[a + 1] = "'" /\ a + 1 \in 1 .. l
      BY <1>5, <1>6, <1>9, <2>2, <3>1
    <3>3. a + 1 < l
      BY <1>d, <3>2
    <3>4. k # n
      BY <1>4, <3>1, <3>2, <3>3
    <3>5. k < n /\ k + 1 \in 1 .. n
      BY <1>3, <3>4
    <3> QED BY <1>12, <1>14, <2>2, <3>5
  <2>3. \A k \in 1 .. n : tokens[k].type = "ws"
    BY <1>10, <1>14, <2>1, <2>2
  <2>4. n <= 1
    <3>1. ASSUME n > 1 PROVE FALSE
      <4>1. 1 \in 1 .. n /\ 2 \in 1 .. n /\ 1 \in 1 .. Len(tokens) - 1 /\ 1 + 1 = 2
        BY <1>3, <3>1 DEF n
      <4>2. TP!Mergeable(tokens[1], tokens[2])
        BY <2>3, <4>1 DEF TP!Mergeable
      <4> QED BY <1>1, <4>1, <4>2 DEF TP!LInv, TP!Maximal
    <3> QED BY <1>3, <3>1
  <2>5. PICK m \in 1 .. l : src[m] # " "
    BY <1>2 DEF DataSource
  <2>6. CASE n = 0
    <3>1. tokens = <<>>
      BY <2>6, AcceptedTokens DEF n
    <3>2. TP!Tiles(tokens, i)
      BY <1>1 DEF TP!IInv, TP!DoneTiles
    <3>3. l = 0
      BY <1>1, <1>2, <3>1, <3>2 DEF TP!Tiles
    <3>4. 1 .. l = {}
      BY <3>3
    <3> QED BY <2>5, <3>4
  <2>7. CASE n = 1
    <3>1. 1 \in 1 .. n
      BY <2>7
    <3>2. tokens[1].src_idx = 0 /\ tokens[1].len \in Nat /\ tokens[1].src_idx + tokens[1].len = l
      BY <1>4, <2>7, <3>1
    <3>3. tokens[1].len = l
      BY <3>2
    <3>4. \A k \in 1 .. l : src[0 + k] = " "
      <4>1. \A k \in 1 .. tokens[1].len : src[tokens[1].src_idx + k] = " "
        BY <1>5, <2>3, <3>1
      <4> QED BY <3>2, <3>3, <4>1
    <3>5. 0 + m = m
      OBVIOUS
    <3> QED BY <2>5, <3>4, <3>5
  <2> QED BY <1>3, <2>4, <2>6, <2>7
<1> QED BY <1>7, <1>11, <1>13, <1>14 DEF n

(* Data is answered with a value: it has an item, and looks no word up.    *)
LEMMA DataItems ==
    ASSUME Accepted, DataSource
    PROVE  TopItems # {} /\ P!Spaced /\ \A k \in TopItems : ~ LookedUp(k)
<1>1. /\ \A k \in 1 .. Len(tokens) : tokens[k].type # "number"
      /\ \A k \in 1 .. Len(tokens) :
            tokens[k].type = "word" => k > 1 /\ tokens[k - 1].type = "quote"
      /\ P!Spaced
      /\ \E k \in 1 .. Len(tokens) : tokens[k].type \in {"word", "open"}
  BY DataTokens DEF Accepted
<1>2. \A k \in TopItems : k \in 1 .. Len(tokens)
  BY ItemsSame DEF PP!Children
<1>3. \A k \in TopItems : ~ LookedUp(k)
  BY <1>1, <1>2 DEF LookedUp
<1>4. PICK l \in Nat : l = Len(tokens)
  BY AcceptedTokens DEF Accepted
<1> DEFINE S == {k \in 1 .. l : tokens[k].type \in {"word", "open"}}
<1>5. S # {} /\ S \subseteq Nat
  BY <1>1, <1>4
<1>6. PICK k \in S : \A m \in S : k <= m
  <2> HIDE DEF S
  <2> QED BY <1>5, TokenizerAssumptions, TP!NatLeast
<1>7. k \in 1 .. l /\ k \in Nat /\ tokens[k].type \in {"word", "open"}
  BY <1>6
<1>8. PP!Innermost(0, k)
  <2>1. \A m \in 0 .. k - 1 : PP!Level(m) >= PP!Level(0)
    <3>1. PP!Count("open", 0) = 0 /\ PP!Count("close", 0) = 0
      BY ParserAssumptions, PP!CountNone
    <3>2. PP!Level(0) = 0
      BY <3>1 DEF PP!Level
    <3>3. \A m \in 1 .. l : PP!Level(m) >= 0
      BY <1>4, AcceptedBalanced DEF Accepted, PP!Balanced
    <3>4. \A m \in 0 .. k - 1 : m = 0 \/ m \in 1 .. l
      BY <1>7
    <3> QED BY <3>2, <3>3, <3>4
  <2>2. PP!Encloses(0, k)
    BY <1>7, <2>1 DEF PP!Encloses
  <2>3. ASSUME NEW m \in 1 .. k - 1, PP!Encloses(m, k) PROVE FALSE
    <3>1. m # 0 /\ m < k /\ m \in 1 .. l
      BY <1>7
    <3>2. tokens[m].type = "open"
      BY <2>3, <3>1 DEF PP!Encloses
    <3>3. m \in S
      BY <3>1, <3>2
    <3>4. k <= m
      BY <1>6, <3>3
    <3> QED BY <1>7, <3>1, <3>4
  <2>4. 0 + 1 = 1
    OBVIOUS
  <2> QED BY <2>2, <2>3, <2>4 DEF PP!Innermost
<1>9. k \in TopItems
  BY <1>4, <1>7, <1>8, ItemsSame DEF PP!Children
<1> QED BY <1>1, <1>3, <1>9

LEMMA DataAnswered ==
    ASSUME Accepted, DataSource, EP!WInv, fstack[1].forms = Forms, pc \in {"done", "error", "panic"}
    PROVE  pc = "done" /\ result # ReplEval!Indeterminate
<1>1. P!Spaced /\ TopItems # {} /\ \A k \in TopItems : ~ LookedUp(k)
  BY DataItems
<1>2. PICK count \in Nat : count = Len(heap[1].seq)
  BY <1>1, RootNodes
<1>3. count > 0
  <2>1. {heap[1].seq[m] : m \in 1 .. count} = {PP!NodeOf(k) : k \in TopItems}
    BY <1>1, <1>2, RootNodes
  <2>2. PICK k \in TopItems : TRUE
    BY <1>1
  <2>3. PICK m \in 1 .. count : heap[1].seq[m] = PP!NodeOf(k)
    BY <2>1
  <2> QED BY <2>3
<1>4. LastItem \in TopItems
  BY <1>1, <1>2, <1>3, LastNode
<1>5. pc = "done"
  <2>1. ~ \E k \in TopItems : Unbound(k)
    BY <1>1 DEF Unbound
  <2> QED BY <1>1, <1>4, <2>1, EvaluatedAnswers DEF Answered
<1>6. EP!Verdict(Forms, fstack[1].walk) /\ Forms \in Seq(ReplEval!Form)
  BY FormsTyped DEF EP!WInv, Accepted
<1>7. PICK n : n = Len(Forms) /\ EP!ResultOf(Forms, n) /\ ~ EP!EndsInWord(Forms, n)
  BY <1>5, <1>6 DEF EP!Verdict
<1>8. n = count
  BY <1>2, <1>7 DEF Forms
<1>9. Forms[n].kind = "data"
  <2>1. Forms[n] \in ReplEval!Form
    <3>1. n \in Nat /\ n \in 1 .. Len(heap[1].seq)
      BY <1>2, <1>3, <1>8
    <3>2. Forms[n] = FormOf(n)
      BY <3>1 DEF Forms
    <3> QED BY <3>1, <3>2, FormTyped
  <2>2. Forms[n].kind \in {"word", "data"}
    BY <2>1 DEF ReplEval!Form
  <2>3. Forms[n].kind # "word"
    BY <1>3, <1>7, <1>8 DEF EP!EndsInWord
  <2> QED BY <2>2, <2>3
<1>10. result = [type |-> "data", id |-> Forms[n].id]
  BY <1>3, <1>7, <1>8, <1>9 DEF EP!ResultOf
<1>11. result.type # ReplEval!Indeterminate.type
  BY <1>10 DEF ReplEval!Indeterminate
<1> QED BY <1>5, <1>11

----------------------------------------------------------------------------
(* The REPL stops reading at a newline, so there is none in the string; it *)
(* asks for a line after the end of its input only when nothing is left.   *)
(* A file has been read before anything else, and then read whole.         *)
Reading ==
    /\ mode = "repl" => \A k \in 1 .. Len(buf) : buf[k] # "n"
    /\ at_eof => mode = "repl" /\ stdin = <<>> /\ ending = "eof"
    /\ mode = "file" /\ stage = "read" => buf = <<>>
    /\ mode = "file" /\ stage \notin {"read", "exit", "abort"} => ending = "eof"

LEMMA ReadingStep == ASSUME Input, Reading, Next \/ UNCHANGED vars PROVE Reading'
<1>n. \A k \in 1 .. Len(<<>>) : FALSE
  OBVIOUS
<1>1. CASE ReadCharacter
  <2>1. /\ stage = "read" /\ mode = "repl" /\ stdin # <<>> /\ Head(stdin) # "n"
        /\ buf' = Append(buf, Head(stdin))
        /\ UNCHANGED <<mode, ending, at_eof, stage>>
    BY <1>1 DEF ReadCharacter, Typed
  <2>2. \A k \in 1 .. Len(buf') : buf'[k] # "n"
    <3>1. PICK n \in Nat : n = Len(buf)
      BY DEF Input
    <3>2. Head(stdin) \in Character
      BY <2>1 DEF Input
    <3>3. Len(buf') = n + 1 /\ buf'[n + 1] = Head(stdin) /\ \A k \in 1 .. n : buf'[k] = buf[k]
      BY <2>1, <3>1, <3>2 DEF Input
    <3>4. \A k \in 1 .. n : buf[k] # "n"
      BY <2>1, <3>1 DEF Reading
    <3>5. \A k \in 1 .. n + 1 : k \in 1 .. n \/ k = n + 1
      OBVIOUS
    <3> QED BY <2>1, <3>3, <3>4, <3>5
  <2>3. ~ at_eof
    BY <2>1 DEF Reading
  <2> QED BY <2>1, <2>2, <2>3 DEF Reading
<1>2. CASE ReadLine
  <2>1. /\ mode = "repl" /\ stdin # <<>> /\ stage' = "tokenize"
        /\ UNCHANGED <<mode, ending, at_eof, buf>>
    BY <1>2 DEF ReadLine, Typed, StartTokenize
  <2> QED BY <2>1 DEF Reading
<1>3. CASE ReadEnd
  <2>1. /\ mode = "repl" /\ stdin = <<>> /\ ending = "eof" /\ stage' = "tokenize"
        /\ UNCHANGED <<mode, ending, stdin, buf>>
    BY <1>3 DEF ReadEnd, StartTokenize
  <2> QED BY <2>1 DEF Reading
<1>4. CASE ReadFile
  <2>1. /\ mode = "file" /\ ending = "eof" /\ stage' = "tokenize"
        /\ UNCHANGED <<mode, ending, at_eof>>
    BY <1>4 DEF ReadFile, StartTokenize
  <2> QED BY <2>1 DEF Reading
<1>5. CASE Report \/ PrintValue
  <2>1. /\ buf' \in {buf, <<>>}
        /\ mode = "file" => stage' = "exit"
        /\ UNCHANGED <<mode, ending, stdin, at_eof>>
    BY <1>5 DEF Report, PrintValue
  <2>2. mode' = "repl" => \A k \in 1 .. Len(buf') : buf'[k] # "n"
    BY <1>n, <2>1 DEF Reading
  <2> QED BY <1>5, <2>1, <2>2 DEF Reading, Report, PrintValue
<1>6. CASE ~ (ReadCharacter \/ ReadLine \/ ReadEnd \/ ReadFile \/ Report \/ PrintValue)
  <2>1. UNCHANGED <<mode, stdin, buf>>
    BY <1>6, InputKept
  <2>2. /\ UNCHANGED <<at_eof, ending>>
        /\ stage' \in {"exit", "abort"} \/ stage \notin {"read", "exit", "abort"} \/ stage' = stage
        /\ stage' = "read" => stage = "read"
    BY <1>6 DEF Next, vars, drivervars, AbortCharacter, ReadFails, Tokenize, TokenizeFails,
                TokenizeAborts, ToReport, StartParse, Parse, ParseFails, StartEval, Evaluate,
                EvalFails, EvalPanics, EvalReturns, EvalReturnsGarbage, Ended
  <2> QED BY <2>1, <2>2 DEF Reading
<1> QED BY <1>1, <1>2, <1>3, <1>4, <1>5, <1>6

(* From the last stage of a line on, the answer is one that the line has.  *)
Replies ==
    /\ stage = "print" => "value" \in Answers(buf)
    /\ stage = "report" => "error" \in Answers(buf)

LEMMA AnyAnswer ==
    ASSUME NEW line, Lexes(line), ~ IsData(line), NEW a \in {"value", "error", "panic"}
    PROVE  a \in Answers(line)
BY DEF Answers

LEMMA DataAnswer == ASSUME NEW line, Lexes(line), IsData(line) PROVE "value" \in Answers(line)
BY DEF Answers

LEMMA ErrorAnswer == ASSUME NEW line, ~ Lexes(line) PROVE "error" \in Answers(line)
BY DEF Answers

LEMMA PanicAnswer ==
    ASSUME NEW line, ~ Lexes(line), \E k \in 1 .. Len(line) : line[k] = "hi"
    PROVE  "panic" \in Answers(line)
BY DEF Answers

(* eval_ast() returns a value for data, and whatever it returns is one of  *)
(* the answers that other lines have.                                      *)
LEMMA EvaluatedReplies ==
    ASSUME Input, Lines, Trees, Evals, stage = "eval", pc \in {"done", "error", "panic"}
    PROVE  /\ "value" \in Answers(buf)
           /\ ~ (pc = "done" /\ result # ReplEval!Indeterminate) =>
                 {"error", "panic"} \subseteq Answers(buf)
<1>1. Accepted /\ EP!WInv /\ fstack[1].forms = Forms /\ src = Classes(buf) /\ buf \in Seq(Character)
  BY DEF Input, Lines, Trees, Evals, Accepted
<1>2. Lexes(buf)
  BY <1>1, AcceptedLexes DEF Accepted
<1>3. CASE IsData(buf)
  <2>1. pc = "done" /\ result # ReplEval!Indeterminate
    BY <1>1, <1>2, <1>3, DataSourceOfLine, DataAnswered
  <2> QED BY <1>2, <1>3, <2>1, DataAnswer
<1>4. CASE ~ IsData(buf)
  BY <1>2, <1>4, AnyAnswer
<1> QED BY <1>3, <1>4

LEMMA RepliesStep ==
    ASSUME Input, Lines, Trees, Evals, Replies, Next \/ UNCHANGED vars
    PROVE  Replies'
<1>0. ASSUME buf' = buf, stage' = stage PROVE Replies'
  BY <1>0 DEF Replies, Answers, Lexes, Balanced, IsData
<1>1. ASSUME buf' = buf, stage' = "print", "value" \in Answers(buf) PROVE Replies'
  BY <1>1 DEF Replies, Answers, Lexes, Balanced, IsData
<1>2. ASSUME buf' = buf, stage' = "report", "error" \in Answers(buf) PROVE Replies'
  BY <1>2 DEF Replies, Answers, Lexes, Balanced, IsData
<1>3. ASSUME stage' \notin {"print", "report"} PROVE Replies'
  BY <1>3 DEF Replies
<1>4. CASE TokenizeFails
  <2>1. stage = "tokenize" /\ status \in TP!Errors /\ stage' = "report" /\ buf' = buf
    BY <1>4, TokenizerSame DEF TokenizeFails, ToReport
  <2>2. ~ Lexes(buf)
    BY <2>1, RejectedLexes DEF Input, Lines
  <2> QED BY <1>2, <2>1, <2>2, ErrorAnswer
<1>5. CASE ParseFails
  <2>1. stage = "parse" /\ outcome = "error" /\ stage' = "report" /\ buf' = buf
    BY <1>5 DEF ParseFails, ToReport
  <2>2. status = "ok" /\ TokInv /\ src = Classes(buf) /\ buf \in Seq(Character)
    BY <2>1 DEF Trees, Lines, Input
  <2>3. Lexes(buf)
    BY <2>2, AcceptedLexes
  <2>4. pos < Len(tokens) /\ tokens[pos + 1].type = "number" /\ pos + 1 \in 1 .. Len(tokens)
    <3>1. pos \in Nat /\ tokens \in Seq(PP!Token)
      BY <2>1 DEF Trees, ParInv, PP!PInv
    <3>2. pos < Len(tokens) /\ tokens[pos + 1].type = "number"
      BY <2>1 DEF Trees, ParInv, Rejected
    <3> QED BY <3>1, <3>2
  <2>5. ~ IsData(buf)
    <3>1. ASSUME IsData(buf) PROVE FALSE
      <4>1. DataSource
        BY <2>2, <2>3, <3>1, DataSourceOfLine
      <4>2. \A k \in 1 .. Len(tokens) : tokens[k].type # "number"
        BY <2>2, <4>1, DataTokens
      <4> QED BY <2>4, <4>2
    <3> QED BY <3>1
  <2>6. "error" \in Answers(buf)
    BY <2>3, <2>5, AnyAnswer
  <2> QED BY <1>2, <2>1, <2>6
<1>6. CASE EvalFails
  <2>1. stage = "eval" /\ pc = "error" /\ stage' = "report" /\ buf' = buf
    BY <1>6 DEF EvalFails, ToReport
  <2>2. "error" \in Answers(buf)
    BY <2>1, EvaluatedReplies
  <2> QED BY <1>2, <2>1, <2>2
<1>7. CASE EvalReturns
  <2>1. stage = "eval" /\ pc = "done" /\ stage' = "print" /\ buf' = buf
    BY <1>7 DEF EvalReturns
  <2>2. "value" \in Answers(buf)
    BY <2>1, EvaluatedReplies
  <2> QED BY <1>1, <2>1, <2>2
<1>8. CASE EvalReturnsGarbage
  <2>1. /\ stage = "eval" /\ pc = "done" /\ result = ReplEval!Indeterminate
        /\ stage' \in {"print", "report", "abort"} /\ buf' = buf
    BY <1>8 DEF EvalReturnsGarbage
  <2>2. "value" \in Answers(buf) /\ "error" \in Answers(buf)
    BY <2>1, EvaluatedReplies
  <2> QED BY <1>1, <1>2, <1>3, <2>1, <2>2
<1>9. CASE EvalPanics \/ TokenizeAborts \/ StartParse \/ StartEval
  BY <1>3, <1>9 DEF EvalPanics, TokenizeAborts, StartParse, StartEval
<1>10. CASE Tokenize \/ Parse \/ Evaluate \/ UNCHANGED vars \/ Ended
  BY <1>0, <1>10 DEF Tokenize, Parse, Evaluate, Ended, vars, drivervars
<1>11. CASE ReadCharacter \/ AbortCharacter \/ ReadLine \/ ReadEnd \/ ReadFails \/ ReadFile
  BY <1>3, <1>11 DEF ReadCharacter, AbortCharacter, ReadLine, ReadEnd, ReadFails, ReadFile, Typed,
                     StartTokenize
<1>12. CASE Report \/ PrintValue
  BY <1>3, <1>12 DEF Report, PrintValue
<1> QED BY <1>4, <1>5, <1>6, <1>7, <1>8, <1>9, <1>10, <1>11, <1>12 DEF Next

----------------------------------------------------------------------------
(* What the user sees of a step: an answer, the end, or nothing.           *)
LEMMA JoinedLine ==
    ASSUME NEW b \in Seq(Character), NEW s \in Seq(Character), \A k \in 1 .. Len(b) : b[k] # "n",
           NEW u, u = b \o <<"n">> \o s,
           NEW newlines, newlines = {k \in 1 .. Len(u) : u[k] = "n"}
    PROVE  /\ Len(b) + 1 \in newlines
           /\ \A m \in newlines : m \in Nat /\ Len(b) + 1 <= m
           /\ SubSeq(u, 1, Len(b)) = b
           /\ SubSeq(u, Len(b) + 2, Len(u)) = s
<1>1. PICK n \in Nat, l \in Nat : n = Len(b) /\ l = Len(s)
  OBVIOUS
<1>2. <<"n">> \in Seq(Character) /\ Len(<<"n">>) = 1 /\ <<"n">>[1] = "n"
  BY DEF Character
<1>3. /\ u \in Seq(Character) /\ Len(u) = n + 1 + l
      /\ \A k \in 1 .. n : u[k] = b[k]
      /\ u[n + 1] = "n"
      /\ \A k \in 1 .. l : u[n + 1 + k] = s[k]
  <2> DEFINE c == b \o <<"n">>
  <2>1. /\ c \in Seq(Character) /\ Len(c) = Len(b) + Len(<<"n">>)
        /\ \A k \in 1 .. Len(b) + Len(<<"n">>) :
              c[k] = IF k <= Len(b) THEN b[k] ELSE <<"n">>[k - Len(b)]
    BY <1>2, ConcatProperties
  <2> HIDE DEF c
  <2>2. Len(c) = n + 1 /\ c[n + 1] = "n" /\ \A k \in 1 .. n : c[k] = b[k]
    <3>1. /\ Len(c) = n + 1
          /\ \A k \in 1 .. n + 1 : c[k] = IF k <= n THEN b[k] ELSE <<"n">>[k - n]
      BY <1>1, <1>2, <2>1
    <3>2. n + 1 \in 1 .. n + 1 /\ ~ (n + 1 <= n) /\ (n + 1) - n = 1
      OBVIOUS
    <3>3. c[n + 1] = "n"
      BY <1>2, <3>1, <3>2
    <3>4. \A k \in 1 .. n : k \in 1 .. n + 1 /\ k <= n
      OBVIOUS
    <3> QED BY <3>1, <3>3, <3>4
  <2>3. u = c \o s
    BY DEF c
  <2>4. /\ u \in Seq(Character) /\ Len(u) = Len(c) + Len(s)
        /\ \A k \in 1 .. Len(c) + Len(s) : u[k] = IF k <= Len(c) THEN c[k] ELSE s[k - Len(c)]
    BY <2>1, <2>3, ConcatProperties
  <2>5. \A k \in 1 .. n + 1 + l : u[k] = IF k <= n + 1 THEN c[k] ELSE s[k - (n + 1)]
    BY <1>1, <2>2, <2>4
  <2>6. \A k \in 1 .. n + 1 : u[k] = c[k]
    <3>1. \A k \in 1 .. n + 1 : k \in 1 .. n + 1 + l /\ k <= n + 1
      OBVIOUS
    <3> QED BY <2>5, <3>1
  <2>7. \A k \in 1 .. l : u[n + 1 + k] = s[k]
    <3>1. \A k \in 1 .. l : /\ n + 1 + k \in 1 .. n + 1 + l /\ ~ (n + 1 + k <= n + 1)
                            /\ (n + 1 + k) - (n + 1) = k
      OBVIOUS
    <3> QED BY <2>5, <3>1
  <2>8. n + 1 \in 1 .. n + 1 /\ \A k \in 1 .. n : k \in 1 .. n + 1
    OBVIOUS
  <2>9. \A k \in 1 .. n : u[k] = b[k]
    BY <2>2, <2>6, <2>8
  <2>10. u[n + 1] = "n"
    BY <2>2, <2>6, <2>8
  <2> QED BY <1>1, <2>2, <2>4, <2>7, <2>9, <2>10
<1>4. n + 1 \in newlines /\ \A m \in newlines : m \in Nat /\ n + 1 <= m
  <2>1. n + 1 \in 1 .. Len(u)
    BY <1>3
  <2>2. ASSUME NEW m \in newlines PROVE m \in Nat /\ n + 1 <= m
    <3>1. m \in 1 .. n + 1 + l /\ u[m] = "n"
      BY <1>3
    <3>2. m \notin 1 .. n
      BY <1>1, <1>3, <3>1
    <3> QED BY <3>1, <3>2
  <2> QED BY <1>3, <2>1, <2>2
<1>6. SubSeq(u, 1, n) = b
  <2>1. /\ SubSeq(u, 1, n) \in Seq(Character) /\ Len(SubSeq(u, 1, n)) = n
        /\ \A k \in 1 .. n : SubSeq(u, 1, n)[k] = u[k]
    BY <1>3, PrefixFacts
  <2> QED BY <1>1, <1>3, <2>1, SeqEqual
<1>7. SubSeq(u, n + 2, n + 1 + l) = s
  <2>1. PICK rest : rest = SubSeq(u, n + 2, n + 1 + l)
    OBVIOUS
  <2>2. rest \in Seq(Character) /\ Len(rest) = l /\ \A k \in 1 .. l : rest[k] = u[n + 1 + k]
    <3>1. n \in Nat /\ l \in Nat /\ u \in Seq(Character) /\ Len(u) = n + 1 + l
      BY <1>1, <1>3
    <3>2. /\ SubSeq(u, n + 2, n + 1 + l) \in Seq(Character)
          /\ Len(SubSeq(u, n + 2, n + 1 + l)) = l
          /\ \A k \in 1 .. l : SubSeq(u, n + 2, n + 1 + l)[k] = u[n + 1 + k]
      BY <3>1, SuffixFacts
    <3> QED BY <2>1, <3>2
  <2>3. \A k \in 1 .. l : rest[k] = s[k]
    BY <1>3, <2>2
  <2>4. rest = s
    BY <1>1, <2>2, <2>3, SeqEqual
  <2> QED BY <2>1, <2>4
<1> QED BY <1>1, <1>3, <1>4, <1>6, <1>7

(* The line that the stages work on is the next one to be answered.        *)
LEMMA CurrentLine ==
    ASSUME Input, Reading, stage \notin {"read", "exit", "abort"}
    PROVE  IF mode = "file" \/ at_eof
           THEN Unread = buf /\ Session!Newlines = {} /\ ending = "eof"
           ELSE /\ Session!Newlines # {}
                /\ SubSeq(Unread, 1, Session!FirstNewline - 1) = buf
                /\ SubSeq(Unread, Session!FirstNewline + 1, Len(Unread)) = stdin
<1>1. CASE mode = "file" \/ at_eof
  <2>1. Unread = buf
    BY <1>1 DEF Unread
  <2>2. ending = "eof"
    BY <1>1 DEF Reading, Input
  <2>3. Session!Newlines = {}
    BY <2>1, <1>1 DEF Session!Newlines, Reading, Input
  <2> QED BY <1>1, <2>1, <2>2, <2>3
<1>2. CASE ~ (mode = "file" \/ at_eof)
  <2>1. Unread = buf \o <<"n">> \o stdin /\ mode = "repl"
    BY <1>2 DEF Unread, Input
  <2>2. Session!Newlines = {k \in 1 .. Len(Unread) : Unread[k] = "n"}
    BY <2>1 DEF Session!Newlines
  <2>3. buf \in Seq(Character) /\ stdin \in Seq(Character) /\ \A k \in 1 .. Len(buf) : buf[k] # "n"
    BY <2>1 DEF Input, Reading
  <2> DEFINE u == Unread
             newlines == Session!Newlines
  <2> HIDE DEF u, newlines
  <2>4. /\ Len(buf) + 1 \in newlines
        /\ \A m \in newlines : m \in Nat /\ Len(buf) + 1 <= m
        /\ SubSeq(u, 1, Len(buf)) = buf
        /\ SubSeq(u, Len(buf) + 2, Len(u)) = stdin
    <3>1. u = buf \o <<"n">> \o stdin /\ newlines = {k \in 1 .. Len(u) : u[k] = "n"}
      BY <2>1, <2>2 DEF u, newlines
    <3> QED BY <2>3, <3>1, JoinedLine
  <2>5. PICK n \in Nat : n = Len(buf)
    BY <2>3
  <2>6. PICK first : /\ first = Session!FirstNewline
                     /\ first \in newlines /\ \A m \in newlines : first <= m
    <3>1. \E k \in newlines : \A m \in newlines : k <= m
      BY <2>4
    <3>2. /\ Session!FirstNewline \in newlines
          /\ \A m \in newlines : Session!FirstNewline <= m
      BY <3>1 DEF Session!FirstNewline, newlines
    <3> QED BY <3>2
  <2>7. first = n + 1
    <3>1. first <= n + 1 /\ n + 1 <= first /\ first \in Nat
      BY <2>4, <2>5, <2>6
    <3> QED BY <3>1
  <2>8. first - 1 = n /\ first + 1 = n + 2
    BY <2>7
  <2>9. /\ Session!Newlines # {}
        /\ SubSeq(Unread, 1, Session!FirstNewline - 1) = buf
        /\ SubSeq(Unread, Session!FirstNewline + 1, Len(Unread)) = stdin
    BY <2>4, <2>5, <2>6, <2>8 DEF u, newlines
  <2> QED BY <1>2, <2>9
<1> QED BY <1>1, <1>2

LEMMA OpenNow ==
    /\ stage = "exit" => Open = "closed"
    /\ stage = "abort" => Open = "dead"
    /\ stage \notin {"exit", "abort"} => Open = "open"
BY DEF Open

LEMMA OpenNext ==
    /\ stage' = "exit" => Open' = "closed"
    /\ stage' = "abort" => Open' = "dead"
    /\ stage' \notin {"exit", "abort"} => Open' = "open"
BY DEF Open

LEMMA UnreadNext ==
    /\ stage' \in {"exit", "abort"} => Unread' = <<>>
    /\ stage' = "read" => Unread' = buf' \o stdin'
    /\ stage' \notin {"read", "exit", "abort"} /\ (mode' = "file" \/ at_eof') => Unread' = buf'
    /\ stage' \notin {"read", "exit", "abort"} /\ ~ (mode' = "file" \/ at_eof') =>
          Unread' = buf' \o <<"n">> \o stdin'
BY DEF Unread

LEMMA AnswerSeen ==
    ASSUME Input, Reading, stage \notin {"read", "exit", "abort"},
           NEW o \in {"value", "error", "panic"}, o \in Answers(buf),
           last' = [line |-> buf, outcome |-> o],
           UNCHANGED <<mode, ending, stdin, at_eof>>,
           o = "panic" => stage' = "abort",
           o # "panic" /\ mode = "file" => stage' = "exit",
           o # "panic" /\ mode = "repl" =>
              buf' = <<>> /\ stage' = IF o = "value" /\ at_eof THEN "exit" ELSE "read"
    PROVE  Session!AnswerLine \/ Session!AnswerRest
<1>1. Open = "open"
  BY OpenNow
<1>2. stdin \in Seq(Character) /\ <<>> \o stdin = stdin /\ <<>> \o <<>> = <<>>
  <2>1. stdin \in Seq(Character)
    BY DEF Input
  <2> QED BY <2>1, ConcatEmptySeq
<1>3. CASE mode = "file" \/ at_eof
  <2>1. Unread = buf /\ Session!Newlines = {} /\ ending = "eof"
    BY <1>3, CurrentLine
  <2>2. Session!Answer(Unread, o)
    BY <2>1 DEF Session!Answer
  <2>3. stage' = IF o = "panic" THEN "abort" ELSE IF o = "error" /\ mode = "repl" THEN "read" ELSE "exit"
    BY <1>3 DEF Input, Reading
  <2>4. Open' = IF o = "panic" THEN "dead" ELSE IF o = "error" /\ mode = "repl" THEN "open" ELSE "closed"
    BY <2>3, OpenNext
  <2>5. Open' = CASE o = "panic" -> "dead"
                  [] o = "error" /\ mode = "repl" -> "open"
                  [] OTHER -> "closed"
    BY <2>4
  <2>6. Unread' = <<>>
    <3>1. CASE o = "error" /\ mode = "repl"
      <4>1. stage' = "read" /\ buf' = <<>> /\ stdin' = <<>>
        BY <1>3, <2>3, <3>1 DEF Reading
      <4> QED BY <1>2, <4>1, UnreadNext
    <3>2. CASE ~ (o = "error" /\ mode = "repl")
      BY <2>3, <3>2, UnreadNext
    <3> QED BY <3>1, <3>2
  <2> QED BY <1>1, <2>1, <2>2, <2>5, <2>6 DEF Session!AnswerRest
<1>4. CASE ~ (mode = "file" \/ at_eof)
  <2>1. /\ Session!Newlines # {}
        /\ SubSeq(Unread, 1, Session!FirstNewline - 1) = buf
        /\ SubSeq(Unread, Session!FirstNewline + 1, Len(Unread)) = stdin
    BY <1>4, CurrentLine
  <2>2. Session!Answer(SubSeq(Unread, 1, Session!FirstNewline - 1), o)
    BY <2>1 DEF Session!Answer
  <2>3. mode = "repl" /\ stage' = IF o = "panic" THEN "abort" ELSE "read"
    BY <1>4 DEF Input
  <2>4. Open' = IF o = "panic" THEN "dead" ELSE "open"
    BY <2>3, OpenNext
  <2>5. Unread' = IF Open' = "open" THEN stdin ELSE <<>>
    <3>1. CASE o = "panic"
      BY <2>3, <2>4, <3>1, UnreadNext
    <3>2. CASE o # "panic"
      <4>1. stage' = "read" /\ buf' = <<>> /\ stdin' = stdin /\ Open' = "open"
        BY <2>3, <2>4, <3>2
      <4> QED BY <1>2, <4>1, UnreadNext
    <3> QED BY <3>1, <3>2
  <2> QED BY <1>1, <2>1, <2>2, <2>4, <2>5 DEF Session!AnswerLine
<1> QED BY <1>3, <1>4

(* Between two stages of a line there is nothing to see.                   *)
LEMMA NothingSeen ==
    ASSUME stage \notin {"read", "exit", "abort"}, stage' \notin {"read", "exit", "abort"},
           UNCHANGED <<mode, ending, stdin, at_eof, buf, last>>
    PROVE  UNCHANGED Session!vars
<1>1. Open = "open" /\ Open' = "open"
  BY OpenNow, OpenNext
<1>2. Unread' = Unread
  BY DEF Unread
<1> QED BY <1>1, <1>2 DEF Session!vars

LEMMA JoinCharacter ==
    ASSUME NEW b \in Seq(Character), NEW s \in Seq(Character), s # <<>>
    PROVE  /\ b \o s = Append(b, Head(s)) \o Tail(s)
           /\ b \o s = b \o <<Head(s)>> \o Tail(s)
<1>1. Head(s) \in Character /\ Tail(s) \in Seq(Character) /\ <<Head(s)>> \in Seq(Character)
  OBVIOUS
<1>2. s = <<Head(s)>> \o Tail(s)
  BY <1>1, HeadTailProperties
<1>3. b \o (<<Head(s)>> \o Tail(s)) = (b \o <<Head(s)>>) \o Tail(s)
  BY <1>1, ConcatAssociative
<1>4. Append(b, Head(s)) = b \o <<Head(s)>>
  BY <1>1, AppendIsConcat
<1> QED BY <1>2, <1>3, <1>4

LEMMA ReadingSeen ==
    ASSUME Input, Reading,
           ReadCharacter \/ AbortCharacter \/ ReadLine \/ ReadEnd \/ ReadFails \/ ReadFile
    PROVE  Session!Next \/ UNCHANGED Session!vars
<1>0. stage = "read" /\ Open = "open" /\ Unread = buf \o stdin
  BY OpenNow DEF Unread, ReadCharacter, AbortCharacter, ReadLine, ReadEnd, ReadFails, ReadFile, Typed
<1>t. buf \in Seq(Character) /\ stdin \in Seq(Character) /\ <<>> \in Seq(Character)
  BY DEF Input
<1>1. CASE ReadCharacter
  <2>1. /\ stdin # <<>> /\ buf' = Append(buf, Head(stdin)) /\ stdin' = Tail(stdin)
        /\ UNCHANGED <<mode, ending, stage, last>>
    BY <1>1 DEF ReadCharacter, Typed
  <2>2. Unread' = Unread
    BY <1>0, <1>t, <2>1, JoinCharacter, UnreadNext
  <2>3. Open' = Open
    BY <1>0, <2>1, OpenNext
  <2> QED BY <2>1, <2>2, <2>3 DEF Session!vars
<1>2. CASE ReadLine
  <2>1. /\ mode = "repl" /\ stdin # <<>> /\ Head(stdin) = "n" /\ stdin' = Tail(stdin)
        /\ stage' = "tokenize"
        /\ UNCHANGED <<mode, ending, at_eof, buf, last>>
    BY <1>2 DEF ReadLine, Typed, StartTokenize
  <2>2. ~ at_eof
    BY <2>1 DEF Reading
  <2>3. Unread' = buf \o <<"n">> \o Tail(stdin)
    BY <2>1, <2>2, UnreadNext
  <2>4. Unread' = Unread
    BY <1>0, <1>t, <2>1, <2>3, JoinCharacter
  <2>5. Open' = Open
    BY <1>0, <2>1, OpenNext
  <2> QED BY <2>1, <2>4, <2>5 DEF Session!vars
<1>3. CASE ReadEnd
  <2>1. /\ mode = "repl" /\ stdin = <<>> /\ at_eof' = TRUE /\ stage' = "tokenize"
        /\ UNCHANGED <<mode, ending, buf, last>>
    BY <1>3 DEF ReadEnd, StartTokenize
  <2>2. Unread' = buf /\ Open' = Open
    BY <1>0, <2>1, UnreadNext, OpenNext
  <2>3. Unread = buf
    BY <1>0, <1>t, <2>1, ConcatEmptySeq
  <2> QED BY <2>1, <2>2, <2>3 DEF Session!vars
<1>4. CASE ReadFile
  <2>1. /\ mode = "file" /\ buf' = stdin /\ stage' = "tokenize"
        /\ UNCHANGED <<mode, ending, last>>
    BY <1>4 DEF ReadFile, StartTokenize
  <2>2. buf = <<>>
    BY <1>0, <2>1 DEF Reading
  <2>3. Unread' = stdin /\ Open' = Open
    BY <1>0, <2>1, UnreadNext, OpenNext
  <2>4. Unread = stdin
    BY <1>0, <1>t, <2>2, ConcatEmptySeq
  <2> QED BY <2>1, <2>3, <2>4 DEF Session!vars
<1>5. CASE ReadFails
  <2>1. /\ mode = "file" \/ stdin = <<>>
        /\ ending # "eof"
        /\ stage' = IF mode = "repl" /\ ending = "interrupt" THEN "exit" ELSE "abort"
        /\ UNCHANGED <<mode, ending, last>>
    BY <1>5 DEF ReadFails
  <2>2. Unread' = <<>>
    BY <2>1, UnreadNext
  <2>3. Open' = IF mode = "repl" /\ ending = "interrupt" THEN "closed" ELSE "dead"
    BY <2>1, OpenNext
  <2>4. Session!Newlines = {}
    <3>1. CASE mode = "repl"
      <4>1. Unread = buf
        BY <1>0, <1>t, <2>1, <3>1, ConcatEmptySeq
      <4> QED BY <3>1, <4>1 DEF Session!Newlines, Reading
    <3>2. CASE mode = "file"
      BY <3>2 DEF Session!Newlines
    <3> QED BY <3>1, <3>2 DEF Input
  <2>5. Session!BreakOff
    BY <1>0, <2>1, <2>2, <2>3, <2>4 DEF Session!BreakOff
  <2> QED BY <2>5 DEF Session!Next
<1>6. CASE AbortCharacter
  <2>1. /\ mode = "repl" /\ stdin # <<>> /\ Head(stdin) = "hi" /\ stage' = "abort"
        /\ UNCHANGED <<mode, ending, last>>
    BY <1>6 DEF AbortCharacter, Typed, T!Passes
  <2>2. Unread' = <<>> /\ Open' = "dead"
    BY <2>1, UnreadNext, OpenNext
  <2>3. PICK n \in Nat, l \in Nat : n = Len(buf) /\ l = Len(stdin)
    BY <1>t
  <2>4. l > 0 /\ stdin[1] = "hi"
    BY <1>t, <2>1, <2>3
  <2>5. Len(Unread) = n + l /\ \A k \in 1 .. n + l : Unread[k] = IF k <= n THEN buf[k] ELSE stdin[k - n]
    BY <1>0, <1>t, <2>3, ConcatProperties
  <2>6. n + 1 \in 1 .. n + l /\ ~ (n + 1 <= n) /\ (n + 1) - n = 1
    BY <2>3, <2>4
  <2>7. Unread[n + 1] = "hi"
    BY <2>4, <2>5, <2>6
  <2>8. ASSUME NEW m \in 1 .. (n + 1) - 1 PROVE Unread[m] # "n"
    <3>1. m \in 1 .. n /\ m \in 1 .. n + l /\ m <= n
      BY <2>4
    <3>2. buf[m] # "n"
      BY <2>1, <2>3, <3>1 DEF Reading
    <3> QED BY <2>5, <3>1, <3>2
  <2>9. \E k \in 1 .. Len(Unread) : Unread[k] = "hi" /\ \A m \in 1 .. k - 1 : Unread[m] # "n"
    BY <2>5, <2>6, <2>7, <2>8
  <2>10. Session!AbortTyping
    BY <1>0, <2>1, <2>2, <2>9 DEF Session!AbortTyping
  <2> QED BY <2>10 DEF Session!Next
<1> QED BY <1>1, <1>2, <1>3, <1>4, <1>5, <1>6

(* Every way a line ends is an answer to it.                               *)
LEMMA AnswersSeen ==
    ASSUME Input, Lines, Trees, Evals, Reading, Replies,
           \/ Report \/ PrintValue \/ EvalPanics \/ TokenizeAborts
           \/ EvalReturnsGarbage /\ stage' = "abort"
    PROVE  Session!Next
<1>1. CASE Report
  <2>1. /\ stage = "report" /\ "error" \in Answers(buf)
        /\ last' = [line |-> buf, outcome |-> "error"]
        /\ UNCHANGED <<mode, ending, stdin, at_eof>>
        /\ mode = "file" => stage' = "exit"
        /\ mode = "repl" => stage' = "read" /\ buf' = <<>>
    BY <1>1 DEF Report, Replies
  <2> QED BY <2>1, AnswerSeen DEF Session!Next
<1>2. CASE PrintValue
  <2>1. /\ stage = "print" /\ "value" \in Answers(buf)
        /\ last' = [line |-> buf, outcome |-> "value"]
        /\ UNCHANGED <<mode, ending, stdin, at_eof>>
        /\ stage' = IF mode = "file" \/ at_eof THEN "exit" ELSE "read"
        /\ buf' = <<>>
    BY <1>2 DEF PrintValue, Replies
  <2>2. /\ mode = "file" => stage' = "exit"
        /\ mode = "repl" => stage' = IF "value" = "value" /\ at_eof THEN "exit" ELSE "read"
    BY <2>1
  <2> QED BY <2>1, <2>2, AnswerSeen DEF Session!Next
<1>3. ASSUME stage \in {"tokenize", "eval"}, "panic" \in Answers(buf),
             last' = [line |-> buf, outcome |-> "panic"],
             UNCHANGED <<mode, ending, stdin, at_eof>>,
             stage' = "abort"
      PROVE  Session!Next
  BY <1>3, AnswerSeen DEF Session!Next
<1>4. CASE TokenizeAborts
  <2>1. ~ Lexes(buf) /\ \E k \in 1 .. Len(buf) : buf[k] = "hi"
    <3>1. /\ stage = "tokenize" /\ status \in TP!Errors \cup {"abort"} /\ status = "abort"
      BY <1>4 DEF TokenizeAborts
    <3> QED BY <3>1, RejectedLexes DEF Input, Lines
  <2>2. "panic" \in Answers(buf)
    BY <2>1, PanicAnswer
  <2> QED BY <1>3, <1>4, <2>2 DEF TokenizeAborts
<1>5. CASE EvalPanics
  <2>1. stage = "eval" /\ pc = "panic"
    BY <1>5 DEF EvalPanics
  <2>2. "panic" \in Answers(buf)
    BY <2>1, EvaluatedReplies
  <2> QED BY <1>3, <1>5, <2>1, <2>2 DEF EvalPanics
<1>6. CASE EvalReturnsGarbage /\ stage' = "abort"
  <2>1. /\ stage = "eval" /\ pc = "done" /\ result = ReplEval!Indeterminate
        /\ last' = [line |-> buf, outcome |-> "panic"]
        /\ UNCHANGED <<mode, ending, stdin, at_eof>>
    BY <1>6 DEF EvalReturnsGarbage
  <2>2. "panic" \in Answers(buf)
    BY <2>1, EvaluatedReplies
  <2> QED BY <1>3, <1>6, <2>1, <2>2
<1> QED BY <1>1, <1>2, <1>4, <1>5, <1>6

LEMMA SessionStep ==
    ASSUME Input, Lines, Trees, Evals, Reading, Replies, Next \/ UNCHANGED vars
    PROVE  Session!Next \/ UNCHANGED Session!vars
<1>1. CASE ReadCharacter \/ AbortCharacter \/ ReadLine \/ ReadEnd \/ ReadFails \/ ReadFile
  BY <1>1, ReadingSeen
<1>2. CASE \/ Report \/ PrintValue \/ EvalPanics \/ TokenizeAborts
           \/ EvalReturnsGarbage /\ stage' = "abort"
  BY <1>2, AnswersSeen
<1>3. CASE Ended \/ UNCHANGED vars
  <2>1. UNCHANGED <<mode, ending, stdin, at_eof, buf, last, stage>>
    BY <1>3 DEF Ended, vars, drivervars
  <2> QED BY <2>1 DEF Session!vars, Unread, Open
<1>4. CASE \/ Tokenize \/ TokenizeFails \/ StartParse \/ Parse \/ ParseFails
           \/ StartEval \/ Evaluate \/ EvalFails \/ EvalReturns
           \/ EvalReturnsGarbage /\ stage' # "abort"
  <2>1. /\ stage \in {"tokenize", "parse", "eval"}
        /\ stage' \in {"tokenize", "parse", "eval", "print", "report"}
        /\ UNCHANGED <<mode, ending, stdin, at_eof, buf, last>>
    BY <1>4 DEF Tokenize, TokenizeFails, StartParse, Parse, ParseFails, StartEval, Evaluate,
                EvalFails, EvalReturns, EvalReturnsGarbage, ToReport, drivervars
  <2> QED BY <2>1, NothingSeen
<1> QED BY <1>1, <1>2, <1>3, <1>4 DEF Next

----------------------------------------------------------------------------
(* The invariant of main().                                                *)
DriverInv ==
    Input /\ Lines /\ Trees /\ Allocated /\ Evals /\ Reading /\ Replies /\ ErrorsInOneLine

LEMMA DriverInit == Init => DriverInv
<1> SUFFICES ASSUME Init PROVE DriverInv
  OBVIOUS
<1>1. PICK input \in Inputs :
         /\ mode = input.mode /\ stdin = input.text
         /\ owned = IF input.mode = "repl" THEN {"input"} ELSE {}
         /\ live = IF input.mode = "repl" THEN {ReplEval!Bindings(1)} ELSE {}
  BY DEF Init
<1>2. Input
  <2>1. mode \in {"repl", "file"} /\ stdin \in Seq(Character) /\ Len(stdin) <= SIZE_MAX
    BY <1>1, InputsAssumption
  <2>2. buf = <<>> /\ Len(buf) = 0 /\ Len(stdin) \in Nat
    BY <2>1 DEF Init
  <2> QED BY <2>1, <2>2 DEF Input
<1>3. Lines
  <2>1. TP!Init
    BY TokenizerSame DEF Init, TP!Init, NoError
  <2> QED BY <2>1, TokInvInit DEF Init, Lines
<1>4. Trees
  BY DEF Init, Trees
<1>5. Allocated
  <2>1. freed = 1 .. Len(heap)
    BY DEF Init
  <2> QED BY <1>1, <2>1 DEF Init, Allocated
<1>6. ErrorsInOneLine
  BY DEF Init, ErrorsInOneLine
<1>7. Evals
  BY <1>1 DEF Init, Evals
<1>8. Reading
  BY <1>1 DEF Init, Reading
<1>9. Replies
  BY DEF Init, Replies
<1> QED BY <1>2, <1>3, <1>4, <1>5, <1>6, <1>7, <1>8, <1>9 DEF DriverInv

(* Every call of a stage starts in a state that the stage's own proof is   *)
(* about, so what is proved of it holds for every line of a session: the   *)
(* invariant of main() is made of the invariants of its stages.            *)
THEOREM DriverInvariant == Spec => []DriverInv
<1>1. DriverInv /\ [Next]_vars => DriverInv'
  BY InputStep, LinesStep, TreesStep, AllocatedStep, EvalsStep, ReadingStep, RepliesStep,
     ErrorsStep DEF DriverInv
<1> QED BY <1>1, DriverInit, PTL DEF Spec

(* At every prompt nothing is allocated but the string of the REPL and the *)
(* root bindings, however the line before ended: repl() frees the tokens,  *)
(* the tree and what eval_ast() has left exactly when there are any.       *)
THEOREM PromptProved == Spec => []PromptClean
<1>1. DriverInv => PromptClean
  BY DEF DriverInv, Allocated, PromptClean
<1> QED BY <1>1, DriverInvariant, PTL

(* Whatever stage an error comes from, its place is inside the text that   *)
(* was read and in one line of it, as report_err() requires.               *)
THEOREM ErrorsProved == Spec => []ErrorsInOneLine
<1>1. DriverInv => ErrorsInOneLine
  BY DEF DriverInv
<1> QED BY <1>1, DriverInvariant, PTL

(* A line that tokenize() and parse_tokens() accept is answered as its     *)
(* items call for, whatever lines came before it: an error if a word that  *)
(* eval_ast() looks up has no binding, a panic if the line ends in an      *)
(* operative, and a value otherwise.                                       *)
THEOREM AnswersProved == Spec => []AnswerCorrect
<1>1. DriverInv => AnswerCorrect
  BY DEF DriverInv, Evals, Answered, AnswerCorrect, Evaluated
<1> QED BY <1>1, DriverInvariant, PTL

(* main() implements Session: each line of the input is answered once, in  *)
(* order, with an answer that its own characters allow, whichever stage it *)
(* ends in and whatever came before it, and the session ends as the input  *)
(* does.                                                                   *)
THEOREM SessionImplemented == Spec => ImplementsSession
<1>1. Init => Session!Init
  <2>1. Init => stage = "read" /\ last = Unanswered
    BY DEF Init
  <2>2. stage = "read" => Open = "open"
    BY OpenNow
  <2> QED BY <2>1, <2>2 DEF Session!Init, Session!Unanswered, Unanswered
<1>2. DriverInv /\ [Next]_vars => [Session!Next]_(Session!vars)
  BY SessionStep DEF DriverInv
<1> QED BY <1>1, <1>2, DriverInvariant, PTL DEF Spec, ImplementsSession, Session!Spec

-----------------------------------------------------------------------------
(* What printval() writes: texts of brackets, blanks and slices, and what  *)
(* the first n of them add up to.                                          *)
Sign == [mark : {"[", "]", " ", "slice"}, begin : Nat, size : Nat]
Texts(s, n) == \A k \in 1 .. n : s[k] \in Seq(Sign)
Sums(g, s, n) ==
    /\ g[0] = <<>>
    /\ \A k \in 0 .. n : g[k] \in Seq(Sign)
    /\ \A k \in 1 .. n : g[k] = g[k - 1] \o s[k]

(* FlattenSeq is what its recursive function says *)
(* it is: it accumulates what the sequences in s add.                      *)
LEMMA FlattenIs ==
    ASSUME NEW n \in Nat, NEW s, Len(s) = n, n = 0 => s = <<>>, Texts(s, n),
           NEW g, Sums(g, s, n)
    PROVE  FlattenSeq(s) = g[n]
<1>t. /\ \A k \in 1 .. n : s[k] \in Seq(Sign)
      /\ g[0] = <<>> /\ \A k \in 1 .. n : g[k] = g[k - 1] \o s[k]
  BY DEF Texts, Sums
<1>1. CASE n = 0
  <2>1. s = g[n] /\ Len(s) = 0
    BY <1>t, <1>1
  <2> QED BY <2>1 DEF FlattenSeq
<1>2. CASE n # 0
  <2> DEFINE F(f) == [k \in 1 .. Len(s) |-> IF k = 1 THEN s[k] ELSE f[k - 1] \o s[k]]
             w == [k \in 1 .. Len(s) |-> g[k]]
             flatten == CHOOSE f : f = F(f)
  <2>1. FlattenSeq(s) = flatten[Len(s)]
    BY <1>2 DEF FlattenSeq
  <2>2. w = F(w)
    <3>1. ASSUME NEW k \in 1 .. Len(s)
          PROVE  g[k] = IF k = 1 THEN s[k] ELSE w[k - 1] \o s[k]
      <4>1. CASE k = 1
        <5>1. g[k] = g[k - 1] \o s[k] /\ k - 1 = 0 /\ s[k] \in Seq(Sign)
          BY <1>t, <4>1
        <5>2. g[k] = <<>> \o s[k]
          BY <1>t, <5>1
        <5> QED BY <4>1, <5>1, <5>2, ConcatEmptySeq
      <4>2. CASE k # 1
        <5>1. k - 1 \in 1 .. Len(s)
          BY <4>2
        <5>2. w[k - 1] = g[k - 1]
          BY <5>1
        <5> QED BY <1>t, <4>2, <5>2
      <4> QED BY <4>1, <4>2
    <3> QED BY <3>1
  <2>3. flatten = F(flatten)
    <3> HIDE DEF w, F
    <3> QED BY <2>2
  <2> HIDE DEF flatten
  <2> DEFINE D == {k \in Nat : k \in 1 .. n /\ flatten[k] # g[k]}
  <2>4. ASSUME D # {} PROVE FALSE
    <3>1. PICK k \in D : \A m \in D : k <= m
      <4> HIDE DEF D
      <4> QED BY <2>4, TokenizerAssumptions, TP!NatLeast DEF D
    <3>2. k \in Nat /\ k \in 1 .. Len(s) /\ flatten[k] # g[k]
      OBVIOUS
    <3>3. flatten[k] = IF k = 1 THEN s[k] ELSE flatten[k - 1] \o s[k]
      BY <2>3, <3>2
    <3>4. k = 1 => g[k] = s[k]
      <4> SUFFICES ASSUME k = 1 PROVE g[k] = s[k]
        OBVIOUS
      <4>1. g[k] = g[k - 1] \o s[k] /\ k - 1 = 0 /\ s[k] \in Seq(Sign)
        BY <1>t, <3>2
      <4>2. g[k] = <<>> \o s[k]
        BY <1>t, <4>1
      <4> QED BY <4>1, <4>2, ConcatEmptySeq
    <3>5. CASE k = 1
      BY <3>2, <3>3, <3>4, <3>5
    <3>6. CASE k # 1
      <4>1. k - 1 \in 1 .. n /\ k - 1 \in Nat /\ k - 1 < k
        BY <3>2, <3>6
      <4>2. flatten[k - 1] = g[k - 1]
        BY <3>1, <3>2, <4>1
      <4> QED BY <1>t, <3>2, <3>3, <3>6, <4>2
    <3> QED BY <3>5, <3>6
  <2>5. n \in 1 .. n /\ n = Len(s)
    BY <1>2
  <2> QED BY <2>1, <2>4, <2>5
<1> QED BY <1>1, <1>2

(* What has been accumulated of it.                                        *)
LEMMA Accumulated ==
    ASSUME NEW n \in Nat, NEW s, Texts(s, n)
    PROVE  \E g : Sums(g, s, n)
<1>t. \A k \in 1 .. n : s[k] \in Seq(Sign)
  BY DEF Texts
<1> DEFINE D == {m \in Nat : m <= n /\ ~ \E g : Sums(g, s, m)}
<1>1. ASSUME D # {} PROVE FALSE
  <2>1. PICK m \in D : \A k \in D : m <= k
    <3> HIDE DEF D
    <3> QED BY <1>1, TokenizerAssumptions, TP!NatLeast DEF D
  <2>2. m \in Nat /\ m <= n /\ ~ \E g : Sums(g, s, m)
    OBVIOUS
  <2>3. m # 0
    <3> DEFINE g == [k \in 0 .. 0 |-> <<>>]
    <3>1. g[0] = <<>> /\ 0 .. 0 = {0} /\ 1 .. 0 = {} /\ <<>> \in Seq(Sign)
      OBVIOUS
    <3>2. Sums(g, s, 0)
      BY <3>1 DEF Sums
    <3> QED BY <2>2, <3>2
  <2>4. m - 1 \in Nat /\ m - 1 <= n /\ m - 1 < m /\ m \in 1 .. n
    BY <2>2, <2>3
  <2>5. PICK g : Sums(g, s, m - 1)
    <3>1. m - 1 \notin D
      <4> HIDE DEF D
      <4> QED BY <2>1, <2>2, <2>4
    <3> QED BY <2>4, <3>1
  <2> HIDE DEF D
  <2> DEFINE h == [k \in 0 .. m |-> IF k = m THEN g[m - 1] \o s[m] ELSE g[k]]
  <2>6. \A k \in 0 .. m - 1 : h[k] = g[k]
    BY <2>2, <2>4
  <2>7. h[m] = g[m - 1] \o s[m]
    <3>1. m \in 0 .. m
      BY <2>2
    <3> QED BY <3>1
  <2> HIDE DEF h
  <2>8. m - 1 \in 0 .. m - 1 /\ 0 \in 0 .. m - 1
    BY <2>4
  <2>9. g[m - 1] \in Seq(Sign) /\ s[m] \in Seq(Sign)
    BY <1>t, <2>4, <2>5, <2>8 DEF Sums
  <2>10. h[m] \in Seq(Sign)
    BY <2>7, <2>9
  <2>11. \A k \in 0 .. m : h[k] \in Seq(Sign)
    <3> SUFFICES ASSUME NEW k \in 0 .. m PROVE h[k] \in Seq(Sign)
      OBVIOUS
    <3>1. k = m \/ k \in 0 .. m - 1
      BY <2>4
    <3> QED BY <2>5, <2>6, <2>10, <3>1 DEF Sums
  <2>12. \A k \in 1 .. m : h[k] = h[k - 1] \o s[k]
    <3> SUFFICES ASSUME NEW k \in 1 .. m PROVE h[k] = h[k - 1] \o s[k]
      OBVIOUS
    <3>1. k = m \/ (k \in 1 .. m - 1 /\ k \in 0 .. m - 1)
      BY <2>4
    <3>2. k - 1 \in 0 .. m - 1
      BY <2>4
    <3>3. h[k - 1] = g[k - 1]
      BY <2>6, <3>2
    <3>4. CASE k = m
      BY <2>7, <3>3, <3>4
    <3>5. CASE k \in 1 .. m - 1 /\ k \in 0 .. m - 1
      BY <2>5, <2>6, <3>3, <3>5 DEF Sums
    <3> QED BY <3>1, <3>4, <3>5
  <2>13. h[0] = <<>>
    BY <2>5, <2>6, <2>8 DEF Sums
  <2>14. Sums(h, s, m)
    BY <2>11, <2>12, <2>13 DEF Sums
  <2> QED BY <2>2, <2>14
<1>2. \E g : Sums(g, s, n)
  <2>1. n \notin D
    <3> HIDE DEF D
    <3> QED BY <1>1
  <2> QED BY <2>1
<1> QED BY <1>2

LEMMA SignFacts ==
    ASSUME tokens \in Seq(Token)
    PROVE  /\ \A m \in {"[", "]", " ", "slice"} : Mark(m) \in Seq(Sign)
           /\ \A k \in 1 .. Len(tokens) : /\ Slice(tokens[k]) \in Seq(Sign)
                                          /\ Written(k) \in Seq(Sign)
                                          /\ Respelled(k) \in Seq(Sign)
<1>0. \A x \in Sign : <<x>> \in Seq(Sign)
  OBVIOUS
<1>1. ASSUME NEW m \in {"[", "]", " ", "slice"} PROVE Mark(m) \in Seq(Sign)
  <2>1. [mark |-> m, begin |-> 0, size |-> 0] \in Sign
    BY DEF Sign
  <2> QED BY <1>0, <2>1, Zenon DEF Mark
<1>2. ASSUME NEW k \in 1 .. Len(tokens) PROVE Slice(tokens[k]) \in Seq(Sign)
  <2>1. tokens[k] \in Token
    OBVIOUS
  <2>2. tokens[k].begin \in Nat /\ tokens[k].size \in Nat
    BY <2>1 DEF Token
  <2>3. [mark |-> "slice", begin |-> tokens[k].begin, size |-> tokens[k].size] \in Sign
    BY <2>2 DEF Sign
  <2> QED BY <2>3 DEF Slice
<1>3. ASSUME NEW k \in 1 .. Len(tokens) PROVE Written(k) \in Seq(Sign)
  BY <1>1, <1>2 DEF Written
<1>4. ASSUME NEW k \in 1 .. Len(tokens) PROVE Respelled(k) \in Seq(Sign)
  <2>1. Mark(" ") \in Seq(Sign) /\ Written(k) \in Seq(Sign)
    BY <1>1, <1>3
  <2>2. Mark(" ") \o Written(k) \in Seq(Sign)
    BY <2>1, ConcatProperties
  <2>3. <<>> \in Seq(Sign)
    OBVIOUS
  <2> HIDE DEF Sign
  <2> QED BY <2>1, <2>2, <2>3 DEF Respelled
<1> QED BY <1>1, <1>2, <1>3, <1>4

LEMMA SignsTyped ==
    ASSUME tokens \in Seq(Token)
    PROVE  \A k \in 1 .. Len(tokens) : /\ Slice(tokens[k]) \in Seq(Sign)
                                       /\ Written(k) \in Seq(Sign)
                                       /\ Respelled(k) \in Seq(Sign)
BY SignFacts, Zenon

(* The text of the tokens behind a, up to b.                               *)
Between(a, b) == FlattenSeq([n \in 1 .. b - a |-> Respelled(a + n)])

LEMMA BetweenFacts ==
    ASSUME tokens \in Seq(Token), NEW a \in Nat, NEW b \in Nat, a <= b, b <= Len(tokens)
    PROVE  /\ Between(a, b) \in Seq(Sign)
           /\ a = b => Between(a, b) = <<>>
           /\ a < b => Between(a, b) = Between(a, b - 1) \o Respelled(b)
<1> DEFINE s == [n \in 1 .. b - a |-> Respelled(a + n)]
<1>1. PICK l \in Nat : l = b - a
  OBVIOUS
<1>2. \A n \in 1 .. l : a + n \in 1 .. Len(tokens)
  BY <1>1
<1>3. \A n \in 1 .. l : s[n] \in Seq(Sign) /\ s[n] = Respelled(a + n)
  BY <1>1, <1>2, SignsTyped
<1>4. Len(s) = l /\ (l = 0 => s = <<>>)
  BY <1>1
<1> HIDE DEF s
<1>t. Texts(s, l)
  BY <1>1, <1>3 DEF Texts
<1>5. PICK g : Sums(g, s, l)
  BY <1>1, <1>t, Accumulated
<1>6. FlattenSeq(s) = g[l]
  BY <1>1, <1>4, <1>5, <1>t, FlattenIs
<1>7. Between(a, b) = g[l] /\ g[l] \in Seq(Sign)
  BY <1>1, <1>5, <1>6 DEF Between, s, Sums
<1>8. a = b => Between(a, b) = <<>>
  BY <1>1, <1>5, <1>7 DEF Sums
<1>9. ASSUME a < b PROVE Between(a, b) = Between(a, b - 1) \o Respelled(b)
  <2> DEFINE r == [n \in 1 .. b - 1 - a |-> Respelled(a + n)]
  <2>1. PICK m \in Nat : m = l - 1 /\ m = b - 1 - a /\ m < l /\ l \in 1 .. l
    BY <1>1, <1>9
  <2>2. \A n \in 1 .. m : n \in 1 .. l
    BY <2>1
  <2>3. \A n \in 1 .. m : r[n] = s[n] /\ r[n] \in Seq(Sign)
    BY <1>3, <2>1, <2>2
  <2>4. Len(r) = m /\ (m = 0 => r = <<>>)
    BY <2>1
  <2> HIDE DEF r
  <2>5. Sums(g, r, m) /\ Texts(r, m)
    <3>1. g[0] = <<>> /\ \A k \in 0 .. m : g[k] \in Seq(Sign)
      BY <1>5, <2>1 DEF Sums
    <3>2. \A k \in 1 .. m : g[k] = g[k - 1] \o r[k]
      BY <1>5, <2>2, <2>3 DEF Sums
    <3> QED BY <2>3, <3>1, <3>2 DEF Sums, Texts
  <2>6. FlattenSeq(r) = g[m]
    BY <2>1, <2>4, <2>5, FlattenIs
  <2>7. Between(a, b - 1) = g[m]
    BY <2>6 DEF Between, r
  <2>8. s[l] = Respelled(b)
    BY <1>1, <1>3, <2>1
  <2>9. g[l] = g[m] \o s[l]
    BY <1>5, <2>1 DEF Sums
  <2> QED BY <1>7, <2>7, <2>8, <2>9
<1> QED BY <1>7, <1>8, <1>9

Span(a, b) == a \in Nat /\ b \in Nat /\ a <= b /\ b <= Len(tokens)

LEMMA BetweenSplits ==
    ASSUME tokens \in Seq(Token), NEW a, NEW c, NEW b, Span(a, c), Span(c, b)
    PROVE  Between(a, b) = Between(a, c) \o Between(c, b)
<1> DEFINE D == {n \in Nat : c <= n /\ n <= Len(tokens)
                             /\ Between(a, n) # Between(a, c) \o Between(c, n)}
<1>s. /\ a \in Nat /\ c \in Nat /\ b \in Nat
      /\ a <= c /\ c <= b /\ b <= Len(tokens)
  BY DEF Span
<1>0. PICK l \in Nat : l = Len(tokens)
  OBVIOUS
<1>i. \A x, y \in Nat : x <= y /\ y <= l =>
         /\ Between(x, y) \in Seq(Sign)
         /\ x = y => Between(x, y) = <<>>
         /\ x < y => Between(x, y) = Between(x, y - 1) \o Respelled(y)
  BY <1>0, BetweenFacts
<1>1. ASSUME D # {} PROVE FALSE
  <2>1. PICK n \in D : \A k \in D : n <= k
    <3> HIDE DEF D
    <3> QED BY <1>1, TokenizerAssumptions, TP!NatLeast DEF D
  <2>2. n \in Nat /\ c <= n /\ n <= l /\ Between(a, n) # Between(a, c) \o Between(c, n)
    BY <1>s, <1>0
  <2>3. Between(a, c) \in Seq(Sign) /\ Between(c, c) = <<>>
    <3>1. c <= l /\ a <= c /\ a \in Nat /\ c \in Nat
      BY <1>s, <2>2
    <3> QED BY <1>i, <3>1
  <2>4. n # c
    BY <2>2, <2>3, ConcatEmptySeq
  <2>5. n - 1 \in Nat /\ c <= n - 1 /\ n - 1 <= l /\ n - 1 < n /\ a < n /\ c < n /\ a <= n - 1
    BY <1>s, <2>2, <2>4
  <2>6. n - 1 \notin D
    <3> HIDE DEF D
    <3> QED BY <2>1, <2>2, <2>5
  <2>7. Between(a, n - 1) = Between(a, c) \o Between(c, n - 1)
    BY <1>s, <1>0, <2>5, <2>6
  <2> HIDE DEF D
  <2>8. /\ Between(a, n) = Between(a, n - 1) \o Respelled(n)
        /\ Between(c, n) = Between(c, n - 1) \o Respelled(n)
        /\ Between(c, n - 1) \in Seq(Sign)
    <3>1. a <= n
      BY <1>s, <2>2
    <3>2. Between(a, n) = Between(a, n - 1) \o Respelled(n)
      BY <1>i, <1>s, <2>2, <2>5, <3>1
    <3>3. Between(c, n) = Between(c, n - 1) \o Respelled(n)
      BY <1>i, <1>s, <2>2, <2>5
    <3>4. Between(c, n - 1) \in Seq(Sign)
      BY <1>i, <1>s, <2>5
    <3> QED BY <3>2, <3>3, <3>4
  <2>9. Respelled(n) \in Seq(Sign)
    <3>1. n \in 1 .. Len(tokens)
      BY <1>s, <1>0, <2>2, <2>5
    <3> QED BY <3>1, SignsTyped
  <2>10. (Between(a, c) \o Between(c, n - 1)) \o Respelled(n)
            = Between(a, c) \o (Between(c, n - 1) \o Respelled(n))
    BY <2>3, <2>8, <2>9, ConcatAssociative
  <2> QED BY <2>2, <2>7, <2>8, <2>10
<1>2. b \notin D
  <2> HIDE DEF D
  <2> QED BY <1>1
<1> QED BY <1>s, <1>0, <1>2

(* From behind token a up to token b there is nothing to print.            *)
Unseen(a, b) == \A k \in a + 1 .. b : ~ PP!Visible(k)

LEMMA BetweenInvisible ==
    ASSUME tokens \in Seq(Token), NEW a, NEW b, Span(a, b), Unseen(a, b)
    PROVE  Between(a, b) = <<>>
<1>s. a \in Nat /\ b \in Nat /\ a <= b /\ b <= Len(tokens)
  BY DEF Span
<1> DEFINE D == {n \in Nat : a <= n /\ n <= b /\ Between(a, n) # <<>>}
<1>0. PICK l \in Nat : l = Len(tokens)
  OBVIOUS
<1>1. ASSUME D # {} PROVE FALSE
  <2>1. PICK n \in D : \A k \in D : n <= k
    <3> HIDE DEF D
    <3> QED BY <1>1, TokenizerAssumptions, TP!NatLeast DEF D
  <2>2. n \in Nat /\ a <= n /\ n <= b /\ n <= l /\ Between(a, n) # <<>>
    BY <1>s, <1>0
  <2>3. n # a
    BY <1>s, <1>0, <2>2, BetweenFacts
  <2>4. n - 1 \in Nat /\ a <= n - 1 /\ n - 1 <= b /\ n - 1 < n /\ a < n /\ n \in a + 1 .. b
    BY <1>s, <2>2, <2>3
  <2>5. Between(a, n - 1) = <<>>
    <3>1. n - 1 \notin D
      <4> HIDE DEF D
      <4> QED BY <2>1, <2>2, <2>4
    <3> QED BY <2>4, <3>1
  <2> HIDE DEF D
  <2>6. Respelled(n) = <<>>
    <3>1. ~ PP!Visible(n)
      BY <2>4 DEF Unseen
    <3>2. ~ IsLexeme(n)
      BY <3>1 DEF IsLexeme, PP!Visible
    <3> QED BY <3>2 DEF Respelled
  <2>7. Between(a, n) = <<>> \o <<>>
    BY <1>s, <1>0, <2>2, <2>4, <2>5, <2>6, BetweenFacts
  <2>8. <<>> \in Seq(Sign)
    OBVIOUS
  <2> QED BY <2>2, <2>7, <2>8, ConcatEmptySeq
<1>2. b \notin D
  <2> HIDE DEF D
  <2> QED BY <1>1
<1> QED BY <1>s, <1>2

(* What printval() writes for an item, if it writes its inner blocks so.   *)
Opening == Mark("[")
Closing == Mark("]")
Space == Mark(" ")

LEMMA WrittenIs ==
    ASSUME NEW k
    PROVE  /\ tokens[k].type = "open" => Written(k) = Opening
           /\ tokens[k].type = "close" => Written(k) = Closing /\ Respelled(k) = Written(k)
           /\ tokens[k].type \notin {"open", "close"} => Written(k) = Slice(tokens[k])
           /\ \A n : Separator(n) = IF n > 1 THEN Space ELSE <<>>
<1>1. tokens[k].type = "open" => Written(k) = Opening
  BY Zenon DEF Written, Opening
<1>2. tokens[k].type = "close" => Written(k) = Closing
  BY Zenon DEF Written, Closing
<1>3. tokens[k].type = "close" => Respelled(k) = Written(k)
  <2>1. ASSUME tokens[k].type = "close" PROVE IsLexeme(k)
    BY <2>1 DEF IsLexeme
  <2> QED BY <2>1, Zenon DEF Respelled
<1>4. tokens[k].type \notin {"open", "close"} => Written(k) = Slice(tokens[k])
  BY Zenon DEF Written
<1>5. \A n : Separator(n) = IF n > 1 THEN Space ELSE <<>>
  BY Zenon DEF Separator, Space
<1> QED BY <1>1, <1>2, <1>3, <1>4, <1>5, Zenon

LEMMA ElementIs ==
    ASSUME tokens \in Seq(Token), PP!Balanced, NEW j \in PP!Opened, NEW k \in PP!Children(j),
           NEW rows,
           tokens[k].type = "open" => rows[PP!BlockOf(k)] = Between(k, PP!EndOfItem(k) - 1)
    PROVE  Element(PP!NodeOf(k), rows) = Written(k) \o Between(k, PP!EndOfItem(k))
<1> DEFINE e == PP!EndOfItem(k)
           node == PP!NodeOf(k)
<1>1. PICK l \in Nat : l = Len(tokens)
  OBVIOUS
<1>2. k \in 1 .. l /\ e \in k .. l
  BY <1>1, ParserAssumptions, PP!ItemEnds
<1>3. /\ tokens[k].type \in {"word", "number", "open"}
      /\ tokens[k].type = "open" => /\ node.type = "block" /\ node.block = PP!BlockOf(k)
                                    /\ e = PP!ClosedBy(k)
      /\ tokens[k].type # "open" => node.type # "block" /\ node.last = k - 1 /\ e = k
  BY DEF PP!NodeOf, PP!Children, PP!BlockOf, PP!EndOfItem
<1>4. Written(k) \in Seq(Sign)
  BY <1>1, <1>2, SignsTyped
<1> HIDE DEF e, node
<1>5. CASE tokens[k].type # "open"
  <2>1. TokenOf(node) = tokens[k]
    <3>1. k - 1 + 1 = k
      BY <1>1, <1>2
    <3> QED BY <1>3, <1>5, <3>1 DEF TokenOf
  <2>2. Element(node, rows) = Slice(tokens[k])
    BY <1>3, <1>5, <2>1, Zenon DEF Element
  <2>3. tokens[k].type \notin {"open", "close"}
    BY <1>3, <1>5
  <2>4. Written(k) = Slice(tokens[k])
    BY <2>3, WrittenIs
  <2>5. Between(k, e) = <<>>
    <3>1. k \in Nat /\ k <= k /\ k <= Len(tokens)
      BY <1>1, <1>2
    <3> QED BY <1>3, <1>5, <3>1, BetweenFacts
  <2> QED BY <1>4, <2>2, <2>4, <2>5, ConcatEmptySeq DEF e, node
<1>6. CASE tokens[k].type = "open"
  <2>1. Element(node, rows) = Opening \o Between(k, e - 1) \o Closing
    BY <1>3, <1>6, Zenon DEF Element, Opening, Closing, e
  <2>2. Written(k) = Opening
    BY <1>6, WrittenIs
  <2>3. e \in k + 1 .. l /\ tokens[e].type = "close"
    BY <1>1, <1>2, <1>3, <1>6, ParserAssumptions, PP!ClosedByFacts
  <2>4. k \in Nat /\ e \in Nat /\ e - 1 \in Nat /\ k < e /\ k <= e /\ k <= e - 1 /\ e <= l /\ e - 1 <= l
    BY <1>2, <2>3
  <2>5. Between(k, e) = Between(k, e - 1) \o Respelled(e)
    BY <1>1, <2>4, BetweenFacts
  <2>6. Between(k, e - 1) \in Seq(Sign)
    BY <1>1, <2>4, BetweenFacts
  <2>7. Respelled(e) = Closing
    BY <2>3, WrittenIs
  <2>8. Closing \in Seq(Sign)
    <3>1. e \in 1 .. l
      BY <2>4
    <3> QED BY <1>1, <2>7, <3>1, SignsTyped
  <2>9. (Opening \o Between(k, e - 1)) \o Closing = Opening \o (Between(k, e - 1) \o Closing)
    BY <1>4, <2>2, <2>6, <2>8, ConcatAssociative
  <2> QED BY <2>1, <2>2, <2>5, <2>7, <2>9 DEF e, node
<1> QED BY <1>5, <1>6

(* A blank in front of an item, if it is not the first in its block: p is  *)
(* where the item before it ends, or the bracket of the block.             *)
LEMMA SeparatorIs ==
    ASSUME tokens \in Seq(Token), NEW j \in PP!Opened, NEW c \in PP!Children(j),
           NEW p \in j .. c - 1, Unseen(p, c - 1),
           p # j => PP!Visible(p) /\ tokens[p].type # "open",
           NEW n, n > 1 <=> p # j
    PROVE  Respelled(c) = Separator(n) \o Written(c)
<1>1. PICK l \in Nat : l = Len(tokens)
  OBVIOUS
<1>2. /\ c \in 1 .. l /\ tokens[c].type \in {"word", "number", "open"}
      /\ j \in 0 .. l /\ (j # 0 => tokens[j].type = "open")
  BY <1>1 DEF PP!Children, PP!Opened
<1>3. IsLexeme(c) /\ tokens[c].type # "close"
  BY <1>2 DEF IsLexeme
<1>4. \A m : IsLexeme(m) <=> PP!Visible(m)
  BY DEF IsLexeme, PP!Visible
<1>u. \A m \in p + 1 .. c - 1 : ~ PP!Visible(m)
  BY DEF Unseen
<1>5. Written(c) \in Seq(Sign)
  BY <1>1, <1>2, SignsTyped
<1>6. Respelled(c) = IF FollowsElement(c) THEN Space \o Written(c) ELSE Written(c)
  BY <1>3, Zenon DEF Respelled, Space
<1>7. CASE p # j
  <2>1. p \in 1 .. c - 1
    BY <1>2, <1>7
  <2>2. FollowsElement(c)
    BY <1>4, <1>7, <1>u, <2>1 DEF FollowsElement
  <2>3. Separator(n) = Space
    BY <1>7, WrittenIs
  <2> QED BY <1>6, <2>2, <2>3
<1>8. CASE p = j
  <2>1. ASSUME FollowsElement(c) PROVE FALSE
    <3>1. PICK m \in 1 .. c - 1 : /\ IsLexeme(m) /\ tokens[m].type # "open"
                                  /\ \A x \in m + 1 .. c - 1 : ~ IsLexeme(x)
      BY <2>1 DEF FollowsElement
    <3>2. CASE m > j
      <4>1. m \in p + 1 .. c - 1
        BY <1>2, <1>8, <3>2
      <4> QED BY <1>4, <1>u, <3>1, <4>1
    <3>3. CASE m = j
      <4>1. j # 0
        BY <1>2, <3>3
      <4> QED BY <1>2, <3>1, <3>3, <4>1
    <3>4. CASE m < j
      <4>1. j # 0 /\ j \in m + 1 .. c - 1
        BY <1>2, <3>4
      <4>2. IsLexeme(j)
        BY <1>2, <4>1 DEF IsLexeme
      <4> QED BY <3>1, <4>1, <4>2
    <3> QED BY <1>2, <3>2, <3>3, <3>4
  <2>2. Separator(n) = <<>>
    BY <1>8, WrittenIs
  <2>3. <<>> \o Written(c) = Written(c)
    BY <1>5, ConcatEmptySeq
  <2> QED BY <1>6, <2>1, <2>2, <2>3
<1> QED BY <1>7, <1>8

LEMMA SeparatorTyped ==
    ASSUME tokens \in Seq(Token), NEW n
    PROVE  Separator(n) \in Seq(Sign)
<1>1. Space \in Seq(Sign)
  BY SignFacts, Zenon DEF Space
<1>2. Separator(n) = IF n > 1 THEN Space ELSE <<>>
  BY WrittenIs
<1>3. <<>> \in Seq(Sign)
  OBVIOUS
<1> QED BY <1>1, <1>2, <1>3

LEMMA RowGrows ==
    ASSUME tokens \in Seq(Token), NEW j \in PP!Opened, NEW c \in PP!Children(j),
           NEW p \in j .. c - 1, Unseen(p, c - 1),
           p # j => PP!Visible(p) /\ tokens[p].type # "open",
           NEW n, n > 1 <=> p # j, NEW e \in c .. Len(tokens)
    PROVE  Between(j, e) = Between(j, p) \o (Separator(n) \o (Written(c) \o Between(c, e)))
<1>1. PICK l \in Nat : l = Len(tokens)
  OBVIOUS
<1>2. c \in 1 .. l /\ j \in 0 .. l
  BY <1>1 DEF PP!Children, PP!Opened
<1>d. PICK d \in Nat : d = c - 1
  BY <1>2
<1>3. /\ j \in Nat /\ p \in Nat /\ c \in Nat /\ d \in Nat /\ e \in Nat
      /\ j <= p /\ p <= d /\ p <= e /\ d < c /\ d <= d /\ d <= c /\ d <= e /\ c <= e
      /\ e <= Len(tokens) /\ c <= Len(tokens) /\ d <= Len(tokens) /\ p <= Len(tokens)
      /\ tokens \in Seq(Token) /\ Unseen(p, d)
  BY <1>1, <1>2, <1>d
<1>s. Span(j, p) /\ Span(p, e) /\ Span(p, d) /\ Span(d, e) /\ Span(d, c) /\ Span(c, e)
  BY <1>3 DEF Span
<1>4. Between(j, e) = Between(j, p) \o Between(p, e)
  BY <1>s, BetweenSplits
<1>5. Between(p, e) = Between(p, d) \o Between(d, e)
  BY <1>s, BetweenSplits
<1>6. Between(p, d) = <<>>
  BY <1>3, <1>s, BetweenInvisible, Zenon
<1>7. Between(d, e) = Between(d, c) \o Between(c, e)
  BY <1>s, BetweenSplits
<1>8. Between(d, c) = Between(d, d) \o Respelled(c)
  BY <1>d, <1>3, BetweenFacts
<1>16. Between(d, d) = <<>>
  BY <1>3, BetweenFacts
<1>9. Respelled(c) = Separator(n) \o Written(c)
  BY SeparatorIs
<1>10. Written(c) \in Seq(Sign) /\ Respelled(c) \in Seq(Sign)
  BY <1>1, <1>2, SignsTyped
<1>11. Between(c, e) \in Seq(Sign) /\ Between(d, e) \in Seq(Sign)
  BY <1>3, BetweenFacts, Zenon
<1>12. Separator(n) \in Seq(Sign)
  BY SeparatorTyped
<1>13. Between(d, c) = Respelled(c)
  BY <1>8, <1>10, <1>16, ConcatEmptySeq
<1>14. Between(p, e) = Between(d, e)
  BY <1>5, <1>6, <1>11, ConcatEmptySeq
<1>15. (Separator(n) \o Written(c)) \o Between(c, e) = Separator(n) \o (Written(c) \o Between(c, e))
  <2>1. \A x, y, z \in Seq(Sign) : (x \o y) \o z = x \o (y \o z)
    BY ConcatAssociative
  <2> QED BY <1>10, <1>11, <1>12, <2>1
<1> QED BY <1>4, <1>7, <1>9, <1>13, <1>14, <1>15

(* The rows say for each block within the one that opens at j what         *)
(* printval() writes for it.                                               *)
RowsWritten(j, rows) ==
    \A k \in PP!Children(j) : tokens[k].type = "open" =>
        rows[PP!BlockOf(k)] = Between(k, PP!EndOfItem(k) - 1)

(* The elements of a block: each is one item of it, and between them is    *)
(* nothing else that is printed.                                           *)
LEMMA RowIs ==
    ASSUME tokens \in Seq(Token), InSourceOrder(tokens), PP!Balanced,
           NEW j \in PP!Opened, PP!Mirrors(j),
           NEW seq, seq = heap[PP!BlockOf(j)].seq, Len(seq) \in Nat, NEW rows, RowsWritten(j, rows)
    PROVE  FlattenSeq([n \in 1 .. Len(seq) |-> Separator(n) \o Element(seq[n], rows)])
              = Between(j, PP!EndOfBlock(j) - 1)
<1>1. PICK l \in Nat : l = Len(tokens)
  OBVIOUS
<1>2. PICK count \in Nat : count = Len(seq)
  OBVIOUS
<1>3. PICK c : /\ \A n \in 1 .. count : c[n] \in PP!Children(j) /\ seq[n] = PP!NodeOf(c[n])
               /\ \A m, n \in 1 .. count : m < n => c[m] < c[n]
               /\ \A k \in PP!Children(j) : \E n \in 1 .. count : k = c[n]
  <2>1. PP!InSourceOrder(tokens) /\ tokens \in Seq(PP!Token)
    BY DEF PP!InSourceOrder, InSourceOrder, PP!Token, Token, PP!TokenType, TokenType
  <2>2. \E c :
           /\ \A n \in 1 .. Len(heap[PP!BlockOf(j)].seq) :
                 c[n] \in PP!Children(j) /\ heap[PP!BlockOf(j)].seq[n] = PP!NodeOf(c[n])
           /\ \A m, n \in 1 .. Len(heap[PP!BlockOf(j)].seq) : m < n => c[m] < c[n]
           /\ \A k \in PP!Children(j) : \E n \in 1 .. Len(heap[PP!BlockOf(j)].seq) : k = c[n]
    BY <2>1, ParserAssumptions, PP!ChildrenInOrder
  <2> QED BY <1>2, <2>2
<1> DEFINE e(n) == IF n = 0 THEN j ELSE PP!EndOfItem(c[n])
           level(n) == PP!Level(n)
<1>4. j \in Nat /\ j <= l /\ (j # 0 => j \in 1 .. l /\ tokens[j].type = "open")
  BY <1>1 DEF PP!Opened
<1>5. PICK stop \in Nat : stop = PP!EndOfBlock(j) /\ j < stop /\ stop <= l + 1
  <2>1. CASE j = 0
    BY <1>1, <2>1 DEF PP!EndOfBlock
  <2>2. CASE j # 0
    <3>1. PP!ClosedBy(j) \in j + 1 .. l
      BY <1>1, <1>4, <2>2, ParserAssumptions, PP!ClosedByFacts
    <3> QED BY <1>4, <2>2, <3>1 DEF PP!EndOfBlock
  <2> QED BY <2>1, <2>2
<1>6. ASSUME NEW n \in 1 .. count
      PROVE  /\ c[n] \in 1 .. l /\ j < c[n] /\ e(n) \in c[n] .. l /\ e(n) < stop
             /\ PP!Level(e(n)) = PP!Level(j)
             /\ \A x \in j .. e(n) : PP!Level(x) >= PP!Level(j)
             /\ PP!Visible(e(n)) /\ tokens[e(n)].type # "open"
  <2>1. c[n] \in PP!Children(j) /\ n # 0
    BY <1>3
  <2>2. e(n) = PP!EndOfItem(c[n])
    BY <2>1
  <2> HIDE DEF e
  <2> QED BY <1>1, <1>5, <2>1, <2>2, ParserAssumptions, PP!ItemEnds
<1>7. ASSUME NEW n \in 0 .. count
      PROVE  /\ e(n) \in j .. l /\ e(n) \in Nat /\ e(n) < stop
             /\ PP!Level(e(n)) = PP!Level(j)
             /\ \A x \in j .. e(n) : PP!Level(x) >= PP!Level(j)
  <2>1. CASE n = 0
    <3>1. e(n) = j
      BY <2>1
    <3>2. PP!Level(j) \in Int
      BY <1>4, ParserAssumptions, PP!LevelStep
    <3> QED BY <1>4, <1>5, <3>1, <3>2
  <2>2. CASE n # 0
    <3>1. n \in 1 .. count
      BY <2>2
    <3> HIDE DEF e
    <3> QED BY <1>4, <1>6, <3>1
  <2> QED BY <2>1, <2>2
<1>8. ASSUME NEW n \in 1 .. count PROVE e(n - 1) < c[n]
  <2>1. CASE n = 1
    <3>1. e(n - 1) = j
      BY <2>1
    <3> QED BY <1>6, <3>1
  <2>2. CASE n # 1
    <3>1. n - 1 \in 1 .. count /\ n - 1 < n /\ n - 1 # 0
      BY <2>2
    <3>2. c[n - 1] < c[n] /\ c[n - 1] \in PP!Children(j) /\ c[n] \in PP!Children(j)
      BY <1>3, <3>1
    <3>3. PP!EndOfItem(c[n - 1]) < c[n]
      BY <1>1, <3>2, ParserAssumptions, PP!ItemsApart
    <3> QED BY <3>1, <3>3
  <2> QED BY <2>1, <2>2
<1>9. ASSUME NEW n \in 0 .. count, NEW k \in PP!Children(j), e(n) < k
      PROVE  \E m \in 1 .. count : n < m /\ k = c[m]
  <2>1. PICK m \in 1 .. count : k = c[m]
    BY <1>3
  <2>2. ASSUME m <= n PROVE FALSE
    <3>1. n \in 1 .. count
      BY <2>2
    <3>2. c[n] <= e(n) /\ c[n] \in Nat /\ c[m] \in Nat /\ e(n) \in Nat
      <4> HIDE DEF e
      <4> QED BY <1>6, <3>1
    <3>3. c[m] <= c[n]
      <4>1. CASE m = n
        BY <3>2, <4>1
      <4>2. CASE m < n
        BY <1>3, <3>1, <3>2, <4>2
      <4> QED BY <2>2, <4>1, <4>2
    <3> HIDE DEF e
    <3> QED BY <1>9, <2>1, <3>2, <3>3
  <2> QED BY <2>1, <2>2
<1>10. ASSUME NEW n \in 1 .. count, NEW m \in e(n - 1) + 1 .. c[n] - 1 PROVE ~ PP!Visible(m)
  <2>1. n - 1 \in 0 .. count
    OBVIOUS
  <2>2. PICK p \in Nat : p = e(n - 1)
    BY <1>7, <2>1
  <2>3. /\ p \in j .. l /\ PP!Level(p) = PP!Level(j)
        /\ \A x \in j .. p : PP!Level(x) >= PP!Level(j)
    <3> HIDE DEF e
    <3> QED BY <1>7, <2>1, <2>2
  <2>4. PICK q \in Nat : q = c[n] - 1 /\ q <= l /\ q < stop
    <3> HIDE DEF e
    <3> QED BY <1>5, <1>6
  <2>5. \A k \in p + 1 .. q : k \notin PP!Children(j)
    <3> SUFFICES ASSUME NEW k \in p + 1 .. q, k \in PP!Children(j) PROVE FALSE
      OBVIOUS
    <3>1. e(n - 1) < k
      BY <2>2
    <3>2. PICK x \in 1 .. count : n - 1 < x /\ k = c[x]
      <4> HIDE DEF e
      <4> QED BY <1>9, <2>1, <3>1
    <3>3. k < c[n] /\ k \in Nat /\ c[n] \in Nat
      <4> HIDE DEF e
      <4>1. PICK y \in Nat : y = c[n]
        BY <1>6
      <4>2. q = y - 1
        BY <2>4, <4>1
      <4>3. k \in Nat /\ k < y
        BY <4>2
      <4> QED BY <4>1, <4>3
    <3>4. n = x \/ n < x
      BY <3>2
    <3>5. n < x => c[n] < c[x]
      BY <1>3
    <3> QED BY <3>2, <3>3, <3>4, <3>5
  <2>6. m \in p + 1 .. q
    BY <2>2, <2>4
  <2>7. j <= p
    BY <1>4, <2>3
  <2> HIDE DEF e
  <2> QED BY <1>1, <1>5, <2>3, <2>4, <2>5, <2>6, <2>7, ParserAssumptions, PP!GapInvisible
<1> DEFINE t == [n \in 1 .. count |-> Separator(n) \o Element(seq[n], rows)]
           g == [n \in 0 .. count |-> Between(j, e(n))]
<1>11. ASSUME NEW n \in 0 .. count PROVE g[n] = Between(j, e(n)) /\ g[n] \in Seq(Sign)
  <2>1. g[n] = Between(j, e(n))
    OBVIOUS
  <2> HIDE DEF g, e
  <2>2. j <= e(n) /\ e(n) <= Len(tokens) /\ e(n) \in Nat
    BY <1>1, <1>4, <1>7
  <2> QED BY <1>4, <2>1, <2>2, BetweenFacts
<1>12. ASSUME NEW n \in 1 .. count
       PROVE  /\ t[n] = Separator(n) \o (Written(c[n]) \o Between(c[n], e(n)))
              /\ g[n] = g[n - 1] \o t[n]
              /\ t[n] \in Seq(Sign)
  <2>1. c[n] \in PP!Children(j) /\ seq[n] = PP!NodeOf(c[n]) /\ n # 0
    BY <1>3
  <2>2. e(n) = PP!EndOfItem(c[n])
    BY <2>1
  <2>3. Element(PP!NodeOf(c[n]), rows) = Written(c[n]) \o Between(c[n], PP!EndOfItem(c[n]))
    BY <2>1, ElementIs DEF RowsWritten
  <2>4. t[n] = Separator(n) \o (Written(c[n]) \o Between(c[n], e(n)))
    BY <2>1, <2>2, <2>3
  <2>5. PICK p \in Nat : p = e(n - 1) /\ p \in j .. c[n] - 1
    <3>1. n - 1 \in 0 .. count
      OBVIOUS
    <3> HIDE DEF e
    <3>2. e(n - 1) \in Nat /\ j <= e(n - 1)
      BY <1>7, <3>1
    <3>3. c[n] \in Nat /\ e(n - 1) < c[n]
      BY <1>6, <1>8
    <3> QED BY <1>4, <3>2, <3>3
  <2>6. p # j => n > 1 /\ PP!Visible(p) /\ tokens[p].type # "open"
    <3>1. CASE n = 1
      BY <2>5, <3>1
    <3>2. CASE n # 1
      <4>1. n - 1 \in 1 .. count /\ n > 1
        BY <3>2
      <4> HIDE DEF e
      <4> QED BY <1>6, <2>5, <4>1
    <3> QED BY <3>1, <3>2
  <2>7. n > 1 => p # j
    <3> SUFFICES ASSUME n > 1 PROVE p # j
      OBVIOUS
    <3>1. n - 1 \in 1 .. count
      OBVIOUS
    <3> HIDE DEF e
    <3>2. c[n - 1] \in 1 .. l /\ j < c[n - 1] /\ e(n - 1) \in c[n - 1] .. l
      BY <1>6, <3>1
    <3>3. p = e(n - 1)
      BY <2>5
    <3> QED BY <1>4, <3>2, <3>3
  <2> HIDE DEF e, t, g
  <2>8. \A m \in p + 1 .. c[n] - 1 : ~ PP!Visible(m)
    BY <1>10, <2>5
  <2>9. e(n) \in c[n] .. Len(tokens)
    BY <1>1, <1>6
  <2>10. Between(j, e(n)) = Between(j, p) \o (Separator(n) \o (Written(c[n]) \o Between(c[n], e(n))))
    <3>k. PICK k \in PP!Children(j) : k = c[n]
      BY <2>1
    <3>x. PICK x \in k .. Len(tokens) : x = e(n)
      BY <2>9, <3>k
    <3>1. k = c[n] /\ x = e(n)
      BY <3>k, <3>x
    <3>2. n > 1 <=> p # j
      BY <2>6, <2>7
    <3>3. p \in j .. k - 1 /\ Unseen(p, k - 1)
      BY <2>5, <2>8, <3>1 DEF Unseen
    <3>5. p # j => PP!Visible(p) /\ tokens[p].type # "open"
      BY <2>6
    <3>6. tokens \in Seq(Token) /\ j \in PP!Opened /\ k \in PP!Children(j) /\ x \in k .. Len(tokens)
      BY <3>k, <3>x
    <3>4. Between(j, x) = Between(j, p) \o (Separator(n) \o (Written(k) \o Between(k, x)))
      BY <3>2, <3>3, <3>5, <3>6, RowGrows, Zenon
    <3> QED BY <3>1, <3>4
  <2>11. n \in 0 .. count /\ n - 1 \in 0 .. count
    OBVIOUS
  <2>12. g[n] = g[n - 1] \o t[n]
    BY <1>11, <2>4, <2>5, <2>10, <2>11
  <2>13. t[n] \in Seq(Sign)
    <3>1. Written(c[n]) \in Seq(Sign)
      BY <1>1, <1>6, SignsTyped
    <3>2. Between(c[n], e(n)) \in Seq(Sign)
      <4>1. c[n] \in Nat /\ e(n) \in Nat /\ c[n] <= e(n) /\ e(n) <= Len(tokens)
        BY <1>1, <1>6
      <4> QED BY <4>1, BetweenFacts
    <3>3. Separator(n) \in Seq(Sign)
      BY SeparatorTyped
    <3> QED BY <2>4, <3>1, <3>2, <3>3, ConcatProperties
  <2> QED BY <2>4, <2>12, <2>13
<1> HIDE DEF t, g
<1>13. Sums(g, t, count) /\ Texts(t, count)
  <2>1. g[0] = <<>>
    <3>1. 0 \in 0 .. count /\ e(0) = j
      OBVIOUS
    <3>2. Between(j, j) = <<>>
      <4>1. j <= j
        BY <1>4
      <4> QED BY <1>1, <1>4, <4>1, BetweenFacts
    <3> HIDE DEF e
    <3> QED BY <1>11, <3>1, <3>2
  <2>2. \A n \in 0 .. count : g[n] \in Seq(Sign)
    BY <1>11
  <2>3. \A n \in 1 .. count : g[n] = g[n - 1] \o t[n]
    BY <1>12
  <2>4. \A n \in 1 .. count : t[n] \in Seq(Sign)
    BY <1>12
  <2> QED BY <2>1, <2>2, <2>3, <2>4 DEF Sums, Texts
<1>14. Len(t) = count /\ (count = 0 => t = <<>>)
  BY DEF t
<1>15. FlattenSeq(t) = g[count]
  BY <1>2, <1>13, <1>14, FlattenIs
<1>16. count \in 0 .. count
  BY <1>2
<1>17. PICK p \in Nat : p = e(count) /\ p \in j .. l /\ p < stop
                        /\ PP!Level(p) = PP!Level(j) /\ \A x \in j .. p : PP!Level(x) >= PP!Level(j)
  <2> HIDE DEF e
  <2> QED BY <1>7, <1>16
<1>18. PICK q \in Nat : q = stop - 1 /\ q <= l /\ q < stop /\ p <= q /\ j <= p /\ p <= l /\ j <= q
  BY <1>4, <1>5, <1>17
<1>19. \A k \in p + 1 .. q : k \notin PP!Children(j)
  <2> SUFFICES ASSUME NEW k \in p + 1 .. q, k \in PP!Children(j) PROVE FALSE
    OBVIOUS
  <2>1. e(count) < k
    BY <1>17
  <2>2. PICK x \in 1 .. count : count < x
    <3> HIDE DEF e
    <3> QED BY <1>9, <1>16, <2>1
  <2> QED BY <2>2
<1>20. \A m \in p + 1 .. q : ~ PP!Visible(m)
  BY <1>1, <1>5, <1>17, <1>18, <1>19, ParserAssumptions, PP!GapInvisible
<1>k. /\ j \in Nat /\ p \in Nat /\ q \in Nat /\ tokens \in Seq(Token)
      /\ j <= p /\ p <= q /\ p <= Len(tokens) /\ q <= Len(tokens)
  BY <1>1, <1>4, <1>17, <1>18
<1>r. Span(j, p) /\ Span(p, q)
  BY <1>k DEF Span
<1>21. Between(p, q) = <<>>
  <2>1. Unseen(p, q)
    BY <1>20 DEF Unseen
  <2> HIDE DEF e, t, g
  <2> QED BY <1>k, <1>r, <2>1, BetweenInvisible, Zenon
<1>22. Between(j, q) = Between(j, p) \o Between(p, q)
  <2> HIDE DEF e, t, g
  <2> QED BY <1>k, <1>r, BetweenSplits
<1>23. Between(j, p) \in Seq(Sign)
  <2> HIDE DEF e, t, g
  <2> QED BY <1>k, BetweenFacts
<1>24. Between(j, q) = g[count]
  <2>1. g[count] = Between(j, p)
    <3> HIDE DEF e
    <3> QED BY <1>11, <1>16, <1>17
  <2> QED BY <1>21, <1>22, <1>23, <2>1, ConcatEmptySeq
<1> QED BY <1>2, <1>5, <1>15, <1>18, <1>24 DEF t

(* All of a finished tree is printed so: there is a function that is what  *)
(* Elements says, and no two of them differ, as the blocks of a block      *)
(* begin behind its own bracket.                                           *)
RowOf(b, rows) ==
    FlattenSeq([n \in 1 .. Len(heap[b].seq) |-> Separator(n) \o Element(heap[b].seq[n], rows)])

LEMMA ElementsAre ==
    ASSUME tokens \in Seq(Token), InSourceOrder(tokens), PP!Balanced,
           \A j \in PP!Opened : PP!Mirrors(j), Len(heap) = PP!Cardinality(PP!Opened),
           \A b \in 1 .. Len(heap) : Len(heap[b].seq) \in Nat
    PROVE  \A j \in PP!Opened : Elements[PP!BlockOf(j)] = Between(j, PP!EndOfBlock(j) - 1)
<1>1. PICK l \in Nat : l = Len(tokens)
  OBVIOUS
<1>2. /\ \A b \in 1 .. Len(heap) : \E j \in PP!Opened : PP!BlockOf(j) = b
      /\ \A j \in PP!Opened : PP!BlockOf(j) \in 1 .. Len(heap)
      /\ \A j, k \in PP!Opened : PP!BlockOf(j) = PP!BlockOf(k) => j = k
  BY <1>1, ParserAssumptions, PP!BlocksReached
<1> DEFINE whole(j) == Between(j, PP!EndOfBlock(j) - 1)
           opener(b) == CHOOSE j \in PP!Opened : PP!BlockOf(j) = b
           w == [b \in 1 .. Len(heap) |-> whole(opener(b))]
           F(f) == [b \in 1 .. Len(heap) |-> RowOf(b, f)]
<1>3. ASSUME NEW j \in PP!Opened PROVE w[PP!BlockOf(j)] = whole(j)
  <2>1. PP!BlockOf(j) \in 1 .. Len(heap)
    BY <1>2
  <2>2. opener(PP!BlockOf(j)) = j
    <3>1. opener(PP!BlockOf(j)) \in PP!Opened /\ PP!BlockOf(opener(PP!BlockOf(j))) = PP!BlockOf(j)
      OBVIOUS
    <3> QED BY <1>2, <3>1
  <2> HIDE DEF whole, opener
  <2> QED BY <2>1, <2>2
<1>4. ASSUME NEW j \in PP!Opened, NEW k \in PP!Children(j), tokens[k].type = "open"
      PROVE  /\ k \in PP!Opened /\ k \in Nat /\ j \in Nat /\ j < k /\ k <= l
             /\ whole(k) = Between(k, PP!EndOfItem(k) - 1)
  <2>1. j \in Nat /\ j < k /\ k \in 1 .. l
    BY <1>1, ParserAssumptions, PP!ItemEnds
  <2>2. k \in PP!Opened
    BY <1>1, <1>4, <2>1 DEF PP!Opened
  <2>3. PP!EndOfBlock(k) = PP!EndOfItem(k)
    BY <1>4, <2>1 DEF PP!EndOfBlock, PP!EndOfItem
  <2> QED BY <2>1, <2>2, <2>3
<1>5. ASSUME NEW j \in PP!Opened, NEW rows,
             \A k \in PP!Children(j) : tokens[k].type = "open" => rows[PP!BlockOf(k)] = whole(k)
      PROVE  RowOf(PP!BlockOf(j), rows) = whole(j)
  <2>1. PP!Mirrors(j) /\ Len(heap[PP!BlockOf(j)].seq) \in Nat
    BY <1>2
  <2>2. RowsWritten(j, rows)
    <3> HIDE DEF whole
    <3> QED BY <1>4, <1>5 DEF RowsWritten
  <2>3. PICK seq : seq = heap[PP!BlockOf(j)].seq
    OBVIOUS
  <2>4. FlattenSeq([n \in 1 .. Len(seq) |-> Separator(n) \o Element(seq[n], rows)]) = whole(j)
    <3>1. /\ tokens \in Seq(Token) /\ InSourceOrder(tokens) /\ PP!Balanced
          /\ PP!Mirrors(j) /\ Len(seq) \in Nat
      BY <2>1, <2>3
    <3> QED BY <2>2, <2>3, <3>1, RowIs, Zenon
  <2> QED BY <2>3, <2>4 DEF RowOf
<1>6. w = F(w)
  <2>1. ASSUME NEW b \in 1 .. Len(heap) PROVE RowOf(b, w) = w[b]
    <3> HIDE DEF w, whole, F
    <3>1. PICK j \in PP!Opened : PP!BlockOf(j) = b
      BY <1>2
    <3>2. \A k \in PP!Children(j) : tokens[k].type = "open" => w[PP!BlockOf(k)] = whole(k)
      BY <1>3, <1>4
    <3>3. RowOf(PP!BlockOf(j), w) = whole(j)
      BY <1>5, <3>2
    <3> QED BY <1>3, <3>1, <3>3
  <2>2. \A b \in 1 .. Len(heap) : w[b] = whole(opener(b))
    OBVIOUS
  <2> HIDE DEF whole, opener
  <2> QED BY <2>1, <2>2
<1>7. Elements = F(Elements)
  <2>1. Elements = CHOOSE f : f = F(f)
    BY DEF Elements, RowOf
  <2> HIDE DEF w, F
  <2> QED BY <1>6, <2>1
<1> HIDE DEF w
<1> DEFINE D == {n \in Nat : \E j \in PP!Opened : n = l - j /\ Elements[PP!BlockOf(j)] # whole(j)}
<1>8. ASSUME D # {} PROVE FALSE
  <2> HIDE DEF F
  <2>1. PICK n \in D : \A m \in D : n <= m
    <3> HIDE DEF D
    <3> QED BY <1>8, TokenizerAssumptions, TP!NatLeast DEF D
  <2>2. PICK j \in PP!Opened : n = l - j /\ Elements[PP!BlockOf(j)] # whole(j)
    OBVIOUS
  <2>3. ASSUME NEW k \in PP!Children(j), tokens[k].type = "open"
        PROVE  Elements[PP!BlockOf(k)] = whole(k)
    <3>1. k \in PP!Opened /\ k \in Nat /\ j \in Nat /\ j < k /\ k <= l
      <4> HIDE DEF whole, D
      <4> QED BY <1>4, <2>3
    <3>2. l - k \in Nat /\ l - k < n
      BY <1>1, <2>2, <3>1
    <3>3. l - k \notin D
      <4> HIDE DEF D
      <4> QED BY <1>1, <2>1, <2>2, <3>1, <3>2
    <3> HIDE DEF whole
    <3> QED BY <3>1, <3>2, <3>3
  <2> HIDE DEF whole, D
  <2>4. RowOf(PP!BlockOf(j), Elements) = whole(j)
    BY <1>5, <2>3
  <2>5. Elements[PP!BlockOf(j)] = RowOf(PP!BlockOf(j), Elements)
    <3>1. PP!BlockOf(j) \in 1 .. Len(heap)
      BY <1>2
    <3>2. F(Elements)[PP!BlockOf(j)] = RowOf(PP!BlockOf(j), Elements)
      BY <3>1 DEF F
    <3> QED BY <1>7, <3>2
  <2> QED BY <2>2, <2>4, <2>5
<1>9. ASSUME NEW j \in PP!Opened PROVE Elements[PP!BlockOf(j)] = whole(j)
  <2>1. j \in Nat /\ l - j \in Nat
    BY <1>1 DEF PP!Opened
  <2>2. l - j \notin D
    <3> HIDE DEF D
    <3> QED BY <1>8
  <2> HIDE DEF whole
  <2> QED BY <2>1, <2>2
<1> QED BY <1>9

(* An item at the top of a line, as the tree of it is printed.             *)
LEMMA PrintedIs ==
    ASSUME Accepted, P!Spaced, NEW k \in TopItems
    PROVE  Printed(PP!NodeOf(k)) = Normalized(k)
<1>1. tokens \in Seq(Token) /\ InSourceOrder(tokens)
  BY AcceptedTokens DEF Accepted
<1>2. PP!Balanced /\ PP!Spaced /\ TopItems = PP!Children(0)
  BY AcceptedBalanced, ItemsSame DEF Accepted
<1>3. PP!SpacedParseMirrorsSource
  BY ParserAssumptions, PP!Mirrored DEF Accepted, ParInv
<1>4. Len(heap) = PP!Cardinality(PP!Opened) /\ \A j \in PP!Opened : PP!Mirrors(j)
  BY <1>2, <1>3 DEF PP!SpacedParseMirrorsSource, PP!ParseMirrorsSource, Accepted
<1>5. \A b \in 1 .. Len(heap) : Len(heap[b].seq) \in Nat
  <2>1. heap \in Seq(PP!Block)
    BY DEF Accepted, ParInv, PP!PInv, PP!Typed
  <2>2. ASSUME NEW b \in 1 .. Len(heap) PROVE Len(heap[b].seq) \in Nat
    <3>1. heap[b] \in PP!Block
      BY <2>1
    <3> QED BY <3>1 DEF PP!Block
  <2> QED BY <2>2
<1>6. \A j \in PP!Opened : Elements[PP!BlockOf(j)] = Between(j, PP!EndOfBlock(j) - 1)
  BY <1>1, <1>2, <1>4, <1>5, ElementsAre
<1>7. 0 \in PP!Opened /\ k \in PP!Children(0)
  BY <1>2 DEF PP!Opened
<1>8. tokens[k].type = "open" => Elements[PP!BlockOf(k)] = Between(k, PP!EndOfItem(k) - 1)
  <2> SUFFICES ASSUME tokens[k].type = "open"
               PROVE  Elements[PP!BlockOf(k)] = Between(k, PP!EndOfItem(k) - 1)
    OBVIOUS
  <2>1. k \in 1 .. Len(tokens) /\ k # 0
    <3>1. k \in 1 .. Len(tokens) /\ Len(tokens) \in Nat
      BY <1>1, <1>7 DEF PP!Children
    <3> QED BY <3>1
  <2>2. k \in PP!Opened
    BY <2>1 DEF PP!Opened
  <2>3. PP!EndOfBlock(k) = PP!EndOfItem(k)
    BY <2>1 DEF PP!EndOfBlock, PP!EndOfItem
  <2> QED BY <1>6, <2>2, <2>3
<1>9. Element(PP!NodeOf(k), Elements) = Written(k) \o Between(k, PP!EndOfItem(k))
  BY <1>1, <1>2, <1>7, <1>8, ElementIs
<1>10. ItemEnd(k) = PP!EndOfItem(k)
  BY DEF ItemEnd, PP!EndOfItem, P!ClosedBy, PP!ClosedBy, P!Level, PP!Level, P!Count, PP!Count,
         P!Cardinality, PP!Cardinality
<1>11. Normalized(k) = Written(k) \o Between(k, PP!EndOfItem(k))
  BY <1>10, Zenon DEF Normalized, Between
<1> QED BY <1>9, <1>11, Zenon DEF Printed

(* When printval() is reached, the value is the last node of the root.     *)
Shown ==
    stage = "print" =>
        /\ Accepted
        /\ result # ReplEval!Indeterminate =>
              Len(heap[1].seq) > 0 /\ result.id = Len(heap[1].seq)

LEMMA LastShown ==
    ASSUME Trees, Evals, stage = "eval", pc = "done", result # ReplEval!Indeterminate
    PROVE  Len(heap[1].seq) > 0 /\ result.id = Len(heap[1].seq)
<1>1. PICK count \in Nat : count = Len(heap[1].seq)
  <2>1. heap \in Seq(PP!Block) /\ Len(heap) > 0
    BY DEF Trees, ParInv, PP!PInv, PP!Typed
  <2>2. heap[1] \in PP!Block
    BY <2>1
  <2> QED BY <2>2 DEF PP!Block
<1>2. Len(Forms) = count /\ \A m \in 1 .. count : Forms[m] = FormOf(m)
  BY <1>1 DEF Forms
<1> DEFINE n == fstack[1].walk
<1>3. EP!Verdict(Forms, n)
  BY DEF Evals, EP!WInv
<1> HIDE DEF n
<1>4. n = count /\ ~ EP!EndsInWord(Forms, n) /\ EP!ResultOf(Forms, n)
  BY <1>2, <1>3 DEF EP!Verdict
<1>5. count > 0
  BY <1>1, <1>4 DEF EP!ResultOf, EP!Indeterminate, ReplEval!Indeterminate
<1>6. Forms[count].kind # "word" /\ Forms[count] = FormOf(count)
  BY <1>2, <1>4, <1>5 DEF EP!EndsInWord
<1>7. Forms[count].kind = "data" /\ Forms[count].id = count
  BY <1>6 DEF FormOf
<1>8. result = [type |-> "data", id |-> Forms[count].id]
  BY <1>4, <1>5, <1>7 DEF EP!ResultOf
<1> QED BY <1>1, <1>5, <1>7, <1>8

LEMMA ShownStep ==
    ASSUME DriverInv, Shown, Next \/ UNCHANGED vars
    PROVE  Shown'
<1>1. CASE EvalReturns \/ EvalReturnsGarbage
  <2>1. /\ stage = "eval" /\ pc = "done" /\ UNCHANGED <<heap, result, status, outcome>>
        /\ stage' = "print" => UNCHANGED PP!vars /\ UNCHANGED TP!vars
    BY <1>1 DEF EvalReturns, EvalReturnsGarbage, tokenizervars, parservars, evaluatorvars, PP!vars,
                TP!vars
  <2>2. TokInv /\ ParInv /\ status = "ok" /\ outcome = "ok"
    BY <2>1 DEF DriverInv, Lines, Trees
  <2>3. stage' = "print" => TokInv' /\ ParInv'
    BY <2>1, <2>2, TokInvStep, ParInvStep
  <2>4. result # ReplEval!Indeterminate => Len(heap[1].seq) > 0 /\ result.id = Len(heap[1].seq)
    BY <2>1, LastShown DEF DriverInv
  <2>5. ReplEval!Indeterminate' = ReplEval!Indeterminate
    BY DEF ReplEval!Indeterminate
  <2> QED BY <2>1, <2>2, <2>3, <2>4, <2>5 DEF Shown, Accepted
<1>2. CASE UNCHANGED vars
  <2>1. UNCHANGED <<stage, heap, result, status, outcome>> /\ UNCHANGED PP!vars /\ UNCHANGED TP!vars
    BY <1>2 DEF vars, drivervars, tokenizervars, parservars, evaluatorvars, PP!vars, TP!vars
  <2>2. Accepted => Accepted'
    BY <2>1, TokInvStep, ParInvStep DEF Accepted
  <2>3. ReplEval!Indeterminate' = ReplEval!Indeterminate
    BY DEF ReplEval!Indeterminate
  <2> QED BY <2>1, <2>2, <2>3 DEF Shown
<1>3. CASE Ended
  BY <1>2, <1>3 DEF Ended
<1>4. CASE ReadCharacter \/ AbortCharacter \/ ReadLine \/ ReadEnd \/ ReadFails \/ ReadFile
  BY <1>4 DEF ReadCharacter, AbortCharacter, ReadLine, ReadEnd, ReadFails, ReadFile, Typed,
              StartTokenize, Shown
<1>5. CASE Tokenize \/ TokenizeFails \/ TokenizeAborts \/ StartParse \/ Parse \/ ParseFails
  BY <1>5 DEF Tokenize, TokenizeFails, TokenizeAborts, StartParse, Parse, ParseFails, ToReport,
              drivervars, Shown
<1>6. CASE StartEval \/ Evaluate \/ EvalFails \/ EvalPanics
  BY <1>6 DEF StartEval, Evaluate, EvalFails, EvalPanics, ToReport, drivervars, Shown
<1>7. CASE Report \/ PrintValue
  BY <1>7 DEF Report, PrintValue, Shown
<1> QED BY <1>1, <1>2, <1>3, <1>4, <1>5, <1>6, <1>7 DEF Next

(* What printval() writes for a line is the last item of the line as it    *)
(* was typed, token by token, with one blank between elements, no quotes   *)
(* and the brackets balanced: however deep the item is nested, nothing is  *)
(* lost, added or moved on the way through tokenize(), parse_tokens() and  *)
(* eval_ast(), and no line before it has left anything in it.              *)
THEOREM EchoesProved == Spec => []EchoesLastItem
<1>1. Init => Shown
  BY DEF Init, Shown
<1>2. DriverInv /\ Shown /\ [Next]_vars => Shown'
  BY ShownStep
<1>3. Shown => EchoesLastItem
  <2> SUFFICES ASSUME Shown, stage = "print", result # ReplEval!Indeterminate, P!Spaced
               PROVE  Printed(heap[1].seq[result.id]) = Normalized(LastItem)
    BY DEF EchoesLastItem
  <2>1. Accepted /\ Len(heap[1].seq) > 0 /\ result.id = Len(heap[1].seq)
    BY DEF Shown
  <2>2. LastItem \in TopItems /\ heap[1].seq[Len(heap[1].seq)] = PP!NodeOf(LastItem)
    BY <2>1, LastNode
  <2> QED BY <2>1, <2>2, PrintedIs
<1> QED BY <1>1, <1>2, <1>3, DriverInvariant, PTL DEF Spec

=============================================================================
