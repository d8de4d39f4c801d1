-------------------------- MODULE TokenizerProofs --------------------------
(***************************************************************************)
(* Proofs about Tokenizer, for every set of sources of any length and for  *)
(* both builds.  The inductive invariant adds to the properties what the   *)
(* pending token is: it starts where its slice does and ends at i, and the *)
(* tokens before it tile the source up to its start (IInv).  Three more    *)
(* invariants stand on it: for the verdict (VInv), the brackets (BInv) and *)
(* the texts of the tokens (LInv).                                         *)
(***************************************************************************)
EXTENDS Tokenizer, Integers, FiniteSetTheorems, SequenceTheorems, TLAPS

PendingAtHead ==
    status = "scan" =>
        IF has_token
        THEN /\ Tiles(tokens, tok.src_idx)
             /\ Spans(tok)
             /\ HasSlice(tok)
             /\ slice_begin = tok.src_idx
             /\ End(tok) = i
        ELSE Tiles(tokens, i)

PushedSpan == \A k \in 1 .. Len(tokens) : Spans(tokens[k])

PendingSpans == has_token => Spans(tok)

(* After a success every token is pushed, and after the last character.    *)
DoneTiles == status = "ok" => ~ has_token /\ Tiles(tokens, i)

IInv == TypeOK /\ PendingAtHead /\ PushedSpan /\ PendingSpans /\ DoneTiles

----------------------------------------------------------------------------
(* A token that starts where a tiling ends makes a longer tiling.          *)
LEMMA TilesAppend ==
    ASSUME NEW s \in Seq(Token), NEW n \in Nat, NEW t \in Token,
           Tiles(s, n), t.src_idx = n, t.len > 0
    PROVE  Tiles(Append(s, t), n + t.len)
<1> DEFINE u == Append(s, t)
<1>1. /\ u \in Seq(Token) /\ Len(u) = Len(s) + 1 /\ u[Len(u)] = t
      /\ \A k \in 1 .. Len(s) : u[k] = s[k]
  OBVIOUS
<1>2. t.src_idx \in Nat /\ t.len \in Nat
  BY DEF Token
<1>3. u # <<>> /\ n + t.len # 0
  BY <1>1, <1>2
<1>4. u[1].src_idx = 0
  <2>1. CASE s = <<>>
    BY <2>1, <1>1 DEF Tiles
  <2>2. CASE s # <<>>
    BY <2>2, <1>1 DEF Tiles
  <2> QED BY <2>1, <2>2
<1>5. End(u[Len(u)]) = n + t.len
  BY <1>1 DEF End
<1>6. ASSUME NEW k \in 1 .. Len(u) - 1 PROVE End(u[k]) = u[k + 1].src_idx
  <2>1. CASE k < Len(s)
    BY <2>1, <1>1 DEF Tiles
  <2>2. CASE k = Len(s)
    BY <2>2, <1>1 DEF Tiles
  <2> QED BY <2>1, <2>2, <1>1
<1> QED BY <1>3, <1>4, <1>5, <1>6 DEF Tiles

(* Pushing a token that spans its slice keeps all pushed tokens so.        *)
LEMMA SpansAppend ==
    ASSUME NEW s \in Seq(Token), NEW t \in Token,
           \A k \in 1 .. Len(s) : Spans(s[k]), Spans(t)
    PROVE  \A k \in 1 .. Len(Append(s, t)) : Spans(Append(s, t)[k])
OBVIOUS

(* What emit_token leaves in tokens.                                       *)
LEMMA EmittedFacts ==
    ASSUME IInv, status = "scan"
    PROVE  /\ Emitted \in Seq(Token)
           /\ Tiles(Emitted, i)
           /\ \A k \in 1 .. Len(Emitted) : Spans(Emitted[k])
<1> USE DEF IInv, TypeOK, Emitted
<1>1. CASE has_token
  <2>1. tok.src_idx \in Nat /\ tok.len > 0
    BY <1>1 DEF PendingAtHead, Spans, Token
  <2>2. Tiles(Append(tokens, tok), tok.src_idx + tok.len)
    BY <1>1, <2>1, TilesAppend DEF PendingAtHead
  <2>3. \A k \in 1 .. Len(Append(tokens, tok)) : Spans(Append(tokens, tok)[k])
    BY <1>1, SpansAppend DEF PushedSpan, PendingSpans
  <2> QED BY <1>1, <2>2, <2>3 DEF PendingAtHead, End
<1>2. CASE ~ has_token
  BY <1>2 DEF PendingAtHead, PushedSpan
<1> QED BY <1>1, <1>2

----------------------------------------------------------------------------
(* The four kinds of step, each for any branch of the loop that takes it.  *)

LEMMA PushMarkStep ==
    ASSUME IInv, InLoop, NEW type \in {"open", "close", "quote"}, NEW d \in Nat,
           PushMark(type, d), depth' \in Nat
    PROVE  IInv'
<1> USE DEF InLoop
<1>1. tok' \in Token /\ tok'.src_idx = i /\ tok'.len = 1 /\ tok'.type = type
  <2>1. tok' = [type |-> type, src_idx |-> i, len |-> 1, begin |-> 0, size |-> 0, depth |-> d]
    BY DEF PushMark, ZeroToken
  <2>2. i \in Nat /\ type \in TokenType
    BY DEF IInv, TypeOK, TokenType
  <2> QED BY <2>1, <2>2 DEF Token
<1>2. tokens' = Append(Emitted, tok') /\ has_token' = FALSE /\ i' = i + 1
      /\ UNCHANGED <<src, slice_begin, status, location>>
  BY DEF PushMark
<1>3. Spans(tok')
  BY <1>1 DEF Spans, HasSlice
<1>4. tokens' \in Seq(Token)
  BY <1>1, <1>2, EmittedFacts
<1>5. TypeOK'
  <2>1. has_token' \in BOOLEAN
    BY <1>2
  <2>2. src' \in Seq(Char) /\ i' \in 0 .. Len(src') /\ slice_begin' \in Nat
    BY <1>2 DEF IInv, TypeOK
  <2>3. status' \in {"scan", "ok", "abort"} \cup Errors /\ location' \in [src_idx : Nat, len : Nat]
    BY <1>2 DEF IInv, TypeOK
  <2> QED BY <1>1, <1>4, <2>1, <2>2, <2>3 DEF TypeOK
<1>6. Tiles(tokens', i')
  <2>1. i \in Nat BY DEF IInv, TypeOK
  <2>2. Tiles(Append(Emitted, tok'), i + tok'.len)
    BY <2>1, <1>1, EmittedFacts, TilesAppend
  <2> QED BY <2>2, <1>1, <1>2
<1>7. PendingAtHead'
  BY <1>2, <1>6 DEF PendingAtHead, Tiles, End
<1>8. PushedSpan'
  <2>1. \A k \in 1 .. Len(Append(Emitted, tok')) : Spans(Append(Emitted, tok')[k])
    BY <1>1, <1>3, EmittedFacts, SpansAppend
  <2> QED BY <2>1, <1>2 DEF PushedSpan, Spans, HasSlice
<1>9. PendingSpans' /\ DoneTiles'
  BY <1>2 DEF PendingSpans, DoneTiles
<1> QED BY <1>5, <1>7, <1>8, <1>9 DEF IInv

LEMMA StartTokenStep ==
    ASSUME IInv, InLoop, NEW type \in {"ws", "word", "number"}, StartToken(type)
    PROVE  IInv'
<1> USE DEF InLoop
<1>1. /\ tok' \in Token /\ tok'.src_idx = i /\ tok'.len = 1 /\ tok'.type = type
      /\ tok'.begin = i /\ tok'.size = 1
  <2>1. tok' = [type |-> type, src_idx |-> i, len |-> 1, begin |-> i, size |-> 1, depth |-> 0]
    BY DEF StartToken, ZeroToken
  <2>2. i \in Nat /\ type \in TokenType
    BY DEF IInv, TypeOK, TokenType
  <2> QED BY <2>1, <2>2 DEF Token
<1>2. /\ tokens' = Emitted /\ has_token' = TRUE /\ i' = i + 1 /\ slice_begin' = i
      /\ UNCHANGED <<src, depth, status, location>>
  BY DEF StartToken
<1>3. Spans(tok') /\ HasSlice(tok') /\ End(tok') = i'
  BY <1>1, <1>2 DEF Spans, HasSlice, End
<1>4. TypeOK'
  BY <1>1, <1>2, EmittedFacts DEF IInv, TypeOK
<1>5. PendingAtHead'
  BY <1>1, <1>2, <1>3, EmittedFacts DEF PendingAtHead, Tiles, End, Spans, HasSlice
<1>6. PushedSpan' /\ PendingSpans' /\ DoneTiles'
  BY <1>1, <1>2, <1>3, EmittedFacts DEF PushedSpan, PendingSpans, DoneTiles, Spans, HasSlice
<1> QED BY <1>4, <1>5, <1>6 DEF IInv

LEMMA ExtendTokenStep ==
    ASSUME IInv, InLoop, has_token, NEW type \in {"ws", "word", "number"}, ExtendToken(type)
    PROVE  IInv'
<1> USE DEF InLoop
<1>1. /\ tok \in Token /\ i \in Nat /\ slice_begin = tok.src_idx
      /\ End(tok) = i /\ tok.len > 0 /\ Tiles(tokens, tok.src_idx)
  BY DEF IInv, TypeOK, PendingAtHead, Spans
<1>2. tok.src_idx \in Nat /\ tok.len \in Nat /\ i + 1 - slice_begin = tok.len + 1
  BY <1>1 DEF Token, End
<1>3. /\ tok' \in Token /\ tok'.src_idx = tok.src_idx /\ tok'.len = tok.len + 1
      /\ tok'.type = type /\ tok'.begin = tok.src_idx /\ tok'.size = tok.len + 1
  <2>1. tok' = [type |-> type, src_idx |-> tok.src_idx, len |-> tok.len + 1,
                begin |-> tok.src_idx, size |-> tok.len + 1, depth |-> tok.depth]
    BY <1>1, <1>2 DEF ExtendToken, Token
  <2>2. type \in TokenType /\ tok.depth \in Nat
    BY <1>1 DEF TokenType, Token
  <2> QED BY <1>2, <2>1, <2>2 DEF Token
<1>4. i' = i + 1 /\ UNCHANGED <<src, tokens, has_token, slice_begin, depth, status, location>>
  BY DEF ExtendToken
<1>5. Spans(tok') /\ HasSlice(tok') /\ End(tok') = i'
  BY <1>1, <1>2, <1>3, <1>4 DEF Spans, HasSlice, End
<1>6. TypeOK'
  BY <1>3, <1>4 DEF IInv, TypeOK
<1>7. PendingAtHead'
  BY <1>1, <1>3, <1>4, <1>5 DEF PendingAtHead, Tiles, End, Spans, HasSlice
<1>8. PushedSpan' /\ PendingSpans' /\ DoneTiles'
  BY <1>4, <1>5 DEF IInv, PushedSpan, PendingSpans, DoneTiles, Spans, HasSlice
<1> QED BY <1>6, <1>7, <1>8 DEF IInv

LEMMA FailStep ==
    ASSUME IInv, InLoop \/ status = "scan", NEW error \in Errors,
           NEW at \in Nat, NEW length \in Nat, Fail(error, at, length)
    PROVE  IInv'
<1>1. /\ status' = error /\ tokens' = <<>> /\ location' = [src_idx |-> at, len |-> length]
      /\ UNCHANGED <<src, i, tok, has_token, slice_begin, depth>>
  BY DEF Fail
<1>2. error \notin {"scan", "ok"}
  BY DEF Errors
<1>3. TypeOK'
  BY <1>1 DEF IInv, TypeOK
<1>4. PendingAtHead' /\ DoneTiles'
  BY <1>1, <1>2 DEF PendingAtHead, DoneTiles
<1>5. PushedSpan' /\ PendingSpans'
  BY <1>1 DEF IInv, PushedSpan, PendingSpans, Spans, HasSlice
<1> QED BY <1>3, <1>4, <1>5 DEF IInv

----------------------------------------------------------------------------
LEMMA InitIInv == Init => IInv
<1> SUFFICES ASSUME Init PROVE IInv
  OBVIOUS
<1>1. TypeOK
  <2>1. ZeroToken \in Token
    BY DEF ZeroToken, Token, TokenType
  <2>2. src \in Seq(Char)
    BY SourcesAssumption DEF Init
  <2>3. has_token \in BOOLEAN
    BY DEF Init
  <2>4. i \in 0 .. Len(src) /\ tokens \in Seq(Token) /\ tok \in Token
    BY <2>1, <2>2 DEF Init
  <2>5. location \in [src_idx : Nat, len : Nat]
    BY DEF Init
  <2>6. slice_begin \in Nat /\ depth \in Nat /\ status \in {"scan", "ok", "abort"}
    BY DEF Init
  <2> QED BY <2>2, <2>3, <2>4, <2>5, <2>6 DEF TypeOK
<1>2. Tiles(<<>>, 0)
  BY DEF Tiles
<1> QED BY <1>1, <1>2 DEF Init, IInv, PendingAtHead, PushedSpan, PendingSpans, DoneTiles

LEMMA NextIInv == IInv /\ [Next]_vars => IInv'
<1> SUFFICES ASSUME IInv, [Next]_vars PROVE IInv'
  OBVIOUS
<1>t. i \in Nat /\ depth \in Nat /\ src \in Seq(Char) /\ i \in 0 .. Len(src)
  BY DEF IInv, TypeOK
<1>1. CASE ScanOpen
  BY <1>1, <1>t, PushMarkStep DEF ScanOpen, Scanning
<1>2. CASE ScanClose
  BY <1>2, <1>t, PushMarkStep DEF ScanClose, Scanning
<1>3. CASE ScanQuote
  BY <1>3, <1>t, PushMarkStep DEF ScanQuote, Scanning
<1>4. CASE ScanWhitespace
  BY <1>4, StartTokenStep, ExtendTokenStep DEF ScanWhitespace, Scanning
<1>5. CASE ScanDigit
  BY <1>5, StartTokenStep, ExtendTokenStep DEF ScanDigit, Scanning, Punnable
<1>6. CASE ScanPoint
  BY <1>6, ExtendTokenStep DEF ScanPoint, Scanning, ContinuesNumber
<1>7. CASE ScanWordRest
  BY <1>7, ExtendTokenStep DEF ScanWordRest
<1>8. CASE ScanWordFirst
  BY <1>8, StartTokenStep DEF ScanWordFirst
<1>9. CASE RejectClose \/ RejectLastQuote \/ RejectQuote \/ RejectCharacter \/ RejectUnclosed
  BY <1>9, <1>t, FailStep
  DEF RejectClose, RejectLastQuote, RejectQuote, RejectCharacter, RejectUnclosed,
      Scanning, Errors
<1>10. CASE AbortNonAscii
  <2>1. /\ status' = "abort"
        /\ UNCHANGED <<src, i, tokens, tok, has_token, slice_begin, depth, location>>
    BY <1>10 DEF AbortNonAscii
  <2>2. TypeOK'
    BY <2>1 DEF IInv, TypeOK
  <2>3. PendingAtHead' /\ DoneTiles'
    BY <2>1 DEF PendingAtHead, DoneTiles
  <2>4. PushedSpan' /\ PendingSpans'
    BY <2>1 DEF IInv, PushedSpan, PendingSpans, Spans, HasSlice
  <2> QED BY <2>2, <2>3, <2>4 DEF IInv
<1>11. CASE Finish
  <2>1. /\ tokens' = Emitted /\ has_token' = FALSE /\ status' = "ok" /\ status = "scan"
        /\ UNCHANGED <<src, i, tok, slice_begin, depth, location>>
    BY <1>11 DEF Finish
  <2>2. TypeOK'
    BY <2>1, EmittedFacts DEF IInv, TypeOK
  <2>3. PendingAtHead' /\ PendingSpans'
    BY <2>1 DEF PendingAtHead, PendingSpans
  <2>4. PushedSpan' /\ DoneTiles'
    BY <2>1, EmittedFacts DEF PushedSpan, DoneTiles, Spans, HasSlice, Tiles, End
  <2> QED BY <2>2, <2>3, <2>4 DEF IInv
<1>12. CASE UNCHANGED vars
  BY <1>12 DEF vars, IInv, TypeOK, PendingAtHead, PushedSpan, PendingSpans, DoneTiles,
     Tiles, End, Spans, HasSlice
<1> QED BY <1>1, <1>2, <1>3, <1>4, <1>5, <1>6, <1>7, <1>8, <1>9, <1>10, <1>11, <1>12
        DEF Next, Returned

THEOREM Invariance == Spec => []IInv
BY InitIInv, NextIInv, PTL DEF Spec

----------------------------------------------------------------------------
(* tokenize() never indexes past the source, and its variables keep their  *)
(* types, for sources of any length.                                       *)
THEOREM TypeCorrect == Spec => []TypeOK
<1>1. IInv => TypeOK
  BY DEF IInv
<1> QED BY <1>1, Invariance, PTL

(* The tokens tile the source that has been read: tokenize() neither loses *)
(* a character nor reads one into two tokens.                              *)
THEOREM TilesSource == Spec => []TokensTile
<1>1. IInv => TokensTile
  <2>1. CASE status = "scan"
    BY <2>1, EmittedFacts DEF TokensTile, Stream
  <2>2. CASE status = "ok"
    BY <2>2 DEF IInv, DoneTiles, TokensTile, Stream, Emitted
  <2> QED BY <2>1, <2>2 DEF TokensTile
<1> QED BY <1>1, Invariance, PTL

(* The slice that the parser reads of a token is the span where the token  *)
(* stands in the source.                                                   *)
THEOREM SlicesSpan == Spec => []SliceIsSpan
<1>1. ASSUME IInv PROVE SliceIsSpan
  <2>1. CASE has_token
    BY <1>1, <2>1, SpansAppend
    DEF IInv, TypeOK, SliceIsSpan, Stream, Emitted, PushedSpan, PendingSpans
  <2>2. CASE ~ has_token
    BY <1>1, <2>2 DEF IInv, SliceIsSpan, Stream, Emitted, PushedSpan
  <2> QED BY <2>1, <2>2
<1> QED BY <1>1, Invariance, PTL

----------------------------------------------------------------------------
(* The verdict.  What has been scanned holds no offence, and depth counts  *)
(* the brackets opened and not closed in it.                               *)

Balance == depth + CountIn(i, "]") = CountIn(i, "[")

NoPlace == location = [src_idx |-> 0, len |-> 0]

VInv ==
    /\ Balance
    /\ status = "scan" => Clean(i) /\ NoPlace
    /\ VerdictCorrect

(* One more character adds one to the count of its own class only.         *)
LEMMA CountNext ==
    ASSUME NEW n \in Nat, NEW c
    PROVE  /\ CountIn(n, c) \in Nat
           /\ src[n + 1] = c => CountIn(n + 1, c) = CountIn(n, c) + 1
           /\ src[n + 1] # c => CountIn(n + 1, c) = CountIn(n, c)
<1> DEFINE K(m) == {k \in 1 .. m : src[k] = c}
<1>1. IsFiniteSet(K(n))
  <2>1. IsFiniteSet(1 .. n) /\ K(n) \in SUBSET (1 .. n)
    BY FS_Interval
  <2> QED BY <2>1, FS_Subset
<1>2. Cardinality(K(n)) \in Nat
  BY <1>1, FS_CardinalityType
<1>3. CASE src[n + 1] = c
  <2>1. K(n + 1) = K(n) \cup {n + 1} /\ n + 1 \notin K(n)
    BY <1>3
  <2>2. Cardinality(K(n) \cup {n + 1}) = Cardinality(K(n)) + 1
    BY <1>1, <2>1, FS_AddElement
  <2> QED BY <1>2, <1>3, <2>1, <2>2 DEF CountIn
<1>4. CASE src[n + 1] # c
  <2>1. K(n + 1) = K(n)
    BY <1>4
  <2> QED BY <1>2, <1>4, <2>1 DEF CountIn
<1> QED BY <1>3, <1>4

(* What the verdict is about does not change while tokenize() runs.        *)
LEMMA SourceStays ==
    ASSUME src' = src
    PROVE  /\ \A n, c : CountIn(n, c)' = CountIn(n, c)
           /\ \A k, build, error : (Offence(k, build, error)' <=> Offence(k, build, error))
<1>1. \A n, c : CountIn(n, c)' = CountIn(n, c)
  BY DEF CountIn
<1>2. ASSUME NEW k, NEW build, NEW error
      PROVE  Offence(k, build, error)' <=> Offence(k, build, error)
  <2>1. CountIn(k, "[")' = CountIn(k, "[") /\ CountIn(k, "]")' = CountIn(k, "]")
    BY <1>1
  <2> QED BY <2>1 DEF Offence
<1> QED BY <1>1, <1>2

(* The depth follows the character.                                        *)
DepthStep ==
    /\ src[i + 1] = "[" => depth' = depth + 1
    /\ src[i + 1] = "]" => depth = depth' + 1
    /\ src[i + 1] \notin {"[", "]"} => depth' = depth

LEMMA BalanceStep ==
    ASSUME i \in Nat, depth \in Nat, depth' \in Nat, Balance,
           src' = src, i' = i + 1, DepthStep
    PROVE  Balance'
<1>1. CountIn(i, "[")' = CountIn(i + 1, "[") /\ CountIn(i, "]")' = CountIn(i + 1, "]")
  BY SourceStays
<1>2. CountIn(i, "[") \in Nat /\ CountIn(i, "]") \in Nat
  BY CountNext
<1>3. depth' + CountIn(i + 1, "]") = CountIn(i + 1, "[")
  <2>1. CASE src[i + 1] = "["
    <3>1. CountIn(i + 1, "[") = CountIn(i, "[") + 1 /\ CountIn(i + 1, "]") = CountIn(i, "]")
      BY <2>1, CountNext
    <3>2. depth' = depth + 1
      BY <2>1 DEF DepthStep
    <3> QED BY <1>2, <3>1, <3>2 DEF Balance
  <2>2. CASE src[i + 1] = "]"
    <3>1. CountIn(i + 1, "[") = CountIn(i, "[") /\ CountIn(i + 1, "]") = CountIn(i, "]") + 1
      BY <2>2, CountNext
    <3>2. depth = depth' + 1
      BY <2>2 DEF DepthStep
    <3> QED BY <1>2, <3>1, <3>2 DEF Balance
  <2>3. CASE src[i + 1] \notin {"[", "]"}
    <3>1. CountIn(i + 1, "[") = CountIn(i, "[") /\ CountIn(i + 1, "]") = CountIn(i, "]")
      BY <2>3, CountNext
    <3>2. depth' = depth
      BY <2>3 DEF DepthStep
    <3> QED BY <3>1, <3>2 DEF Balance
  <2> QED BY <2>1, <2>2, <2>3
<1> QED BY <1>1, <1>3 DEF Balance

(* A step to the next character, over one that is no offence.              *)
LEMMA CleanStep ==
    ASSUME IInv, VInv, InLoop, src' = src, i' = i + 1, status' = status, location' = location,
           depth' \in Nat, DepthStep,
           \A build \in Builds, error \in Errors \cup {"abort"} : ~ Offence(i, build, error)
    PROVE  VInv'
<1>1. i \in Nat /\ depth \in Nat /\ status = "scan"
  BY DEF IInv, TypeOK, InLoop
<1>2. Balance'
  BY <1>1, BalanceStep DEF VInv
<1>3. Clean(i)'
  <2>1. ASSUME NEW k \in 0 .. i, NEW build \in Builds, NEW error \in Errors \cup {"abort"}
        PROVE  ~ Offence(k, build, error)
    <3>1. CASE k = i
      BY <3>1
    <3>2. CASE k # i
      BY <3>2, <1>1 DEF VInv, Clean
    <3> QED BY <3>1, <3>2
  <2> QED BY <1>1, <2>1, SourceStays DEF Clean
<1>4. VerdictCorrect'
  BY <1>1 DEF VerdictCorrect
<1>5. NoPlace'
  BY <1>1 DEF VInv, NoPlace
<1> QED BY <1>1, <1>2, <1>3, <1>4, <1>5 DEF VInv

(* A step that ends the scan at an offence.                                *)
LEMMA OffenceStep ==
    ASSUME IInv, VInv, InLoop, NEW error \in Errors \cup {"abort"},
           UNCHANGED <<src, i, depth>>, status' = error,
           \E build \in Builds : Offence(i, build, error),
           error # "abort" => tokens' = <<>>,
           location'.len > 0 => location'.src_idx = i /\ i + location'.len <= Len(src)
    PROVE  VInv'
<1>1. i < Len(src) /\ error # "scan" /\ status = "scan"
  BY DEF InLoop, Errors
<1>2. Balance'
  BY SourceStays DEF VInv, Balance
<1>3. Clean(i)'
  BY <1>1, SourceStays DEF VInv, Clean
<1>4. Verdict(error, i)'
  BY <1>1, <1>3, SourceStays DEF Verdict
<1>5. status' \in Errors => tokens' = <<>>
  BY DEF Errors
<1>6. VerdictCorrect'
  BY <1>4, <1>5 DEF VerdictCorrect
<1> QED BY <1>1, <1>2, <1>6 DEF VInv

LEMMA LenTyped == IInv => Len(src) \in Nat
BY DEF IInv, TypeOK

LEMMA CountersTyped == IInv => i \in Nat /\ depth \in Nat
BY DEF IInv, TypeOK

(* At the end of a source that is clean, the depth decides.                *)
LEMMA EndVerdict ==
    ASSUME i \in Nat, depth \in Nat, Balance, Clean(i), i = Len(src)
    PROVE  /\ depth = 0 => Verdict("ok", i)
           /\ depth # 0 => Verdict("too many opening brackets", i)
<1>1. CountIn(i, "[") \in Nat /\ CountIn(i, "]") \in Nat
  BY CountNext
<1>2. depth = 0 <=> CountIn(i, "[") = CountIn(i, "]")
  BY <1>1 DEF Balance
<1>3. ASSUME depth = 0 PROVE Verdict("ok", i)
  BY <1>2, <1>3 DEF Verdict
<1>4. ASSUME depth # 0 PROVE Verdict("too many opening brackets", i)
  BY <1>2, <1>4 DEF Verdict
<1> QED BY <1>3, <1>4

(* The end of the source.                                                  *)
LEMMA EndStep ==
    ASSUME IInv, VInv, status = "scan", i = Len(src), UNCHANGED <<src, i, depth>>,
           NEW error \in {"ok", "too many opening brackets"}, status' = error,
           error = "ok" <=> depth = 0,
           error # "ok" => tokens' = <<>>, ~ (location'.len > 0)
    PROVE  VInv'
<1>1. i \in Nat /\ depth \in Nat
  BY CountersTyped
<1>2. Balance'
  BY SourceStays DEF VInv, Balance
<1>3. Verdict(error, i)
  BY <1>1, EndVerdict DEF VInv
<1>4. Verdict(error, i)'
  BY <1>3, SourceStays DEF Verdict, Clean
<1>5. status' \in Errors => tokens' = <<>>
  BY DEF Errors
<1>6. VerdictCorrect'
  BY <1>4, <1>5 DEF VerdictCorrect
<1> QED BY <1>2, <1>6 DEF VInv

(* A character that no branch rejects is no offence, nor is a bracket that *)
(* closes one or a quote before a word.                                    *)
LEMMA PlainClean ==
    ASSUME src[i + 1] \in {"[", " ", "0", ".", "-", "a"}
    PROVE  \A build, error : ~ Offence(i, build, error)
BY DEF Offence

LEMMA CloseClean ==
    ASSUME i \in Nat, depth \in Nat, depth > 0, Balance, src[i + 1] = "]"
    PROVE  \A build, error : ~ Offence(i, build, error)
<1>1. CountIn(i, "[") \in Nat /\ CountIn(i, "]") \in Nat
  BY CountNext
<1>2. ~ (CountIn(i, "[") <= CountIn(i, "]"))
  BY <1>1 DEF Balance
<1> QED BY <1>2 DEF Offence

LEMMA QuoteClean ==
    ASSUME src[i + 1] = "'", i + 1 # Len(src), IsWordFirst(src[i + 2])
    PROVE  \A build, error : ~ Offence(i, build, error)
BY DEF Offence, IsWordFirst

(* Every branch that reads a character, as a step of the verdict.          *)
LEMMA ScanVInv ==
    ASSUME IInv, VInv,
           \/ ScanOpen \/ ScanClose \/ ScanQuote \/ ScanWhitespace \/ ScanDigit
           \/ ScanPoint \/ ScanWordRest \/ ScanWordFirst
    PROVE  VInv'
<1>t. i \in Nat /\ depth \in Nat /\ Balance
  BY CountersTyped DEF VInv
<1>1. CASE ScanOpen
  <2>1. src' = src /\ i' = i + 1 /\ status' = status /\ location' = location
        /\ depth' = depth + 1 /\ InLoop /\ src[i + 1] = "["
    BY <1>1 DEF ScanOpen, Scanning, PushMark
  <2>2. DepthStep /\ depth' \in Nat
    BY <1>t, <2>1 DEF DepthStep
  <2> QED BY <2>1, <2>2, PlainClean, CleanStep
<1>2. CASE ScanClose
  <2>1. src' = src /\ i' = i + 1 /\ status' = status /\ location' = location
        /\ depth' = depth - 1 /\ depth > 0 /\ InLoop /\ src[i + 1] = "]"
    BY <1>2 DEF ScanClose, Scanning, PushMark
  <2>2. DepthStep /\ depth' \in Nat
    BY <1>t, <2>1 DEF DepthStep
  <2> QED BY <1>t, <2>1, <2>2, CloseClean, CleanStep
<1>3. CASE ScanQuote
  <2>1. src' = src /\ i' = i + 1 /\ status' = status /\ location' = location
        /\ depth' = depth /\ InLoop /\ src[i + 1] = "'"
        /\ i + 1 < Len(src) /\ IsWordFirst(src[i + 2])
    BY <1>3 DEF ScanQuote, Scanning, PushMark
  <2>2. DepthStep /\ depth' \in Nat
    BY <1>t, <2>1 DEF DepthStep
  <2>3. i + 1 # Len(src)
    BY <2>1
  <2> QED BY <2>1, <2>2, <2>3, QuoteClean, CleanStep
<1>4. CASE ScanWhitespace \/ ScanDigit \/ ScanPoint \/ ScanWordRest \/ ScanWordFirst
  <2>1. src' = src /\ i' = i + 1 /\ status' = status /\ location' = location
        /\ depth' = depth
    BY <1>4 DEF ScanWhitespace, ScanDigit, ScanPoint, ScanWordRest, ScanWordFirst,
                StartToken, ExtendToken
  <2>2. InLoop /\ src[i + 1] \in {" ", "0", ".", "-", "a"}
    BY <1>4 DEF ScanWhitespace, ScanDigit, ScanPoint, ScanWordRest, ScanWordFirst,
                Scanning, IsWordRest, IsWordFirst
  <2>3. DepthStep /\ depth' \in Nat
    BY <1>t, <2>1, <2>2 DEF DepthStep
  <2> QED BY <2>1, <2>2, <2>3, PlainClean, CleanStep
<1> QED BY <1>1, <1>2, <1>3, <1>4

(* Every branch that ends the scan on a character.                         *)
LEMMA RejectVInv ==
    ASSUME IInv, VInv,
           RejectClose \/ RejectLastQuote \/ RejectQuote \/ RejectCharacter \/ AbortNonAscii
    PROVE  VInv'
<1>t. i \in Nat /\ depth \in Nat /\ Balance
  BY CountersTyped DEF VInv
<1>f. ASSUME NEW error \in Errors, NEW length \in Nat, InLoop, Fail(error, i, length),
             i + length <= Len(src), \E build \in Builds : Offence(i, build, error)
      PROVE  VInv'
  <2>1. UNCHANGED <<src, i, depth>> /\ status' = error /\ tokens' = <<>>
        /\ location' = [src_idx |-> i, len |-> length]
    BY <1>f DEF Fail
  <2>2. location'.len > 0 => location'.src_idx = i /\ i + location'.len <= Len(src)
    BY <2>1, <1>f
  <2> QED BY <1>f, <2>1, <2>2, OffenceStep
<1>l. ASSUME InLoop PROVE i + 1 <= Len(src)
  BY <1>t, <1>l, LenTyped DEF InLoop
<1>b. PICK build \in Builds : build \in {"debug", "release"}
  BY BuildsAssumption
<1>1. CASE RejectClose
  <2>1. InLoop /\ src[i + 1] = "]" /\ depth = 0 /\ Fail("extra closing bracket", i, 1)
    BY <1>1 DEF RejectClose, Scanning
  <2>2. CountIn(i, "[") <= CountIn(i, "]")
    <3>1. CountIn(i, "[") \in Nat /\ CountIn(i, "]") \in Nat /\ depth = 0
      BY <1>t, <2>1, CountNext
    <3> QED BY <1>t, <3>1 DEF Balance
  <2>3. Offence(i, build, "extra closing bracket")
    BY <2>1, <2>2 DEF Offence
  <2> QED BY <1>f, <1>l, <2>1, <2>3 DEF Errors
<1>2. CASE RejectLastQuote
  <2>1. InLoop /\ src[i + 1] = "'" /\ i + 1 = Len(src) /\ Fail("standalone quote", i, 1)
    BY <1>2 DEF RejectLastQuote, Scanning
  <2>2. Offence(i, build, "standalone quote")
    BY <2>1 DEF Offence
  <2> QED BY <1>f, <1>l, <2>1, <2>2 DEF Errors
<1>3. CASE RejectQuote
  <2>1. InLoop /\ src[i + 1] = "'" /\ i + 1 < Len(src) /\ ~ IsWordFirst(src[i + 2])
        /\ Passes(src[i + 2]) /\ Fail("quote without word", i, 2)
    BY <1>3 DEF RejectQuote, Scanning
  <2>2. i + 1 # Len(src) /\ i + 2 <= Len(src)
    <3>1. i \in Nat /\ Len(src) \in Nat /\ i + 1 < Len(src)
      BY <1>t, <2>1, LenTyped
    <3> QED BY <3>1
  <2>3. src[i + 2] \notin {"a", "-", "."}
    BY <2>1 DEF IsWordFirst
  <2>4. \E b \in Builds : ~ (b = "debug" /\ src[i + 2] = "hi")
    BY <2>1, <1>b DEF Passes
  <2>5. \E b \in Builds : Offence(i, b, "quote without word")
    BY <2>1, <2>2, <2>3, <2>4 DEF Offence
  <2> QED BY <1>f, <2>1, <2>2, <2>5 DEF Errors
<1>4. CASE RejectCharacter
  <2>1. InLoop /\ Fail("unexpected character", i, 1)
        /\ (src[i + 1] = "~" \/ (src[i + 1] = "hi" /\ "release" \in Builds))
    BY <1>4 DEF RejectCharacter, Scanning, Passes
  <2>2. \E b \in Builds : Offence(i, b, "unexpected character")
    BY <2>1, <1>b DEF Offence
  <2> QED BY <1>f, <1>l, <2>1, <2>2 DEF Errors
<1>5. CASE AbortNonAscii
  <2>1. UNCHANGED <<src, i, tokens, depth, location>> /\ status' = "abort" /\ InLoop
        /\ "debug" \in Builds
        /\ (src[i + 1] = "hi" \/ (src[i + 1] = "'" /\ i + 1 < Len(src) /\ src[i + 2] = "hi"))
    BY <1>5 DEF AbortNonAscii, Scanning
  <2>2. Offence(i, "debug", "abort")
    BY <1>t, <2>1, LenTyped DEF Offence
  <2>3. location'.len = 0
    BY <2>1 DEF VInv, NoPlace, InLoop
  <2>4. ~ (location'.len > 0)
    BY <2>3
  <2> QED BY <2>1, <2>2, <2>4, OffenceStep
<1> QED BY <1>1, <1>2, <1>3, <1>4, <1>5

LEMMA NextVInv == IInv /\ VInv /\ [Next]_vars => VInv'
<1> SUFFICES ASSUME IInv, VInv, [Next]_vars PROVE VInv'
  OBVIOUS
<1>1. CASE RejectUnclosed
  <2>1. UNCHANGED <<src, i, depth>> /\ status' = "too many opening brackets" /\ depth # 0
        /\ tokens' = <<>> /\ location' = [src_idx |-> 0, len |-> 0]
        /\ status = "scan" /\ i = Len(src)
    BY <1>1 DEF RejectUnclosed, Fail
  <2>2. location'.len = 0
    BY <2>1
  <2>3. ~ (location'.len > 0)
    BY <2>2
  <2> QED BY <2>1, <2>3, EndStep
<1>2. CASE Finish
  <2>1. UNCHANGED <<src, i, depth, location>> /\ status' = "ok" /\ depth = 0
        /\ status = "scan" /\ i = Len(src)
    BY <1>2 DEF Finish
  <2>2. location'.len = 0
    BY <2>1 DEF VInv, NoPlace
  <2>3. ~ (location'.len > 0)
    BY <2>2
  <2> QED BY <2>1, <2>3, EndStep
<1>3. CASE UNCHANGED vars
  <2>1. UNCHANGED <<src, i, tokens, depth, status, location>>
    BY <1>3 DEF vars
  <2>2. Balance' /\ (status = "scan" => Clean(i) /\ NoPlace)'
    BY <2>1, SourceStays DEF VInv, Balance, Clean, NoPlace
  <2>3. Verdict(status, i)' <=> Verdict(status, i)
    BY <2>1, SourceStays DEF Verdict, Clean
  <2>4. VerdictCorrect'
    BY <2>1, <2>3 DEF VInv, VerdictCorrect
  <2> QED BY <2>2, <2>4 DEF VInv
<1> QED BY <1>1, <1>2, <1>3, ScanVInv, RejectVInv DEF Next, Returned

LEMMA InitVInv == Init => VInv
<1> SUFFICES ASSUME Init PROVE VInv
  OBVIOUS
<1>1. \A c : CountIn(0, c) = 0
  BY FS_EmptySet DEF CountIn
<1>2. Balance /\ Clean(i) /\ NoPlace
  BY <1>1 DEF Init, Balance, Clean, NoPlace
<1> QED BY <1>2 DEF Init, VInv, VerdictCorrect

(* The verdict on a source is a function of its text: tokenize() accepts   *)
(* it exactly when no character of it is an offence and its brackets       *)
(* balance, and otherwise reports the first offence, where it is, with the *)
(* tokens freed.                                                           *)
THEOREM VerdictProved == Spec => []VerdictCorrect
<1>1. VInv => VerdictCorrect
  BY DEF VInv
<1> QED BY <1>1, InitVInv, NextVInv, Invariance, PTL DEF Spec

----------------------------------------------------------------------------
(* The nesting.  Of a sequence of tokens and the depth reached: a bracket  *)
(* is open at j while every later one is deeper; each depth up to d is     *)
(* that of an open bracket; every closing bracket has its mate, and every  *)
(* opening one has it or is open.                                          *)

Mated(s, j, k) ==
    /\ s[j].type = "open" /\ s[k].type = "close"
    /\ s[j].depth = s[k].depth
    /\ \A m \in j + 1 .. k - 1 : IsBracket(s[m]) => s[m].depth > s[j].depth

OpenAt(s, j) ==
    /\ s[j].type = "open"
    /\ \A m \in j + 1 .. Len(s) : IsBracket(s[m]) => s[m].depth > s[j].depth

ClosesMated(s) ==
    \A k \in 1 .. Len(s) : s[k].type = "close" => \E j \in 1 .. k - 1 : Mated(s, j, k)

OpensMated(s, d) ==
    \A j \in 1 .. Len(s) : s[j].type = "open" =>
        \/ \E k \in j + 1 .. Len(s) : Mated(s, j, k)
        \/ s[j].depth \in 1 .. d /\ OpenAt(s, j)

DepthsOpen(s, d) ==
    \A e \in 1 .. d : \E j \in 1 .. Len(s) : s[j].depth = e /\ OpenAt(s, j)

Nested(s, d) == ClosesMated(s) /\ OpensMated(s, d) /\ DepthsOpen(s, d)

BInv ==
    /\ status \in {"scan", "ok", "abort"} => Nested(tokens, depth)
    /\ status = "ok" => depth = 0
    /\ status \in Errors => tokens = <<>>

(* One more token: what stays.                                             *)
LEMMA NestedAppend ==
    ASSUME NEW s \in Seq(Token), NEW t \in Token
    PROVE  /\ Append(s, t) \in Seq(Token) /\ Len(Append(s, t)) = Len(s) + 1
           /\ \A k \in 1 .. Len(s) : Append(s, t)[k] = s[k]
           /\ Append(s, t)[Len(s) + 1] = t
           /\ \A k \in 1 .. Len(s), j \in 1 .. Len(s) :
                 Mated(s, j, k) => Mated(Append(s, t), j, k)
           /\ \A j \in 1 .. Len(s) :
                 OpenAt(s, j) /\ (IsBracket(t) => t.depth > s[j].depth) => OpenAt(Append(s, t), j)
           /\ \A j \in 1 .. Len(s) :
                 OpenAt(s, j) /\ t.type = "close" /\ t.depth = s[j].depth
                   => Mated(Append(s, t), j, Len(s) + 1)
<1> DEFINE u == Append(s, t)
<1>1. u \in Seq(Token) /\ Len(u) = Len(s) + 1 /\ u[Len(s) + 1] = t
      /\ \A k \in 1 .. Len(s) : u[k] = s[k]
  OBVIOUS
<1>2. Len(s) \in Nat
  OBVIOUS
<1> HIDE DEF u
<1>3. ASSUME NEW k \in 1 .. Len(s), NEW j \in 1 .. Len(s), Mated(s, j, k)
      PROVE  Mated(u, j, k)
  <2>1. \A m \in j + 1 .. k - 1 : m \in 1 .. Len(s)
    BY <1>2
  <2> QED BY <1>1, <1>3, <2>1 DEF Mated
<1>4. ASSUME NEW j \in 1 .. Len(s), OpenAt(s, j), IsBracket(t) => t.depth > s[j].depth
      PROVE  OpenAt(u, j)
  <2>1. ASSUME NEW m \in j + 1 .. Len(s) + 1, IsBracket(u[m]) PROVE u[m].depth > u[j].depth
    <3>1. CASE m = Len(s) + 1
      BY <3>1, <2>1, <1>1, <1>4
    <3>2. CASE m # Len(s) + 1
      <4>1. m \in j + 1 .. Len(s) /\ m \in 1 .. Len(s)
        BY <3>2, <1>2
      <4> QED BY <4>1, <2>1, <1>1, <1>4 DEF OpenAt
    <3> QED BY <3>1, <3>2
  <2> QED BY <2>1, <1>1, <1>4 DEF OpenAt
<1>5. ASSUME NEW j \in 1 .. Len(s), OpenAt(s, j), t.type = "close", t.depth = s[j].depth
      PROVE  Mated(u, j, Len(s) + 1)
  <2>1. ASSUME NEW m \in j + 1 .. Len(s) + 1 - 1, IsBracket(u[m]) PROVE u[m].depth > u[j].depth
    <3>1. m \in j + 1 .. Len(s) /\ m \in 1 .. Len(s)
      BY <1>2
    <3> QED BY <3>1, <2>1, <1>1, <1>5 DEF OpenAt
  <2> QED BY <2>1, <1>1, <1>5 DEF OpenAt, Mated
<1> QED BY <1>1, <1>3, <1>4, <1>5 DEF u

LEMMA NestedOther ==
    ASSUME NEW s \in Seq(Token), NEW t \in Token, NEW d \in Nat, Nested(s, d), ~ IsBracket(t)
    PROVE  Nested(Append(s, t), d)
<1> DEFINE u == Append(s, t)
<1>1. u \in Seq(Token) /\ Len(u) = Len(s) + 1 /\ u[Len(s) + 1] = t
      /\ (\A k \in 1 .. Len(s) : u[k] = s[k])
      /\ (\A k \in 1 .. Len(s), j \in 1 .. Len(s) : Mated(s, j, k) => Mated(u, j, k))
      /\ (\A j \in 1 .. Len(s) : OpenAt(s, j) => OpenAt(u, j))
      /\ Len(s) \in Nat
  BY NestedAppend
<1>2. t.type # "open" /\ t.type # "close"
  BY DEF IsBracket
<1> HIDE DEF u
<1>3. ClosesMated(u)
  <2> SUFFICES ASSUME NEW k \in 1 .. Len(u), u[k].type = "close"
               PROVE  \E j \in 1 .. k - 1 : Mated(u, j, k)
    BY DEF ClosesMated
  <2>1. k \in 1 .. Len(s)
    BY <1>1, <1>2
  <2>2. PICK j \in 1 .. k - 1 : Mated(s, j, k)
    BY <1>1, <2>1 DEF Nested, ClosesMated
  <2>3. j \in 1 .. Len(s)
    BY <1>1, <2>1
  <2> QED BY <1>1, <2>1, <2>2, <2>3
<1>4. OpensMated(u, d)
  <2> SUFFICES ASSUME NEW j \in 1 .. Len(u), u[j].type = "open"
               PROVE  \/ \E k \in j + 1 .. Len(u) : Mated(u, j, k)
                      \/ u[j].depth \in 1 .. d /\ OpenAt(u, j)
    BY DEF OpensMated
  <2>1. j \in 1 .. Len(s)
    BY <1>1, <1>2
  <2>2. CASE \E k \in j + 1 .. Len(s) : Mated(s, j, k)
    <3>1. PICK k \in j + 1 .. Len(s) : Mated(s, j, k)
      BY <2>2
    <3>2. k \in 1 .. Len(s) /\ k \in j + 1 .. Len(u)
      BY <1>1, <2>1
    <3> QED BY <1>1, <2>1, <3>1, <3>2
  <2>3. CASE s[j].depth \in 1 .. d /\ OpenAt(s, j)
    BY <1>1, <2>1, <2>3
  <2> QED BY <1>1, <2>1, <2>2, <2>3 DEF Nested, OpensMated
<1>5. DepthsOpen(u, d)
  <2> SUFFICES ASSUME NEW e \in 1 .. d
               PROVE  \E j \in 1 .. Len(u) : u[j].depth = e /\ OpenAt(u, j)
    BY DEF DepthsOpen
  <2>1. PICK j \in 1 .. Len(s) : s[j].depth = e /\ OpenAt(s, j)
    BY DEF Nested, DepthsOpen
  <2>2. j \in 1 .. Len(u)
    BY <1>1
  <2> QED BY <1>1, <2>1, <2>2
<1> QED BY <1>3, <1>4, <1>5 DEF Nested, u

LEMMA NestedOpen ==
    ASSUME NEW s \in Seq(Token), NEW t \in Token, NEW d \in Nat, Nested(s, d),
           t.type = "open", t.depth = d + 1
    PROVE  Nested(Append(s, t), d + 1)
<1> DEFINE u == Append(s, t)
<1>1. u \in Seq(Token) /\ Len(u) = Len(s) + 1 /\ u[Len(s) + 1] = t
      /\ (\A k \in 1 .. Len(s) : u[k] = s[k])
      /\ (\A k \in 1 .. Len(s), j \in 1 .. Len(s) : Mated(s, j, k) => Mated(u, j, k))
      /\ (\A j \in 1 .. Len(s) : OpenAt(s, j) /\ t.depth > s[j].depth => OpenAt(u, j))
      /\ Len(s) \in Nat
  BY NestedAppend
<1> HIDE DEF u
<1>2. ClosesMated(u)
  <2> SUFFICES ASSUME NEW k \in 1 .. Len(u), u[k].type = "close"
               PROVE  \E j \in 1 .. k - 1 : Mated(u, j, k)
    BY DEF ClosesMated
  <2>1. k \in 1 .. Len(s)
    BY <1>1
  <2>2. PICK j \in 1 .. k - 1 : Mated(s, j, k)
    BY <1>1, <2>1 DEF Nested, ClosesMated
  <2>3. j \in 1 .. Len(s)
    BY <1>1, <2>1
  <2> QED BY <1>1, <2>1, <2>2, <2>3
<1>3. OpenAt(u, Len(s) + 1)
  BY <1>1 DEF OpenAt
<1>4. OpensMated(u, d + 1)
  <2> SUFFICES ASSUME NEW j \in 1 .. Len(u), u[j].type = "open"
               PROVE  \/ \E k \in j + 1 .. Len(u) : Mated(u, j, k)
                      \/ u[j].depth \in 1 .. d + 1 /\ OpenAt(u, j)
    BY DEF OpensMated
  <2>1. CASE j = Len(s) + 1
    BY <1>1, <1>3, <2>1
  <2>2. CASE j # Len(s) + 1
    <3>1. j \in 1 .. Len(s)
      BY <1>1, <2>2
    <3>2. CASE \E k \in j + 1 .. Len(s) : Mated(s, j, k)
      <4>1. PICK k \in j + 1 .. Len(s) : Mated(s, j, k)
        BY <3>2
      <4>2. k \in 1 .. Len(s) /\ k \in j + 1 .. Len(u)
        BY <1>1, <3>1
      <4> QED BY <1>1, <3>1, <4>1, <4>2
    <3>3. CASE s[j].depth \in 1 .. d /\ OpenAt(s, j)
      <4>1. d + 1 > s[j].depth /\ s[j].depth \in 1 .. d + 1
        BY <3>3
      <4> QED BY <1>1, <3>1, <3>3, <4>1
    <3> QED BY <1>1, <3>1, <3>2, <3>3 DEF Nested, OpensMated
  <2> QED BY <2>1, <2>2
<1>5. DepthsOpen(u, d + 1)
  <2> SUFFICES ASSUME NEW e \in 1 .. d + 1
               PROVE  \E j \in 1 .. Len(u) : u[j].depth = e /\ OpenAt(u, j)
    BY DEF DepthsOpen
  <2>1. CASE e = d + 1
    BY <1>1, <1>3, <2>1
  <2>2. CASE e # d + 1
    <3>1. e \in 1 .. d /\ d + 1 > e
      BY <2>2
    <3>2. PICK j \in 1 .. Len(s) : s[j].depth = e /\ OpenAt(s, j)
      BY <3>1 DEF Nested, DepthsOpen
    <3>3. j \in 1 .. Len(u)
      BY <1>1
    <3> QED BY <1>1, <3>1, <3>2, <3>3
  <2> QED BY <2>1, <2>2
<1> QED BY <1>2, <1>4, <1>5 DEF Nested, u

LEMMA NestedClose ==
    ASSUME NEW s \in Seq(Token), NEW t \in Token, NEW d \in Nat, d > 0, Nested(s, d),
           t.type = "close", t.depth = d
    PROVE  Nested(Append(s, t), d - 1)
<1> DEFINE u == Append(s, t)
<1>1. u \in Seq(Token) /\ Len(u) = Len(s) + 1 /\ u[Len(s) + 1] = t
      /\ (\A k \in 1 .. Len(s) : u[k] = s[k])
      /\ (\A k \in 1 .. Len(s), j \in 1 .. Len(s) : Mated(s, j, k) => Mated(u, j, k))
      /\ (\A j \in 1 .. Len(s) : OpenAt(s, j) /\ t.depth > s[j].depth => OpenAt(u, j))
      /\ (\A j \in 1 .. Len(s) : OpenAt(s, j) /\ t.depth = s[j].depth => Mated(u, j, Len(s) + 1))
      /\ Len(s) \in Nat
  BY NestedAppend
<1> HIDE DEF u
<1>2. ClosesMated(u)
  <2> SUFFICES ASSUME NEW k \in 1 .. Len(u), u[k].type = "close"
               PROVE  \E j \in 1 .. k - 1 : Mated(u, j, k)
    BY DEF ClosesMated
  <2>1. CASE k = Len(s) + 1
    <3>1. d \in 1 .. d
      OBVIOUS
    <3>2. PICK j \in 1 .. Len(s) : s[j].depth = d /\ OpenAt(s, j)
      BY <3>1 DEF Nested, DepthsOpen
    <3>3. j \in 1 .. k - 1
      BY <1>1, <2>1
    <3> QED BY <1>1, <2>1, <3>2, <3>3
  <2>2. CASE k # Len(s) + 1
    <3>1. k \in 1 .. Len(s)
      BY <1>1, <2>2
    <3>2. PICK j \in 1 .. k - 1 : Mated(s, j, k)
      BY <1>1, <3>1 DEF Nested, ClosesMated
    <3>3. j \in 1 .. Len(s)
      BY <1>1, <3>1
    <3> QED BY <1>1, <3>1, <3>2, <3>3
  <2> QED BY <2>1, <2>2
<1>3. OpensMated(u, d - 1)
  <2> SUFFICES ASSUME NEW j \in 1 .. Len(u), u[j].type = "open"
               PROVE  \/ \E k \in j + 1 .. Len(u) : Mated(u, j, k)
                      \/ u[j].depth \in 1 .. d - 1 /\ OpenAt(u, j)
    BY DEF OpensMated
  <2>1. j \in 1 .. Len(s)
    BY <1>1
  <2>2. CASE \E k \in j + 1 .. Len(s) : Mated(s, j, k)
    <3>1. PICK k \in j + 1 .. Len(s) : Mated(s, j, k)
      BY <2>2
    <3>2. k \in 1 .. Len(s) /\ k \in j + 1 .. Len(u)
      BY <1>1, <2>1
    <3> QED BY <1>1, <2>1, <3>1, <3>2
  <2>3. CASE s[j].depth \in 1 .. d /\ OpenAt(s, j) /\ s[j].depth = d
    <3>1. Len(s) + 1 \in j + 1 .. Len(u)
      BY <1>1, <2>1
    <3> QED BY <1>1, <2>1, <2>3, <3>1
  <2>4. CASE s[j].depth \in 1 .. d /\ OpenAt(s, j) /\ s[j].depth # d
    <3>1. d > s[j].depth /\ s[j].depth \in 1 .. d - 1
      BY <2>4
    <3> QED BY <1>1, <2>1, <2>4, <3>1
  <2> QED BY <1>1, <2>1, <2>2, <2>3, <2>4 DEF Nested, OpensMated
<1>4. DepthsOpen(u, d - 1)
  <2> SUFFICES ASSUME NEW e \in 1 .. d - 1
               PROVE  \E j \in 1 .. Len(u) : u[j].depth = e /\ OpenAt(u, j)
    BY DEF DepthsOpen
  <2>1. e \in 1 .. d /\ d > e
    OBVIOUS
  <2>2. PICK j \in 1 .. Len(s) : s[j].depth = e /\ OpenAt(s, j)
    BY <2>1 DEF Nested, DepthsOpen
  <2>3. j \in 1 .. Len(u)
    BY <1>1
  <2> QED BY <1>1, <2>1, <2>2, <2>3
<1> QED BY <1>2, <1>3, <1>4 DEF Nested, u

(* The pending token is never a bracket, so pushing it changes no nesting. *)
LEMMA EmittedNested ==
    ASSUME IInv, BInv, status = "scan"
    PROVE  Nested(Emitted, depth) /\ Emitted \in Seq(Token) /\ depth \in Nat
<1>1. Nested(tokens, depth) /\ tokens \in Seq(Token) /\ tok \in Token /\ depth \in Nat
  BY DEF BInv, IInv, TypeOK
<1>2. CASE has_token
  <2>1. ~ IsBracket(tok)
    BY <1>2 DEF IInv, PendingAtHead, HasSlice, IsBracket
  <2> QED BY <1>1, <1>2, <2>1, NestedOther DEF Emitted
<1>3. CASE ~ has_token
  BY <1>1, <1>3 DEF Emitted
<1> QED BY <1>2, <1>3

LEMMA MarkPushed ==
    ASSUME IInv, InLoop, NEW type \in {"open", "close", "quote"}, NEW d \in Nat, PushMark(type, d)
    PROVE  /\ tokens' = Append(Emitted, tok') /\ status' = "scan"
           /\ tok' \in Token /\ tok'.type = type /\ tok'.depth = d
<1>1. tok' = [type |-> type, src_idx |-> i, len |-> 1, begin |-> 0, size |-> 0, depth |-> d]
  BY DEF PushMark, ZeroToken
<1>2. i \in Nat /\ type \in TokenType
  BY CountersTyped DEF TokenType
<1>3. tok' \in Token
  BY <1>1, <1>2 DEF Token
<1> QED BY <1>1, <1>3 DEF PushMark, InLoop

LEMMA NextBInv == IInv /\ BInv /\ [Next]_vars => BInv'
<1> SUFFICES ASSUME IInv, BInv, [Next]_vars PROVE BInv'
  OBVIOUS
<1>t. depth \in Nat
  BY CountersTyped
<1>s. ASSUME status' = "scan", Nested(tokens, depth)' PROVE BInv'
  BY <1>s DEF BInv, Errors
<1>1. CASE ScanOpen
  <2>1. InLoop /\ depth' = depth + 1 /\ PushMark("open", depth + 1)
    BY <1>1 DEF ScanOpen, Scanning
  <2>2. tokens' = Append(Emitted, tok') /\ status' = "scan"
        /\ tok' \in Token /\ tok'.type = "open" /\ tok'.depth = depth + 1
    BY <1>t, <2>1, MarkPushed
  <2>3. Nested(tokens', depth')
    BY <2>1, <2>2, EmittedNested, NestedOpen DEF InLoop
  <2> QED BY <1>s, <2>2, <2>3 DEF Nested, ClosesMated, OpensMated, DepthsOpen, Mated, OpenAt, IsBracket
<1>2. CASE ScanClose
  <2>1. InLoop /\ depth > 0 /\ depth' = depth - 1 /\ PushMark("close", depth)
    BY <1>2 DEF ScanClose, Scanning
  <2>2. tokens' = Append(Emitted, tok') /\ status' = "scan"
        /\ tok' \in Token /\ tok'.type = "close" /\ tok'.depth = depth
    BY <1>t, <2>1, MarkPushed
  <2>3. Nested(tokens', depth')
    BY <2>1, <2>2, EmittedNested, NestedClose DEF InLoop
  <2> QED BY <1>s, <2>2, <2>3 DEF Nested, ClosesMated, OpensMated, DepthsOpen, Mated, OpenAt, IsBracket
<1>3. CASE ScanQuote
  <2>1. InLoop /\ depth' = depth /\ PushMark("quote", 0)
    BY <1>3 DEF ScanQuote, Scanning
  <2>2. tokens' = Append(Emitted, tok') /\ status' = "scan"
        /\ tok' \in Token /\ tok'.type = "quote"
    BY <1>t, <2>1, MarkPushed
  <2>3. Nested(tokens', depth')
    BY <2>1, <2>2, EmittedNested, NestedOther DEF InLoop, IsBracket
  <2> QED BY <1>s, <2>2, <2>3 DEF Nested, ClosesMated, OpensMated, DepthsOpen, Mated, OpenAt, IsBracket
<1>4. CASE ScanWhitespace \/ ScanDigit \/ ScanPoint \/ ScanWordRest \/ ScanWordFirst
  <2>1. status' = status /\ status = "scan" /\ depth' = depth /\ tokens' \in {tokens, Emitted}
    BY <1>4 DEF ScanWhitespace, ScanDigit, ScanPoint, ScanWordRest, ScanWordFirst,
                StartToken, ExtendToken, Scanning, InLoop
  <2>2. Nested(tokens', depth')
    BY <2>1, EmittedNested DEF BInv
  <2> QED BY <1>s, <2>1, <2>2 DEF Nested, ClosesMated, OpensMated, DepthsOpen, Mated, OpenAt, IsBracket
<1>5. CASE RejectClose \/ RejectLastQuote \/ RejectQuote \/ RejectCharacter \/ RejectUnclosed
  <2>1. status' \in Errors /\ tokens' = <<>>
    BY <1>5 DEF RejectClose, RejectLastQuote, RejectQuote, RejectCharacter, RejectUnclosed,
                Fail, Errors
  <2> QED BY <2>1 DEF BInv, Errors
<1>6. CASE AbortNonAscii
  <2>1. status' = "abort" /\ status = "scan" /\ UNCHANGED <<tokens, depth>>
    BY <1>6 DEF AbortNonAscii, Scanning, InLoop
  <2>2. Nested(tokens', depth')
    BY <2>1 DEF BInv
  <2> QED BY <2>1, <2>2
          DEF BInv, Errors, Nested, ClosesMated, OpensMated, DepthsOpen, Mated, OpenAt, IsBracket
<1>7. CASE Finish
  <2>1. status' = "ok" /\ status = "scan" /\ depth = 0 /\ depth' = depth /\ tokens' = Emitted
    BY <1>7 DEF Finish
  <2>2. Nested(tokens', depth')
    BY <2>1, EmittedNested
  <2> QED BY <2>1, <2>2
          DEF BInv, Errors, Nested, ClosesMated, OpensMated, DepthsOpen, Mated, OpenAt, IsBracket
<1>8. CASE UNCHANGED vars
  BY <1>8 DEF vars, BInv, Nested, ClosesMated, OpensMated, DepthsOpen, Mated, OpenAt, IsBracket
<1> QED BY <1>1, <1>2, <1>3, <1>4, <1>5, <1>6, <1>7, <1>8 DEF Next, Returned

LEMMA InitBInv == Init => BInv
BY DEF Init, BInv, Errors, Nested, ClosesMated, OpensMated, DepthsOpen

(* A closing bracket carries the depth of the opening one it closes, for   *)
(* any nesting; when tokenize() succeeds none is left open.                *)
THEOREM BracketsProved == Spec => []BracketsMatch
<1>1. ASSUME IInv, BInv PROVE BracketsMatch
  <2>1. CASE status \in Errors
    <3>1. tokens = <<>>
      BY <1>1, <2>1 DEF BInv
    <3>2. 1 .. Len(tokens) = {}
      BY <3>1
    <3>3. status # "ok"
      BY <2>1 DEF Errors
    <3> QED BY <3>2, <3>3 DEF BracketsMatch
  <2>2. CASE status \notin Errors
    <3>1. Nested(tokens, depth)
      BY <1>1, <2>2 DEF IInv, TypeOK, BInv
    <3>2. \A k \in 1 .. Len(tokens) :
             tokens[k].type = "close" => \E j \in 1 .. k - 1 : Mates(j, k)
      BY <3>1 DEF Nested, ClosesMated, Mated, Mates
    <3>3. ASSUME status = "ok", NEW j \in 1 .. Len(tokens), tokens[j].type = "open"
          PROVE  \E k \in j + 1 .. Len(tokens) : Mates(j, k)
      <4>1. tokens[j].depth \notin 1 .. depth
        BY <1>1, <3>3 DEF BInv
      <4>2. PICK k \in j + 1 .. Len(tokens) : Mated(tokens, j, k)
        BY <3>1, <3>3, <4>1 DEF Nested, OpensMated
      <4> QED BY <4>2 DEF Mated, Mates
    <3> QED BY <3>2, <3>3 DEF BracketsMatch
  <2> QED BY <2>1, <2>2
<1> QED BY <1>1, InitBInv, NextBInv, Invariance, PTL DEF Spec

----------------------------------------------------------------------------
(* The lexemes.  Every token pushed, and the pending one, is a longest     *)
(* text of its type; without a pending token the last is of one character. *)

Lexemes(s) == \A k \in 1 .. Len(s) : Lexeme(s[k])

Maximal(s) == \A k \in 1 .. Len(s) - 1 : ~ Mergeable(s[k], s[k + 1])

Marks == {"open", "close", "quote"}

LInv ==
    /\ Lexemes(tokens)
    /\ Maximal(tokens)
    /\ has_token => Lexeme(tok)
    /\ has_token /\ tokens # <<>> => ~ Mergeable(tokens[Len(tokens)], tok)
    /\ status = "scan" /\ ~ has_token /\ tokens # <<>> => tokens[Len(tokens)].type \in Marks

(* A slice by its start and its size.                                      *)
LEMMA SliceFacts ==
    ASSUME NEW S, NEW s \in Seq(S), NEW b \in Nat, NEW n \in Nat, b + n <= Len(s)
    PROVE  /\ SubSeq(s, b + 1, b + n) \in Seq(S)
           /\ Len(SubSeq(s, b + 1, b + n)) = n
           /\ DOMAIN SubSeq(s, b + 1, b + n) = 1 .. n
           /\ \A k \in 1 .. n : SubSeq(s, b + 1, b + n)[k] = s[b + k]
<1>1. PICK m \in Int, q \in Int : m = b + 1 /\ q = b + n
  OBVIOUS
<1> DEFINE u == SubSeq(s, m, q)
<1>2. \A k \in m .. q : s[k] \in S
  BY <1>1
<1>3. /\ u \in Seq(S)
      /\ Len(u) = IF m <= q THEN q - m + 1 ELSE 0
      /\ \A k \in 1 .. q - m + 1 : u[k] = s[m + k - 1]
  BY <1>2, SubSeqProperties
<1>u. u = SubSeq(s, b + 1, b + n)
  BY <1>1
<1> HIDE DEF u
<1>4. Len(u) = n
  BY <1>1, <1>3
<1>5. ASSUME NEW k \in 1 .. n PROVE u[k] = s[b + k]
  <2>1. k \in 1 .. q - m + 1 /\ m + k - 1 = b + k
    BY <1>1
  <2> QED BY <2>1, <1>3
<1>6. DOMAIN u = 1 .. n
  BY <1>3, <1>4
<1> QED BY <1>3, <1>4, <1>5, <1>6, <1>u

(* The text of a slice inside the source, character by character.          *)
LEMMA TextFacts ==
    ASSUME src \in Seq(Char), NEW t \in Token, t.begin + t.size <= Len(src)
    PROVE  /\ Len(Text(t)) = t.size /\ DOMAIN Text(t) = 1 .. t.size
           /\ \A k \in 1 .. t.size : Text(t)[k] = src[t.begin + k]
<1>1. t.begin \in Nat /\ t.size \in Nat
  BY DEF Token
<1>2. PICK s \in Seq(Char) : s = src
  OBVIOUS
<1>3. PICK b \in Nat, n \in Nat : b = t.begin /\ n = t.size
  BY <1>1
<1>4. b + n <= Len(s)
  BY <1>2, <1>3
<1>5. /\ Len(SubSeq(s, b + 1, b + n)) = n /\ DOMAIN SubSeq(s, b + 1, b + n) = 1 .. n
      /\ \A k \in 1 .. n : SubSeq(s, b + 1, b + n)[k] = s[b + k]
  BY <1>4, SliceFacts
<1>6. Text(t) = SubSeq(s, b + 1, b + n)
  BY <1>2, <1>3 DEF Text
<1> QED BY <1>2, <1>3, <1>5, <1>6

(* One more token at the end of a maximal sequence of lexemes.             *)
LEMMA LexemesAppend ==
    ASSUME NEW s \in Seq(Token), NEW t \in Token, Lexemes(s), Maximal(s), Lexeme(t),
           s # <<>> => ~ Mergeable(s[Len(s)], t)
    PROVE  Lexemes(Append(s, t)) /\ Maximal(Append(s, t))
<1> DEFINE u == Append(s, t)
<1>1. Len(u) = Len(s) + 1 /\ u[Len(s) + 1] = t /\ (\A k \in 1 .. Len(s) : u[k] = s[k])
      /\ Len(s) \in Nat
  OBVIOUS
<1> HIDE DEF u
<1>2. Lexemes(u)
  BY <1>1 DEF Lexemes
<1>3. ASSUME NEW k \in 1 .. Len(u) - 1 PROVE ~ Mergeable(u[k], u[k + 1])
  <2>1. CASE k = Len(s)
    BY <1>1, <2>1
  <2>2. CASE k # Len(s)
    <3>1. k \in 1 .. Len(s) - 1 /\ k \in 1 .. Len(s) /\ k + 1 \in 1 .. Len(s)
      BY <1>1, <2>2
    <3> QED BY <1>1, <3>1 DEF Maximal
  <2> QED BY <2>1, <2>2
<1> QED BY <1>2, <1>3 DEF Maximal, u

(* What emit_token leaves.                                                 *)
LEMMA EmittedLexemes ==
    ASSUME IInv, LInv, status = "scan"
    PROVE  /\ Emitted \in Seq(Token) /\ Lexemes(Emitted) /\ Maximal(Emitted)
           /\ Emitted # <<>> => \/ has_token /\ Emitted[Len(Emitted)] = tok
                               \/ Emitted[Len(Emitted)].type \in Marks
<1>1. tokens \in Seq(Token) /\ tok \in Token
  BY DEF IInv, TypeOK
<1>2. CASE has_token
  <2>1. Emitted = Append(tokens, tok)
    BY <1>2 DEF Emitted
  <2>2. Lexemes(Emitted) /\ Maximal(Emitted)
    BY <1>1, <1>2, <2>1, LexemesAppend DEF LInv
  <2>3. Emitted \in Seq(Token) /\ Emitted[Len(Emitted)] = tok
    BY <1>1, <2>1
  <2> QED BY <1>2, <2>2, <2>3
<1>3. CASE ~ has_token
  BY <1>1, <1>3 DEF LInv, Emitted
<1> QED BY <1>2, <1>3

(* Two texts, the second with one more character.                          *)
Longer(s, u, c) ==
    /\ DOMAIN s = 1 .. Len(s) /\ Len(s) \in Nat
    /\ DOMAIN u = 1 .. Len(s) + 1
    /\ \A k \in 1 .. Len(s) : u[k] = s[k]
    /\ u[Len(s) + 1] = c

LEMMA LongerCases ==
    ASSUME NEW s, NEW u, NEW c, Longer(s, u, c)
    PROVE  \A k \in DOMAIN u : (k \in DOMAIN s /\ u[k] = s[k]) \/ (k = Len(s) + 1 /\ u[k] = c)
<1> SUFFICES ASSUME NEW k \in DOMAIN u
             PROVE  (k \in DOMAIN s /\ u[k] = s[k]) \/ (k = Len(s) + 1 /\ u[k] = c)
  OBVIOUS
<1>1. k \in 1 .. Len(s) \/ k = Len(s) + 1
  BY DEF Longer
<1> QED BY <1>1 DEF Longer

(* A numeral stays one with a digit behind it, or with its first point.    *)
LEMMA LongerNumeral ==
    ASSUME NEW s, NEW u, NEW c, Longer(s, u, c), IsNumeral(s),
           c = "0" \/ (c = "." /\ \A k \in DOMAIN s : s[k] # ".")
    PROVE  IsNumeral(u)
<1>1. \A k \in DOMAIN u : (k \in DOMAIN s /\ u[k] = s[k]) \/ (k = Len(s) + 1 /\ u[k] = c)
  BY LongerCases
<1>2. \A k \in DOMAIN s : k \in DOMAIN u /\ u[k] = s[k]
  BY DEF Longer
<1>3. \E k \in DOMAIN u : u[k] = "0"
  BY <1>2 DEF IsNumeral
<1>4. \A k \in DOMAIN u : u[k] \in {"0", "."} \/ (k = 1 /\ u[k] = "-")
  BY <1>1 DEF IsNumeral
<1>5. ASSUME NEW j \in DOMAIN u, NEW k \in DOMAIN u, u[j] = ".", u[k] = "." PROVE j = k
  <2>1. CASE c = "0"
    BY <1>1, <1>5, <2>1 DEF IsNumeral
  <2>2. CASE c = "." /\ \A m \in DOMAIN s : s[m] # "."
    BY <1>1, <1>5, <2>2
  <2> QED BY <2>1, <2>2
<1> QED BY <1>3, <1>4, <1>5 DEF IsNumeral

(* The pun: a sign, a point or both before a digit make a numeral.         *)
LEMMA PunNumeral ==
    ASSUME NEW s, NEW u, Longer(s, u, "0"), s \in {<<"-">>, <<"-", ".">>, <<".">>}
    PROVE  IsNumeral(u)
<1>1. CASE s = <<"-">>
  <2>1. DOMAIN u = {1, 2} /\ u[1] = "-" /\ u[2] = "0"
    BY <1>1 DEF Longer
  <2> QED BY <2>1 DEF IsNumeral
<1>2. CASE s = <<".">>
  <2>1. DOMAIN u = {1, 2} /\ u[1] = "." /\ u[2] = "0"
    BY <1>2 DEF Longer
  <2> QED BY <2>1 DEF IsNumeral
<1>3. CASE s = <<"-", ".">>
  <2>1. DOMAIN u = {1, 2, 3} /\ u[1] = "-" /\ u[2] = "." /\ u[3] = "0"
    BY <1>3 DEF Longer
  <2> QED BY <2>1 DEF IsNumeral
<1> QED BY <1>1, <1>2, <1>3

(* The texts do not change while tokenize() runs.                          *)
LEMMA LexemesStay ==
    ASSUME src' = src
    PROVE  /\ \A t : (Lexeme(t)' <=> Lexeme(t))
           /\ \A t, u : (Mergeable(t, u)' <=> Mergeable(t, u))
<1>1. \A t : Text(t)' = Text(t) /\ (HasDot(t)' <=> HasDot(t))
  BY DEF Text, HasDot
<1> QED BY <1>1 DEF Lexeme, Mergeable

(* What ExtendToken makes of the pending token's text.                     *)
LEMMA Extended ==
    ASSUME IInv, InLoop, has_token, NEW type \in {"ws", "word", "number"}, ExtendToken(type)
    PROVE  /\ Longer(Text(tok), Text(tok'), src[i + 1])
           /\ \A k \in DOMAIN Text(tok') : \/ k \in DOMAIN Text(tok) /\ Text(tok')[k] = Text(tok)[k]
                                         \/ Text(tok')[k] = src[i + 1]
           /\ tok' \in Token /\ tok'.type = type /\ tok'.src_idx = tok.src_idx
           /\ tok.size \in Nat /\ DOMAIN Text(tok) = 1 .. tok.size
           /\ \A k \in 1 .. tok.size : Text(tok)[k] = src[tok.begin + k]
<1>1. /\ tok \in Token /\ i \in Nat /\ i < Len(src) /\ slice_begin = tok.src_idx
      /\ tok.src_idx + tok.len = i /\ tok.begin = tok.src_idx /\ tok.size = tok.len
      /\ src \in Seq(Char) /\ Len(src) \in Nat
  BY CountersTyped, LenTyped DEF IInv, TypeOK, PendingAtHead, Spans, End, InLoop
<1>2. tok.src_idx \in Nat /\ tok.len \in Nat /\ tok.depth \in Nat
  BY <1>1 DEF Token
<1>3. i + 1 - slice_begin = tok.len + 1
  BY <1>1, <1>2
<1>4. tok' = [type |-> type, src_idx |-> tok.src_idx, len |-> tok.len + 1,
              begin |-> tok.src_idx, size |-> tok.len + 1, depth |-> tok.depth]
  BY <1>1, <1>3 DEF ExtendToken, Token
<1>5. tok' \in Token
  BY <1>2, <1>4 DEF Token, TokenType
<1>6. tok.begin + tok.size <= Len(src) /\ tok'.begin + tok'.size <= Len(src)
  <2>1. tok'.begin + tok'.size = i + 1
    BY <1>1, <1>2, <1>4
  <2> QED BY <1>1, <1>2, <2>1
<1>7. Len(Text(tok)) = tok.len /\ DOMAIN Text(tok) = 1 .. tok.len
      /\ \A k \in 1 .. tok.len : Text(tok)[k] = src[tok.src_idx + k]
  BY <1>1, <1>6, TextFacts
<1>8. DOMAIN Text(tok') = 1 .. tok.len + 1
      /\ \A k \in 1 .. tok.len + 1 : Text(tok')[k] = src[tok.src_idx + k]
  BY <1>1, <1>4, <1>5, <1>6, TextFacts
<1>9. Text(tok')[tok.len + 1] = src[i + 1]
  BY <1>1, <1>2, <1>8
<1>10. \A k \in 1 .. tok.len : Text(tok')[k] = Text(tok)[k]
  BY <1>2, <1>7, <1>8
<1>11. Longer(Text(tok), Text(tok'), src[i + 1])
  BY <1>2, <1>7, <1>8, <1>9, <1>10 DEF Longer
<1>12. \A k \in DOMAIN Text(tok') : \/ k \in DOMAIN Text(tok) /\ Text(tok')[k] = Text(tok)[k]
                                  \/ Text(tok')[k] = src[i + 1]
  BY <1>11, LongerCases
<1> QED BY <1>1, <1>2, <1>4, <1>5, <1>7, <1>11, <1>12

(* What StartToken makes the new token's text: one character.              *)
LEMMA Started ==
    ASSUME IInv, InLoop, NEW type \in {"ws", "word", "number"}, StartToken(type)
    PROVE  /\ tok' \in Token /\ tok'.type = type /\ tok'.src_idx = i
           /\ DOMAIN Text(tok') = {1} /\ Text(tok')[1] = src[i + 1]
<1>1. i \in Nat /\ i < Len(src) /\ src \in Seq(Char) /\ Len(src) \in Nat
  BY CountersTyped, LenTyped DEF IInv, TypeOK, InLoop
<1>2. tok' = [type |-> type, src_idx |-> i, len |-> 1, begin |-> i, size |-> 1, depth |-> 0]
  BY DEF StartToken, ZeroToken
<1>3. tok' \in Token
  BY <1>1, <1>2 DEF Token, TokenType
<1>4. tok'.begin + tok'.size <= Len(src)
  BY <1>1, <1>2
<1>5. DOMAIN Text(tok') = 1 .. 1 /\ \A k \in 1 .. 1 : Text(tok')[k] = src[i + k]
  BY <1>1, <1>2, <1>3, <1>4, TextFacts
<1> QED BY <1>2, <1>3, <1>5

(* The same said of the next state's tokens.                               *)
LEMMA LexemesPrimed ==
    ASSUME src' = src
    PROVE  /\ Lexemes(tokens)' <=> Lexemes(tokens')
           /\ Maximal(tokens)' <=> Maximal(tokens')
           /\ Lexeme(tok)' <=> Lexeme(tok')
           /\ Mergeable(tokens[Len(tokens)], tok)' <=> Mergeable(tokens'[Len(tokens')], tok')
<1>1. Lexeme(tok)' <=> Lexeme(tok')
  BY DEF Lexeme, Text
<1>2. Lexemes(tokens)' <=> Lexemes(tokens')
  BY DEF Lexemes, Lexeme, Text
<1>3. Mergeable(tokens[Len(tokens)], tok)' <=> Mergeable(tokens'[Len(tokens')], tok')
  BY DEF Mergeable, Text, HasDot
<1>4. Maximal(tokens)' <=> Maximal(tokens')
  BY DEF Maximal, Mergeable, Text, HasDot
<1> QED BY <1>1, <1>2, <1>3, <1>4

(* A step to a new last token, pushed or pending, behind what is emitted.  *)
LEMMA NewToken ==
    ASSUME IInv, LInv, status = "scan", status' = status, src' = src, tok' \in Token,
           Lexeme(tok'), Emitted # <<>> => ~ Mergeable(Emitted[Len(Emitted)], tok'),
           \/ tokens' = Emitted /\ has_token' = TRUE
           \/ tokens' = Append(Emitted, tok') /\ has_token' = FALSE /\ tok'.type \in Marks
    PROVE  LInv'
<1>1. Emitted \in Seq(Token) /\ Lexemes(Emitted) /\ Maximal(Emitted)
  BY EmittedLexemes
<1>2. CASE tokens' = Emitted /\ has_token' = TRUE
  <2>1. Lexemes(tokens)' /\ Maximal(tokens)' /\ Lexeme(tok)'
        /\ (tokens' # <<>> => ~ Mergeable(tokens[Len(tokens)], tok)')
    BY <1>1, <1>2, LexemesPrimed
  <2> QED BY <1>2, <2>1 DEF LInv
<1>3. CASE tokens' = Append(Emitted, tok') /\ has_token' = FALSE /\ tok'.type \in Marks
  <2>1. Lexemes(tokens') /\ Maximal(tokens') /\ tokens'[Len(tokens')].type \in Marks
    BY <1>1, <1>3, LexemesAppend
  <2>2. Lexemes(tokens)' /\ Maximal(tokens)'
    BY <2>1, LexemesPrimed
  <2>3. Marks' = Marks
    BY DEF Marks
  <2> QED BY <1>3, <2>1, <2>2, <2>3 DEF LInv
<1> QED BY <1>2, <1>3

(* A step that lengthens the pending token.                                *)
LEMMA LongerToken ==
    ASSUME IInv, LInv, status = "scan", has_token, UNCHANGED <<src, tokens, has_token, status>>,
           Lexeme(tok'), tok'.src_idx = tok.src_idx,
           \/ tok'.type = tok.type
           \/ tok.type = "word" /\ tok'.type = "number"
    PROVE  LInv'
<1>1. Lexemes(tokens)' /\ Maximal(tokens)' /\ Lexeme(tok)'
  BY LexemesPrimed DEF LInv
<1>2. ASSUME tokens # <<>>
      PROVE  ~ Mergeable(tokens[Len(tokens)], tok')
  <2>1. ~ Mergeable(tokens[Len(tokens)], tok)
    BY <1>2 DEF LInv
  <2> QED BY <2>1 DEF Mergeable
<1>3. tokens' # <<>> => ~ Mergeable(tokens[Len(tokens)], tok)'
  BY <1>2, LexemesPrimed
<1> QED BY <1>1, <1>3 DEF LInv

----------------------------------------------------------------------------
LEMMA PushMarkLexemes ==
    ASSUME IInv, LInv, InLoop, NEW type \in Marks, NEW d \in Nat, PushMark(type, d),
           src[i + 1] = IF type = "open" THEN "[" ELSE IF type = "close" THEN "]" ELSE "'"
    PROVE  LInv'
<1>1. tok' = [type |-> type, src_idx |-> i, len |-> 1, begin |-> 0, size |-> 0, depth |-> d]
      /\ tokens' = Append(Emitted, tok') /\ has_token' = FALSE
      /\ src' = src /\ status' = status
  BY DEF PushMark, ZeroToken
<1>2. tok' \in Token /\ tok'.type = type /\ tok'.src_idx = i
  BY <1>1, CountersTyped DEF Token, TokenType, Marks
<1>3. type \in {"open", "close", "quote"} /\ src[i + 1] \in {"[", "]", "'"}
  BY DEF Marks
<1>4. Lexeme(tok')
  BY <1>2, <1>3 DEF Lexeme
<1>5. \A t : ~ Mergeable(t, tok')
  BY <1>2, <1>3 DEF Mergeable
<1> QED BY <1>1, <1>2, <1>4, <1>5, NewToken DEF InLoop

LEMMA StartLexemes ==
    ASSUME IInv, LInv, InLoop, NEW type \in {"ws", "word", "number"}, StartToken(type),
           type = "ws" => src[i + 1] = " ",
           type = "word" => IsWordFirst(src[i + 1]),
           type = "number" => src[i + 1] = "0",
           has_token => ~ Mergeable(tok, tok')
    PROVE  LInv'
<1>1. /\ tok' \in Token /\ tok'.type = type /\ tok'.src_idx = i
      /\ DOMAIN Text(tok') = {1} /\ Text(tok')[1] = src[i + 1]
  BY Started
<1>2. tokens' = Emitted /\ has_token' = TRUE /\ src' = src /\ status' = status
  BY DEF StartToken
<1>3. IsNumeral(Text(tok')) \/ type # "number"
  BY <1>1 DEF IsNumeral
<1>4. Lexeme(tok')
  BY <1>1, <1>3 DEF Lexeme
<1>5. \A t : t.type \in Marks => ~ Mergeable(t, tok')
  BY DEF Mergeable, Marks
<1>6. Emitted # <<>> => ~ Mergeable(Emitted[Len(Emitted)], tok')
  BY <1>5, EmittedLexemes DEF InLoop
<1> QED BY <1>1, <1>2, <1>4, <1>6, NewToken DEF InLoop

LEMMA ExtendLexemes ==
    ASSUME IInv, LInv, InLoop, has_token, NEW type \in {"ws", "word", "number"}, ExtendToken(type),
           \/ type = "ws" /\ tok.type = "ws" /\ src[i + 1] = " "
           \/ type = "word" /\ tok.type = "word" /\ IsWordFirst(src[i + 1])
           \/ type = "number" /\ tok.type = "number" /\ src[i + 1] = "0"
           \/ type = "number" /\ tok.type = "number" /\ src[i + 1] = "." /\ ~ HasDot(tok)
           \/ type = "number" /\ Punnable /\ src[i + 1] = "0"
    PROVE  LInv'
<1>1. /\ Longer(Text(tok), Text(tok'), src[i + 1])
      /\ \A k \in DOMAIN Text(tok') : \/ k \in DOMAIN Text(tok) /\ Text(tok')[k] = Text(tok)[k]
                                    \/ Text(tok')[k] = src[i + 1]
      /\ tok' \in Token /\ tok'.type = type /\ tok'.src_idx = tok.src_idx
      /\ tok.size \in Nat /\ DOMAIN Text(tok) = 1 .. tok.size
      /\ \A k \in 1 .. tok.size : Text(tok)[k] = src[tok.begin + k]
  BY Extended
<1>2. Lexeme(tok)
  BY DEF LInv
<1>3. ASSUME type = "ws", tok.type = "ws", src[i + 1] = " "
      PROVE  Lexeme(tok')
  <2>1. \A k \in DOMAIN Text(tok) : Text(tok)[k] = " "
    BY <1>2, <1>3 DEF Lexeme
  <2>2. \A k \in DOMAIN Text(tok') : Text(tok')[k] = " "
    BY <1>1, <1>3, <2>1
  <2> QED BY <1>1, <1>3, <2>2 DEF Lexeme
<1>4. ASSUME type = "word", tok.type = "word", IsWordFirst(src[i + 1])
      PROVE  Lexeme(tok')
  <2>1. \A k \in DOMAIN Text(tok) : IsWordFirst(Text(tok)[k])
    BY <1>2, <1>4 DEF Lexeme
  <2>2. \A k \in DOMAIN Text(tok') : IsWordFirst(Text(tok')[k])
    BY <1>1, <1>4, <2>1
  <2> QED BY <1>1, <1>4, <2>2 DEF Lexeme
<1>5. ASSUME type = "number", tok.type = "number",
             src[i + 1] = "0" \/ (src[i + 1] = "." /\ ~ HasDot(tok))
      PROVE  Lexeme(tok')
  <2>1. IsNumeral(Text(tok))
    BY <1>2, <1>5 DEF Lexeme
  <2>2. src[i + 1] = "0"
        \/ (src[i + 1] = "." /\ \A k \in DOMAIN Text(tok) : Text(tok)[k] # ".")
    BY <1>1, <1>5 DEF HasDot
  <2>3. IsNumeral(Text(tok'))
    BY <1>1, <2>1, <2>2, LongerNumeral
  <2> QED BY <1>1, <1>5, <2>3 DEF Lexeme
<1>6. ASSUME type = "number", Punnable, src[i + 1] = "0"
      PROVE  Lexeme(tok')
  <2>1. Text(tok) \in {<<"-">>, <<"-", ".">>, <<".">>} /\ tok.type = "word"
    BY <1>6 DEF Punnable
  <2>2. IsNumeral(Text(tok'))
    BY <1>1, <1>6, <2>1, PunNumeral
  <2> QED BY <1>1, <1>6, <2>1, <2>2 DEF Lexeme
<1>7. Lexeme(tok') /\ (type = tok.type \/ (tok.type = "word" /\ type = "number"))
  <2>1. Punnable => tok.type = "word"
    BY DEF Punnable
  <2> QED BY <2>1, <1>3, <1>4, <1>5, <1>6
<1>8. UNCHANGED <<src, tokens, has_token, status>>
  BY DEF ExtendToken
<1> QED BY <1>1, <1>7, <1>8, LongerToken DEF InLoop

LEMMA NextLInv == IInv /\ LInv /\ [Next]_vars => LInv'
<1> SUFFICES ASSUME IInv, LInv, [Next]_vars PROVE LInv'
  OBVIOUS
<1>1. CASE ScanOpen \/ ScanClose \/ ScanQuote
  <2>1. CASE ScanOpen
    BY <2>1, PushMarkLexemes, CountersTyped DEF ScanOpen, Scanning, Marks
  <2>2. CASE ScanClose
    BY <2>2, PushMarkLexemes, CountersTyped DEF ScanClose, Scanning, Marks
  <2>3. CASE ScanQuote
    BY <2>3, PushMarkLexemes DEF ScanQuote, Scanning, Marks
  <2> QED BY <1>1, <2>1, <2>2, <2>3
<1>2. CASE ScanWhitespace
  <2>1. InLoop /\ src[i + 1] = " "
    BY <1>2 DEF ScanWhitespace, Scanning
  <2>2. CASE has_token /\ tok.type = "ws"
    BY <1>2, <2>1, <2>2, ExtendLexemes DEF ScanWhitespace
  <2>3. CASE ~ (has_token /\ tok.type = "ws")
    <3>1. StartToken("ws")
      BY <1>2, <2>3 DEF ScanWhitespace
    <3>2. has_token => ~ Mergeable(tok, tok')
      BY <2>1, <2>3, <3>1, Started DEF Mergeable
    <3> QED BY <2>1, <3>1, <3>2, StartLexemes
  <2> QED BY <2>2, <2>3
<1>3. CASE ScanDigit
  <2>1. InLoop /\ src[i + 1] = "0"
    BY <1>3 DEF ScanDigit, Scanning
  <2>2. CASE Punnable \/ (has_token /\ tok.type = "number")
    <3>1. ExtendToken("number") /\ has_token
      BY <1>3, <2>2 DEF ScanDigit, Punnable
    <3> QED BY <2>1, <2>2, <3>1, ExtendLexemes
  <2>3. CASE ~ (Punnable \/ (has_token /\ tok.type = "number"))
    <3>1. StartToken("number")
      BY <1>3, <2>3 DEF ScanDigit
    <3>2. has_token => ~ Mergeable(tok, tok')
      BY <2>1, <2>3, <3>1, Started DEF Mergeable, Punnable
    <3> QED BY <2>1, <3>1, <3>2, StartLexemes
  <2> QED BY <2>2, <2>3
<1>4. CASE ScanPoint
  <2>1. InLoop /\ src[i + 1] = "." /\ has_token /\ tok.type = "number" /\ ~ HasDot(tok)
        /\ ExtendToken("number")
    BY <1>4 DEF ScanPoint, Scanning, ContinuesNumber
  <2> QED BY <2>1, ExtendLexemes
<1>5. CASE ScanWordRest
  <2>1. InLoop /\ has_token /\ tok.type = "word" /\ IsWordFirst(src[i + 1])
        /\ ExtendToken("word")
    BY <1>5 DEF ScanWordRest, IsWordRest
  <2> QED BY <2>1, ExtendLexemes
<1>6. CASE ScanWordFirst
  <2>1. InLoop /\ StartToken("word") /\ IsWordFirst(src[i + 1])
        /\ ~ (has_token /\ tok.type = "word") /\ ~ (src[i + 1] = "." /\ ContinuesNumber)
    BY <1>6 DEF ScanWordFirst
  <2>2. src[i + 1] # "0"
    BY <2>1 DEF IsWordFirst
  <2>3. has_token => ~ Mergeable(tok, tok')
    BY <2>1, <2>2, Started DEF Mergeable, ContinuesNumber
  <2> QED BY <2>1, <2>3, StartLexemes
<1>7. CASE RejectClose \/ RejectLastQuote \/ RejectQuote \/ RejectCharacter \/ RejectUnclosed
  <2>1. tokens' = <<>> /\ status' # "scan" /\ src' = src /\ tok' = tok /\ has_token' = has_token
    BY <1>7 DEF RejectClose, RejectLastQuote, RejectQuote, RejectCharacter, RejectUnclosed, Fail
  <2>2. Lexemes(tokens') /\ Maximal(tokens')
    BY <2>1 DEF Lexemes, Maximal
  <2>3. has_token' => Lexeme(tok)'
    BY <2>1, LexemesPrimed DEF LInv
  <2> QED BY <2>1, <2>2, <2>3, LexemesPrimed DEF LInv
<1>8. CASE AbortNonAscii
  <2>1. UNCHANGED <<src, tokens, tok, has_token>> /\ status' # "scan"
    BY <1>8 DEF AbortNonAscii
  <2> QED BY <2>1, LexemesPrimed DEF LInv
<1>9. CASE Finish
  <2>1. tokens' = Emitted /\ has_token' = FALSE /\ status' # "scan" /\ src' = src /\ status = "scan"
    BY <1>9 DEF Finish
  <2> QED BY <2>1, EmittedLexemes, LexemesPrimed DEF LInv
<1>10. CASE UNCHANGED vars
  <2>1. UNCHANGED <<src, tokens, tok, has_token, status>>
    BY <1>10 DEF vars
  <2>2. Marks' = Marks
    BY DEF Marks
  <2> QED BY <2>1, <2>2, LexemesPrimed DEF LInv
<1> QED BY <1>1, <1>2, <1>3, <1>4, <1>5, <1>6, <1>7, <1>8, <1>9, <1>10 DEF Next, Returned

LEMMA InitLInv == Init => LInv
BY DEF Init, LInv, Lexemes, Maximal

(* Whatever the source, every token is a longest text of its type: a       *)
(* numeral has its digit, one point at most and its sign in front, no word *)
(* holds a digit, and no two neighbours could have been one token.         *)
THEOREM LexemesProved == Spec => []TokensAreLexemes
<1>1. ASSUME IInv, LInv PROVE TokensAreLexemes
  <2>1. Lexemes(Stream) /\ Maximal(Stream)
    <3>1. tokens \in Seq(Token) /\ tok \in Token
      BY <1>1 DEF IInv, TypeOK
    <3>2. CASE has_token
      BY <1>1, <3>1, <3>2, LexemesAppend DEF LInv, Stream, Emitted
    <3>3. CASE ~ has_token
      BY <1>1, <3>3 DEF LInv, Stream, Emitted
    <3> QED BY <3>2, <3>3
  <2> QED BY <2>1 DEF TokensAreLexemes, LexemesWellFormed, TokensMaximal, Lexemes, Maximal
<1> QED BY <1>1, InitLInv, NextLInv, Invariance, PTL DEF Spec

----------------------------------------------------------------------------
(* What the parser is given.                                               *)

(* Every set of natural numbers that is not empty has a least element, in  *)
(* place of an induction.                                                  *)
LEMMA NatLeast ==
    ASSUME NEW T, T \subseteq Nat, T # {}
    PROVE  \E n \in T : \A m \in T : n <= m
<1> DEFINE Below(n) == 0 .. n
           F == {Below(n) : n \in T}
           R == StrictSubsetOrdering(Nat)
<1>1. F \subseteq FiniteSubsetsOf(Nat)
  <2> SUFFICES ASSUME NEW n \in T PROVE Below(n) \in FiniteSubsetsOf(Nat)
    OBVIOUS
  <2>1. IsFiniteSet(Below(n)) /\ Below(n) \subseteq Nat
    BY FS_Interval
  <2> QED BY <2>1 DEF FiniteSubsetsOf
<1>2. PICK x \in F : \A y \in F : <<y, x>> \notin R
  <2>1. IsWellFoundedOn(R, FiniteSubsetsOf(Nat)) BY FS_StrictSubsetOrderingWellFounded
  <2>2. F # {} OBVIOUS
  <2> QED BY <2>1, <2>2, <1>1, WFMin
<1>3. PICK n \in T : x = Below(n) BY <1>2
<1>4. ASSUME NEW m \in T, m < n PROVE FALSE
  <2>1. Below(m) \subseteq Below(n) /\ Below(m) # Below(n)
    BY <1>4
  <2>2. <<Below(m), Below(n)>> \in R
    BY <2>1 DEF StrictSubsetOrdering
  <2> QED BY <2>2, <1>2, <1>3
<1> QED BY <1>4

(* The tokens of a tiling come in the order of the source.                 *)
LEMMA TilesInOrder ==
    ASSUME NEW s \in Seq(Token), NEW n \in Nat, Tiles(s, n), \A k \in 1 .. Len(s) : s[k].len > 0
    PROVE  InSourceOrder(s)
<1> SUFFICES ASSUME NEW m \in 1 .. Len(s),
                    \E k \in 1 .. Len(s) : m < k /\ ~ (s[m].src_idx < s[k].src_idx)
             PROVE  FALSE
  BY DEF InSourceOrder
<1> DEFINE T == {k \in 1 .. Len(s) : m < k /\ ~ (s[m].src_idx < s[k].src_idx)}
<1>1. Len(s) \in Nat /\ \A k \in 1 .. Len(s) : s[k].src_idx \in Nat /\ s[k].len \in Nat
  <2>1. \A k \in 1 .. Len(s) : s[k] \in Token
    OBVIOUS
  <2>2. \A t \in Token : t.src_idx \in Nat /\ t.len \in Nat
    BY DEF Token
  <2> QED BY <2>1, <2>2
<1>2. T \subseteq Nat /\ T # {}
  OBVIOUS
<1> HIDE DEF T
<1>3. PICK k \in T : \A j \in T : k <= j
  BY <1>2, NatLeast
<1>4. k \in 1 .. Len(s) /\ m < k /\ ~ (s[m].src_idx < s[k].src_idx)
  BY <1>3 DEF T
<1>5. k - 1 \in 1 .. Len(s) /\ k - 1 \in 1 .. Len(s) - 1 /\ k - 1 + 1 = k
  BY <1>1, <1>4
<1>6. s[k - 1].src_idx + s[k - 1].len = s[k].src_idx
  <2>1. End(s[k - 1]) = s[k - 1 + 1].src_idx
    BY <1>5 DEF Tiles
  <2> QED BY <2>1, <1>5 DEF End
<1>7. s[k - 1].src_idx < s[k].src_idx
  BY <1>1, <1>4, <1>5, <1>6
<1>8. k - 1 \notin T
  BY <1>3, <1>4
<1>9. CASE k - 1 = m
  BY <1>4, <1>7, <1>9
<1>10. CASE k - 1 # m
  <2>1. m < k - 1
    BY <1>4, <1>10
  <2>2. s[m].src_idx < s[k - 1].src_idx
    BY <1>5, <1>8, <2>1 DEF T
  <2> QED BY <1>1, <1>4, <1>5, <1>7, <2>2
<1> QED BY <1>9, <1>10

(* The tokens that a successful tokenize() returns are what Parser assumes *)
(* of its TokenStreams: of their type, and in the order of the source.     *)
THEOREM ResultIsTokenStream ==
    Spec => [](status = "ok" => tokens \in {s \in Seq(Token) : InSourceOrder(s)})
<1>1. ASSUME IInv, status = "ok" PROVE tokens \in {s \in Seq(Token) : InSourceOrder(s)}
  <2>1. tokens \in Seq(Token) /\ Tiles(tokens, i) /\ i \in Nat
    BY <1>1, CountersTyped DEF IInv, TypeOK, DoneTiles
  <2>2. \A k \in 1 .. Len(tokens) : tokens[k].len > 0
    BY <1>1 DEF IInv, PushedSpan, Spans
  <2> QED BY <2>1, <2>2, TilesInOrder
<1> QED BY <1>1, Invariance, PTL

----------------------------------------------------------------------------
(* The balance of the tokens: no prefix of them closes more brackets than  *)
(* it opens, and all of them leave depth brackets open.                    *)
CountOf(s, type, n) == Cardinality({k \in 1 .. n : s[k].type = type})

Rises(s, d) ==
    /\ \A n \in 0 .. Len(s) : CountOf(s, "close", n) <= CountOf(s, "open", n)
    /\ CountOf(s, "close", Len(s)) + d = CountOf(s, "open", Len(s))

CInv ==
    /\ status \in {"scan", "ok", "abort"} => Rises(tokens, depth)
    /\ status = "ok" => depth = 0

LEMMA CountOfNext ==
    ASSUME NEW s, NEW type, NEW n \in Nat
    PROVE  /\ CountOf(s, type, n) \in Nat
           /\ s[n + 1].type = type => CountOf(s, type, n + 1) = CountOf(s, type, n) + 1
           /\ s[n + 1].type # type => CountOf(s, type, n + 1) = CountOf(s, type, n)
<1> DEFINE K(m) == {k \in 1 .. m : s[k].type = type}
<1>1. IsFiniteSet(K(n))
  <2>1. IsFiniteSet(1 .. n) /\ K(n) \in SUBSET (1 .. n)
    BY FS_Interval
  <2> QED BY <2>1, FS_Subset
<1>2. Cardinality(K(n)) \in Nat
  BY <1>1, FS_CardinalityType
<1>3. CASE s[n + 1].type = type
  <2>1. K(n + 1) = K(n) \cup {n + 1} /\ n + 1 \notin K(n)
    BY <1>3
  <2>2. Cardinality(K(n) \cup {n + 1}) = Cardinality(K(n)) + 1
    BY <1>1, <2>1, FS_AddElement
  <2> QED BY <1>2, <1>3, <2>1, <2>2 DEF CountOf
<1>4. CASE s[n + 1].type # type
  <2>1. K(n + 1) = K(n)
    BY <1>4
  <2> QED BY <1>2, <1>4, <2>1 DEF CountOf
<1> QED BY <1>3, <1>4

LEMMA CountOfPrefix ==
    ASSUME NEW s \in Seq(Token), NEW t \in Token, NEW type, NEW n \in 0 .. Len(s)
    PROVE  CountOf(Append(s, t), type, n) = CountOf(s, type, n)
<1>1. \A k \in 1 .. n : Append(s, t)[k] = s[k]
  OBVIOUS
<1>2. {k \in 1 .. n : Append(s, t)[k].type = type} = {k \in 1 .. n : s[k].type = type}
  BY <1>1
<1> QED BY <1>2 DEF CountOf

(* One more token, and what it makes of the depth.                         *)
LEMMA RisesAppend ==
    ASSUME NEW s \in Seq(Token), NEW t \in Token, NEW d \in Nat, NEW e \in Nat, Rises(s, d),
           e = CASE t.type = "open" -> d + 1 [] t.type = "close" -> d - 1 [] OTHER -> d
    PROVE  Rises(Append(s, t), e)
<1> DEFINE u == Append(s, t)
<1>1. PICK l \in Nat : l = Len(s)
  OBVIOUS
<1>2. Len(u) = l + 1 /\ u[l + 1] = t
  BY <1>1
<1>3. \A n \in 0 .. l : /\ CountOf(u, "open", n) = CountOf(s, "open", n)
                        /\ CountOf(u, "close", n) = CountOf(s, "close", n)
  BY <1>1, CountOfPrefix
<1>4. l \in 0 .. l
  OBVIOUS
<1> HIDE DEF u
<1>5. PICK a \in Nat, b \in Nat : a = CountOf(u, "open", l) /\ b = CountOf(u, "close", l)
  BY CountOfNext
<1>6. b + d = a
  BY <1>1, <1>3, <1>4, <1>5 DEF Rises
<1>7. CountOf(u, "open", l + 1) = IF t.type = "open" THEN a + 1 ELSE a
  BY <1>2, <1>5, CountOfNext
<1>8. CountOf(u, "close", l + 1) = IF t.type = "close" THEN b + 1 ELSE b
  BY <1>2, <1>5, CountOfNext
<1>9. CountOf(u, "close", l + 1) + e = CountOf(u, "open", l + 1)
  <2>1. CASE t.type = "open"
    BY <1>6, <1>7, <1>8, <2>1
  <2>2. CASE t.type = "close"
    BY <1>6, <1>7, <1>8, <2>2
  <2>3. CASE t.type \notin {"open", "close"}
    BY <1>6, <1>7, <1>8, <2>3
  <2> QED BY <2>1, <2>2, <2>3
<1>10. CountOf(u, "close", l + 1) <= CountOf(u, "open", l + 1)
  <2>1. CountOf(u, "close", l + 1) \in Nat /\ CountOf(u, "open", l + 1) \in Nat
    BY <1>5, <1>7, <1>8
  <2> QED BY <1>9, <2>1
<1>11. \A n \in 0 .. l + 1 : CountOf(u, "close", n) <= CountOf(u, "open", n)
  <2> SUFFICES ASSUME NEW n \in 0 .. l + 1 PROVE CountOf(u, "close", n) <= CountOf(u, "open", n)
    OBVIOUS
  <2>1. CASE n = l + 1
    BY <1>10, <2>1
  <2>2. CASE n # l + 1
    <3>1. n \in 0 .. l
      BY <2>2
    <3> QED BY <1>1, <1>3, <3>1 DEF Rises
  <2> QED BY <2>1, <2>2
<1>12. Rises(u, e)
  BY <1>2, <1>9, <1>11 DEF Rises
<1> QED BY <1>12 DEF u

LEMMA EmittedRises ==
    ASSUME IInv, CInv, status = "scan"
    PROVE  Rises(Emitted, depth) /\ Emitted \in Seq(Token) /\ depth \in Nat
<1>1. Rises(tokens, depth) /\ tokens \in Seq(Token) /\ tok \in Token /\ depth \in Nat
  BY DEF CInv, IInv, TypeOK
<1>2. CASE has_token
  <2>1. tok.type \notin {"open", "close"}
    BY <1>2 DEF IInv, PendingAtHead, HasSlice
  <2>2. Rises(Append(tokens, tok), depth)
    BY <1>1, <2>1, RisesAppend
  <2> QED BY <1>1, <1>2, <2>2 DEF Emitted
<1>3. CASE ~ has_token
  BY <1>1, <1>3 DEF Emitted
<1> QED BY <1>2, <1>3

LEMMA NextCInv == IInv /\ CInv /\ [Next]_vars => CInv'
<1> SUFFICES ASSUME IInv, CInv, [Next]_vars PROVE CInv'
  OBVIOUS
<1>t. depth \in Nat
  BY CountersTyped
<1>r. ASSUME Rises(tokens', depth') PROVE Rises(tokens, depth)'
  BY <1>r DEF Rises, CountOf
<1>s. ASSUME status' = "scan", Rises(tokens', depth') PROVE CInv'
  BY <1>r, <1>s DEF CInv
<1>1. CASE ScanOpen
  <2>1. InLoop /\ depth' = depth + 1 /\ PushMark("open", depth + 1)
    BY <1>1 DEF ScanOpen, Scanning
  <2>2. tokens' = Append(Emitted, tok') /\ status' = "scan" /\ tok' \in Token /\ tok'.type = "open"
    BY <1>t, <2>1, MarkPushed
  <2>3. Rises(Emitted, depth) /\ Emitted \in Seq(Token)
    BY <2>1, EmittedRises DEF InLoop
  <2>4. Rises(tokens', depth')
    BY <1>t, <2>1, <2>2, <2>3, RisesAppend
  <2> QED BY <1>s, <2>2, <2>4
<1>2. CASE ScanClose
  <2>1. InLoop /\ depth > 0 /\ depth' = depth - 1 /\ PushMark("close", depth)
    BY <1>2 DEF ScanClose, Scanning
  <2>2. tokens' = Append(Emitted, tok') /\ status' = "scan" /\ tok' \in Token /\ tok'.type = "close"
    BY <1>t, <2>1, MarkPushed
  <2>3. Rises(Emitted, depth) /\ Emitted \in Seq(Token)
    BY <2>1, EmittedRises DEF InLoop
  <2>4. Rises(tokens', depth')
    BY <1>t, <2>1, <2>2, <2>3, RisesAppend
  <2> QED BY <1>s, <2>2, <2>4
<1>3. CASE ScanQuote
  <2>1. InLoop /\ depth' = depth /\ PushMark("quote", 0)
    BY <1>3 DEF ScanQuote, Scanning
  <2>2. tokens' = Append(Emitted, tok') /\ status' = "scan" /\ tok' \in Token /\ tok'.type = "quote"
    BY <1>t, <2>1, MarkPushed
  <2>3. Rises(Emitted, depth) /\ Emitted \in Seq(Token)
    BY <2>1, EmittedRises DEF InLoop
  <2>4. Rises(tokens', depth')
    BY <1>t, <2>1, <2>2, <2>3, RisesAppend
  <2> QED BY <1>s, <2>2, <2>4
<1>4. CASE ScanWhitespace \/ ScanDigit \/ ScanPoint \/ ScanWordRest \/ ScanWordFirst
  <2>1. status' = status /\ status = "scan" /\ depth' = depth /\ tokens' \in {tokens, Emitted}
    BY <1>4 DEF ScanWhitespace, ScanDigit, ScanPoint, ScanWordRest, ScanWordFirst,
                StartToken, ExtendToken, Scanning, InLoop
  <2>2. Rises(tokens', depth')
    BY <2>1, EmittedRises DEF CInv
  <2> QED BY <1>s, <2>1, <2>2
<1>5. CASE RejectClose \/ RejectLastQuote \/ RejectQuote \/ RejectCharacter \/ RejectUnclosed
  <2>1. status' \in Errors
    BY <1>5 DEF RejectClose, RejectLastQuote, RejectQuote, RejectCharacter, RejectUnclosed,
                Fail, Errors
  <2> QED BY <2>1 DEF CInv, Errors
<1>6. CASE AbortNonAscii
  <2>1. status' = "abort" /\ status = "scan" /\ UNCHANGED <<tokens, depth>>
    BY <1>6 DEF AbortNonAscii, Scanning, InLoop
  <2> QED BY <1>r, <2>1 DEF CInv
<1>7. CASE Finish
  <2>1. status' = "ok" /\ status = "scan" /\ depth = 0 /\ depth' = depth /\ tokens' = Emitted
    BY <1>7 DEF Finish
  <2>2. Rises(tokens', depth')
    BY <2>1, EmittedRises
  <2> QED BY <1>r, <2>1, <2>2 DEF CInv
<1>8. CASE UNCHANGED vars
  BY <1>8, <1>r DEF vars, CInv
<1> QED BY <1>1, <1>2, <1>3, <1>4, <1>5, <1>6, <1>7, <1>8 DEF Next, Returned

LEMMA InitCInv == Init => CInv
<1> SUFFICES ASSUME Init PROVE CInv
  OBVIOUS
<1>1. {k \in 1 .. 0 : tokens[k].type = "open"} = {} /\ {k \in 1 .. 0 : tokens[k].type = "close"} = {}
  OBVIOUS
<1>2. CountOf(tokens, "open", 0) = 0 /\ CountOf(tokens, "close", 0) = 0
  BY <1>1, FS_EmptySet DEF CountOf
<1>3. Len(tokens) = 0 /\ 0 .. 0 = {0} /\ depth = 0
  BY DEF Init
<1> QED BY <1>2, <1>3 DEF CInv, Rises

(* The tokens of a source that tokenize() accepts have their brackets      *)
(* balanced, whatever its length and nesting: what parse_tokens() relies   *)
(* on when it returns from an activation at every bracket that closes.     *)
ResultBalanced == status = "ok" => Rises(tokens, 0)

THEOREM ResultIsBalanced == Spec => []ResultBalanced
<1>1. CInv => ResultBalanced
  BY DEF CInv, ResultBalanced
<1> QED BY <1>1, InitCInv, NextCInv, Invariance, PTL DEF Spec


----------------------------------------------------------------------------
(* The brackets of the text itself: no prefix of what has been read closes *)
(* more than it opens; and the tokens that have no slice are one character *)
(* long.                                                                   *)
Prefixes == \A k \in 0 .. i : CountIn(k, "]") <= CountIn(k, "[")

MarksShort(s) == \A k \in 1 .. Len(s) : s[k].type \in Marks => s[k].len = 1

UInv == Prefixes /\ MarksShort(tokens)

LEMMA MarksAppend ==
    ASSUME NEW s \in Seq(Token), MarksShort(s), NEW t \in Token, t.type \in Marks => t.len = 1
    PROVE  MarksShort(Append(s, t))
<1>1. Len(s) \in Nat /\ Len(Append(s, t)) = Len(s) + 1
  OBVIOUS
<1>2. \A k \in 1 .. Len(s) + 1 : Append(s, t)[k] = IF k = Len(s) + 1 THEN t ELSE s[k]
  OBVIOUS
<1>3. \A k \in 1 .. Len(s) + 1 : k = Len(s) + 1 \/ k \in 1 .. Len(s)
  BY <1>1
<1> QED BY <1>1, <1>2, <1>3 DEF MarksShort

LEMMA PrefixesStep ==
    ASSUME IInv, Prefixes, IInv', Balance', src' = src, i' \in {i, i + 1}
    PROVE  Prefixes'
<1>1. i \in Nat /\ i' \in Nat /\ depth' \in Nat
  BY DEF IInv, TypeOK
<1>2. \A k, c : CountIn(k, c)' = CountIn(k, c)
  BY DEF CountIn
<1>3. CountIn(i', "]") <= CountIn(i', "[")
  <2>1. depth' + CountIn(i', "]") = CountIn(i', "[")
    BY <1>2 DEF Balance, CountIn
  <2>2. CountIn(i', "]") \in Nat /\ CountIn(i', "[") \in Nat
    BY <1>1, CountNext
  <2> QED BY <1>1, <2>1, <2>2
<1>4. ASSUME NEW k \in 0 .. i' PROVE CountIn(k, "]") <= CountIn(k, "[")
  <2>1. k = i' \/ k \in 0 .. i
    BY <1>1
  <2> QED BY <1>3, <2>1 DEF Prefixes
<1> QED BY <1>2, <1>4 DEF Prefixes, CountIn

LEMMA NextUInv == IInv /\ VInv /\ UInv /\ [Next]_vars => UInv'
<1> SUFFICES ASSUME IInv, VInv, UInv, [Next]_vars PROVE UInv'
  OBVIOUS
<1>t. tokens \in Seq(Token) /\ tok \in Token /\ depth \in Nat
  BY DEF IInv, TypeOK
<1>e. ASSUME status = "scan" PROVE MarksShort(Emitted) /\ Emitted \in Seq(Token)
  <2>1. CASE has_token
    <3>1. tok.type \notin Marks
      BY <1>e, <2>1 DEF IInv, PendingAtHead, HasSlice, Marks
    <3> QED BY <1>t, <2>1, <3>1, MarksAppend DEF Emitted, UInv
  <2> QED BY <1>t, <2>1 DEF Emitted, UInv
<1>1. src' = src /\ i' \in {i, i + 1}
  BY DEF Next, vars, ScanOpen, ScanClose, ScanQuote, PushMark, ScanWhitespace, ScanDigit, ScanPoint,
         ScanWordRest, ScanWordFirst, StartToken, ExtendToken, RejectClose, RejectLastQuote, RejectQuote,
         RejectCharacter, Fail, AbortNonAscii, RejectUnclosed, Finish, Returned
<1>2. Prefixes'
  <2>1. IInv' /\ VInv'
    BY NextIInv, NextVInv
  <2> QED BY <1>1, <2>1, PrefixesStep DEF UInv, VInv
<1>3. MarksShort(tokens')
  <2>1. CASE ScanOpen \/ ScanClose \/ ScanQuote
    <3>s. status = "scan"
      BY <2>1 DEF ScanOpen, ScanClose, ScanQuote, Scanning, InLoop
    <3>1. PICK type \in Marks, d \in Nat : PushMark(type, d)
      <4>1. CASE ScanOpen
        BY <1>t, <4>1 DEF ScanOpen, Marks
      <4>2. CASE ScanClose
        BY <1>t, <4>2 DEF ScanClose, Marks
      <4>3. CASE ScanQuote
        BY <4>3 DEF ScanQuote, Marks
      <4> QED BY <2>1, <4>1, <4>2, <4>3
    <3>2. tokens' = Append(Emitted, tok') /\ tok' \in Token /\ tok'.len = 1
      <4>1. i \in Nat
        BY CountersTyped
      <4> QED BY <3>1, <4>1 DEF PushMark, ZeroToken, Marks, Token, TokenType
    <3> QED BY <1>e, <3>s, <3>2, MarksAppend
  <2>2. CASE ScanWhitespace \/ ScanDigit \/ ScanPoint \/ ScanWordRest \/ ScanWordFirst
    <3>1. tokens' \in {tokens, Emitted} /\ status = "scan"
      BY <2>2 DEF ScanWhitespace, ScanDigit, ScanPoint, ScanWordRest, ScanWordFirst,
                  StartToken, ExtendToken, Scanning, InLoop
    <3> QED BY <1>e, <3>1 DEF UInv
  <2>3. CASE RejectClose \/ RejectLastQuote \/ RejectQuote \/ RejectCharacter \/ RejectUnclosed
    <3>1. tokens' = <<>>
      BY <2>3 DEF RejectClose, RejectLastQuote, RejectQuote, RejectCharacter, RejectUnclosed, Fail
    <3> QED BY <3>1 DEF MarksShort
  <2>4. CASE Finish
    BY <1>e, <2>4 DEF Finish
  <2>5. CASE AbortNonAscii \/ UNCHANGED vars
    BY <2>5 DEF AbortNonAscii, vars, UInv
  <2> QED BY <2>1, <2>2, <2>3, <2>4, <2>5 DEF Next, Returned
<1>4. MarksShort(tokens)'
  BY <1>3 DEF MarksShort
<1> QED BY <1>2, <1>4 DEF UInv

LEMMA InitUInv == Init => UInv
<1> SUFFICES ASSUME Init PROVE UInv
  OBVIOUS
<1>1. \A c : CountIn(0, c) = 0
  BY FS_EmptySet DEF CountIn
<1>2. 0 .. 0 = {0} /\ i = 0 /\ Len(tokens) = 0 /\ 1 .. 0 = {}
  BY DEF Init
<1> QED BY <1>1, <1>2 DEF UInv, Prefixes, MarksShort

(* The first offence of a source, and what a source without one is like.   *)
LEMMA NoOffence ==
    ASSUME NEW n, Clean(n), NEW k \in 0 .. n - 1
    PROVE  /\ src[k + 1] # "~" /\ src[k + 1] # "hi"
           /\ src[k + 1] = "'" => k + 1 # Len(src) /\ src[k + 2] \in {"a", "-", "."}
<1>1. PICK build \in Builds : build \in {"debug", "release"}
  BY BuildsAssumption
<1>2. \A error \in Errors \cup {"abort"} : ~ Offence(k, build, error)
  BY <1>1 DEF Clean
<1>3. /\ ~ Offence(k, build, "standalone quote") /\ ~ Offence(k, build, "abort")
      /\ ~ Offence(k, build, "quote without word") /\ ~ Offence(k, build, "unexpected character")
  BY <1>2, Zenon DEF Errors
<1>4. src[k + 1] # "~"
  BY <1>3, Zenon DEF Offence
<1>5. build = "debug" => src[k + 1] # "hi"
  BY <1>3, Zenon DEF Offence
<1>6. build = "release" => src[k + 1] # "hi"
  BY <1>3, Zenon DEF Offence
<1>7. src[k + 1] = "'" => k + 1 # Len(src)
  BY <1>3, Zenon DEF Offence
<1>8. ASSUME src[k + 1] = "'" PROVE src[k + 2] \in {"a", "-", "."}
  BY <1>3, <1>7, <1>8, Zenon DEF Offence
<1> QED BY <1>1, <1>4, <1>5, <1>6, <1>7, <1>8

LEMMA AtOffence ==
    ASSUME NEW k, NEW build, NEW error, Offence(k, build, error)
    PROVE  /\ \/ src[k + 1] = "]" /\ CountIn(k, "[") <= CountIn(k, "]")
              \/ src[k + 1] = "'" /\ (k + 1 = Len(src) \/ src[k + 2] \notin {"a", "-", "."})
              \/ src[k + 1] = "~"
              \/ src[k + 1] = "hi"
           /\ error = "abort" => \/ src[k + 1] = "hi"
                                 \/ src[k + 1] = "'" /\ k + 1 # Len(src) /\ src[k + 2] = "hi"
<1>1. \/ src[k + 1] = "]" /\ CountIn(k, "[") <= CountIn(k, "]")
      \/ src[k + 1] = "'" /\ (k + 1 = Len(src) \/ src[k + 2] \notin {"a", "-", "."})
      \/ src[k + 1] = "~"
      \/ src[k + 1] = "hi"
  <2>1. CASE src[k + 1] = "'" /\ k + 1 # Len(src) /\ src[k + 2] = "hi"
    <3>1. src[k + 2] \notin {"a", "-", "."}
      BY <2>1
    <3> QED BY <2>1, <3>1
  <2>2. CASE ~ (src[k + 1] = "'" /\ k + 1 # Len(src) /\ src[k + 2] = "hi")
    BY <2>2, Zenon DEF Offence
  <2> QED BY <2>1, <2>2
<1>2. ASSUME error = "abort"
      PROVE  src[k + 1] = "hi" \/ (src[k + 1] = "'" /\ k + 1 # Len(src) /\ src[k + 2] = "hi")
  BY <1>2, Zenon DEF Offence
<1> QED BY <1>1, <1>2

LEMMA OkVerdict ==
    ASSUME VInv, status = "ok"
    PROVE  i = Len(src) /\ Clean(i) /\ CountIn(i, "[") = CountIn(i, "]")
<1>1. Verdict(status, i)
  BY DEF VInv, VerdictCorrect
<1>2. \A k, build : ~ Offence(k, build, "ok")
  BY Zenon DEF Offence
<1> QED BY <1>1, <1>2, Zenon DEF Verdict

LEMMA ErrorVerdict ==
    ASSUME VInv, status \in Errors \cup {"abort"}
    PROVE  \/ i < Len(src) /\ \E build \in Builds : Offence(i, build, status)
           \/ i = Len(src) /\ CountIn(i, "[") # CountIn(i, "]") /\ status # "abort"
<1>1. status # "scan" /\ status # "ok"
  BY Zenon DEF Errors
<1>2. Verdict(status, i)
  BY <1>1 DEF VInv, VerdictCorrect
<1> QED BY <1>1, <1>2, Zenon DEF Verdict


(* The tokens of an accepted source by their characters: each starts where *)
(* the one before ends, the last ends with the source, and the characters  *)
(* of each are of its type.                                                *)
LEMMA TokensInside ==
    ASSUME NEW s \in Seq(Token), NEW n \in Nat, Tiles(s, n), \A k \in 1 .. Len(s) : s[k].len > 0,
           NEW k \in 1 .. Len(s)
    PROVE  s[k].src_idx + s[k].len <= n
<1>1. \A m \in 1 .. Len(s) : s[m].src_idx \in Nat /\ s[m].len \in Nat
  <2>1. \A m \in 1 .. Len(s) : s[m] \in Token
    OBVIOUS
  <2> QED BY <2>1 DEF Token
<1>2. PICK l \in Nat : l = Len(s)
  OBVIOUS
<1>3. s[l].src_idx + s[l].len = n
  <2>1. s # <<>>
    OBVIOUS
  <2> QED BY <1>2, <2>1 DEF Tiles, End
<1>4. CASE k = l
  BY <1>3, <1>4
<1>5. CASE k # l
  <2>1. k \in 1 .. l - 1 /\ k + 1 \in 1 .. l /\ l \in 1 .. l
    BY <1>2, <1>5
  <2>2. s[k].src_idx + s[k].len = s[k + 1].src_idx
    BY <1>2, <2>1 DEF Tiles, End
  <2>3. k + 1 = l \/ s[k + 1].src_idx < s[l].src_idx
    <3>1. InSourceOrder(s)
      BY TilesInOrder
    <3>2. k + 1 = l \/ k + 1 < l
      BY <1>2, <2>1
    <3> QED BY <1>2, <2>1, <3>1, <3>2 DEF InSourceOrder
  <2>4. /\ s[k + 1].src_idx \in Nat /\ s[l].src_idx \in Nat /\ s[l].len \in Nat
        /\ s[k].src_idx \in Nat /\ s[k].len \in Nat
    BY <1>1, <1>2, <2>1
  <2>5. PICK a \in Nat, b \in Nat, c \in Nat :
           a = s[k + 1].src_idx /\ b = s[l].src_idx /\ c = s[l].len
    BY <2>4
  <2>6. a <= b /\ b + c = n
    BY <1>3, <2>3, <2>5
  <2>7. a <= n
    BY <2>6
  <2> QED BY <2>2, <2>5, <2>7
<1> QED BY <1>4, <1>5

LEMMA TokenChars ==
    ASSUME IInv, LInv, UInv, status = "ok", i = Len(src), NEW k \in 1 .. Len(tokens)
    PROVE  /\ tokens[k].type \in TokenType
           /\ tokens[k].src_idx \in Nat /\ tokens[k].len \in Nat /\ tokens[k].len > 0
           /\ tokens[k].src_idx + tokens[k].len <= Len(src)
           /\ k = 1 => tokens[k].src_idx = 0
           /\ k < Len(tokens) => tokens[k].src_idx + tokens[k].len = tokens[k + 1].src_idx
           /\ k = Len(tokens) => tokens[k].src_idx + tokens[k].len = Len(src)
           /\ tokens[k].type = "open" => tokens[k].len = 1 /\ src[tokens[k].src_idx + 1] = "["
           /\ tokens[k].type = "close" => tokens[k].len = 1 /\ src[tokens[k].src_idx + 1] = "]"
           /\ tokens[k].type = "quote" => tokens[k].len = 1 /\ src[tokens[k].src_idx + 1] = "'"
           /\ tokens[k].type = "ws" => \A m \in 1 .. tokens[k].len : src[tokens[k].src_idx + m] = " "
           /\ tokens[k].type = "word" =>
                 \A m \in 1 .. tokens[k].len : IsWordFirst(src[tokens[k].src_idx + m])
           /\ tokens[k].type = "number" =>
                 \E m \in 1 .. tokens[k].len : src[tokens[k].src_idx + m] = "0"
<1>1. /\ src \in Seq(Char) /\ tokens \in Seq(Token) /\ Tiles(tokens, Len(src))
      /\ \A m \in 1 .. Len(tokens) : Spans(tokens[m])
      /\ Len(src) \in Nat
  BY DEF IInv, TypeOK, DoneTiles, PushedSpan
<1>2. PICK t \in Token : t = tokens[k]
  BY <1>1
<1>3. t.type \in TokenType /\ t.src_idx \in Nat /\ t.len \in Nat
  BY DEF Token
<1>4. t.len > 0 /\ (HasSlice(t) => t.begin = t.src_idx /\ t.size = t.len)
  BY <1>1, <1>2 DEF Spans
<1>5. t.src_idx + t.len <= Len(src)
  <2>1. \A m \in 1 .. Len(tokens) : tokens[m].len > 0
    BY <1>1 DEF Spans
  <2> QED BY <1>1, <1>2, <2>1, TokensInside
<1>6. tokens # <<>> /\ Len(tokens) \in Nat
  BY <1>1
<1>7. k = 1 => t.src_idx = 0
  BY <1>1, <1>2, <1>6 DEF Tiles
<1>8. k < Len(tokens) => t.src_idx + t.len = tokens[k + 1].src_idx
  <2>1. k < Len(tokens) => k \in 1 .. Len(tokens) - 1
    BY <1>6
  <2> QED BY <1>1, <1>2, <2>1 DEF Tiles, End
<1>9. k = Len(tokens) => t.src_idx + t.len = Len(src)
  BY <1>1, <1>2, <1>6 DEF Tiles, End
<1>10. Lexeme(t)
  BY <1>2 DEF LInv, Lexemes
<1>11. t.type \in Marks => t.len = 1
  BY <1>2 DEF UInv, MarksShort
<1>12. /\ t.type = "open" => src[t.src_idx + 1] = "["
       /\ t.type = "close" => src[t.src_idx + 1] = "]"
       /\ t.type = "quote" => src[t.src_idx + 1] = "'"
  BY <1>10 DEF Lexeme
<1>13. ASSUME HasSlice(t)
       PROVE  /\ t.begin = t.src_idx /\ t.size = t.len /\ DOMAIN Text(t) = 1 .. t.len
              /\ \A m \in 1 .. t.len : Text(t)[m] = src[t.src_idx + m]
  <2>1. t.begin + t.size <= Len(src) /\ t.begin = t.src_idx /\ t.size = t.len
    BY <1>4, <1>5, <1>13
  <2>2. /\ DOMAIN Text(t) = 1 .. t.size
        /\ \A m \in 1 .. t.size : Text(t)[m] = src[t.begin + m]
    BY <1>1, <2>1, TextFacts
  <2> QED BY <2>1, <2>2
<1>14. ASSUME t.type = "ws", NEW m \in 1 .. t.len PROVE src[t.src_idx + m] = " "
  <2>1. HasSlice(t)
    BY <1>14 DEF HasSlice
  <2>2. m \in DOMAIN Text(t) /\ Text(t)[m] = src[t.src_idx + m]
    BY <1>13, <2>1
  <2>3. \A j \in DOMAIN Text(t) : Text(t)[j] = " "
    BY <1>10, <1>14, Zenon DEF Lexeme
  <2> QED BY <2>2, <2>3
<1>15. ASSUME t.type = "word", NEW m \in 1 .. t.len PROVE IsWordFirst(src[t.src_idx + m])
  <2>1. HasSlice(t)
    BY <1>15 DEF HasSlice
  <2>2. m \in DOMAIN Text(t) /\ Text(t)[m] = src[t.src_idx + m]
    BY <1>13, <2>1
  <2>3. \A j \in DOMAIN Text(t) : IsWordFirst(Text(t)[j])
    BY <1>10, <1>15, Zenon DEF Lexeme
  <2>4. IsWordFirst(Text(t)[m])
    BY <2>2, <2>3
  <2> QED BY <2>2, <2>4
<1>16. ASSUME t.type = "number" PROVE \E m \in 1 .. t.len : src[t.src_idx + m] = "0"
  <2>1. HasSlice(t)
    BY <1>16 DEF HasSlice
  <2>2. DOMAIN Text(t) = 1 .. t.len /\ \A m \in 1 .. t.len : Text(t)[m] = src[t.src_idx + m]
    BY <1>13, <2>1
  <2>3. \E m \in DOMAIN Text(t) : Text(t)[m] = "0"
    BY <1>10, <1>16, Zenon DEF Lexeme, IsNumeral
  <2> QED BY <2>2, <2>3
<1> QED BY <1>2, <1>3, <1>4, <1>5, <1>7, <1>8, <1>9, <1>11, <1>12, <1>14, <1>15, <1>16 DEF Marks
=============================================================================
