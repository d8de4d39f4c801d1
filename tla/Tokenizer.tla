----------------------------- MODULE Tokenizer -----------------------------
(***************************************************************************)
(* tokenize() of src/parsing.c: one pass over the source that cuts it into *)
(* tokens.  The loop body is an if/else chain on the current character; it *)
(* is one action per branch here, and an action's guard excludes the       *)
(* branches above it.  A character is its class: "a" is any letter or '_', *)
(* "0" any digit, " " any white space, "~" any other ASCII character and   *)
(* "hi" any byte above 127.  Indices are 0-based as in the code, so the    *)
(* character at i is src[i + 1].                                           *)
(***************************************************************************)
EXTENDS Tokens, FiniteSets

CONSTANTS
    Sources,    (* the source texts to tokenize                             *)
    Builds      (* "debug", where assert() is compiled in, or "release"     *)

Char == {"[", "]", "'", " ", "0", ".", "-", "a", "~", "hi"}

ASSUME SourcesAssumption == Sources \subseteq Seq(Char)
ASSUME BuildsAssumption == Builds # {} /\ Builds \subseteq {"debug", "release"}

VARIABLES
    src,         (* the StringView being tokenized; never changes           *)
    i,           (* the loop counter                                        *)
    tokens,      (* the Tokens pushed so far; freed when tokenize fails     *)
    tok,         (* the token being built ...                               *)
    has_token,   (* ... and whether it is pending, i.e. not yet pushed      *)
    slice_begin, (* where the pending token's slice starts                  *)
    depth,       (* brackets open                                           *)
    status,      (* "scan", "ok", "abort", or the error returned            *)
    location     (* the ErrorLocation returned with an error                *)

vars == <<src, i, tokens, tok, has_token, slice_begin, depth, status, location>>

ZeroToken == [type |-> "quote", src_idx |-> 0, len |-> 0,
              begin |-> 0, size |-> 0, depth |-> 0]

IsWordFirst(c) == c \in {"a", "-", "."}
IsWordRest(c)  == IsWordFirst(c) \/ c = "0"

(* strv_slice, as the characters of a token's slice.                       *)
Text(t) == SubSeq(src, t.begin + 1, t.begin + t.size)

(* strv_contains(tok.as_number, '.')                                       *)
HasDot(t) == \E k \in 1 .. t.size : src[t.begin + k] = "."

Init ==
    /\ src \in Sources
    /\ i = 0
    /\ tokens = <<>>
    /\ tok = ZeroToken
    /\ has_token = FALSE
    /\ slice_begin = 0
    /\ depth = 0
    /\ status = "scan"
    /\ location = [src_idx |-> 0, len |-> 0]

----------------------------------------------------------------------------
(* The loop, branch by branch.                                             *)

InLoop == status = "scan" /\ i < Len(src)

Scanning(c) == InLoop /\ src[i + 1] = c

(* emit_token: push the pending token, if there is one.                    *)
Emitted == IF has_token THEN Append(tokens, tok) ELSE tokens

(* The cases that push a token of one character at once.                   *)
PushMark(type, d) ==
    /\ tok' = [ZeroToken EXCEPT !.type = type, !.src_idx = i, !.len = 1, !.depth = d]
    /\ tokens' = Append(Emitted, tok')
    /\ has_token' = FALSE
    /\ i' = i + 1
    /\ UNCHANGED <<src, slice_begin, status, location>>

(* Mutant of StartToken: the pending token is not pushed.                  *)
StartTokenDropsPending(type) ==
    /\ tokens' = tokens
    /\ tok' = [ZeroToken EXCEPT !.type = type, !.src_idx = i, !.len = 1,
                                !.begin = i, !.size = 1]
    /\ slice_begin' = i
    /\ has_token' = TRUE
    /\ i' = i + 1
    /\ UNCHANGED <<src, depth, status, location>>

(* Mutant of StartToken: slice_begin keeps the start of an earlier token.  *)
StartTokenKeepsSliceBegin(type) ==
    /\ tokens' = Emitted
    /\ tok' = [ZeroToken EXCEPT !.type = type, !.src_idx = i, !.len = 1,
                                !.begin = i, !.size = 1]
    /\ has_token' = TRUE
    /\ i' = i + 1
    /\ UNCHANGED <<src, slice_begin, depth, status, location>>

(* The cases that push the pending token and start another.                *)
StartToken(type) ==
    /\ tokens' = Emitted
    /\ tok' = [ZeroToken EXCEPT !.type = type, !.src_idx = i, !.len = 1,
                                !.begin = i, !.size = 1]
    /\ slice_begin' = i
    /\ has_token' = TRUE
    /\ i' = i + 1
    /\ UNCHANGED <<src, depth, status, location>>

(* The cases that lengthen the pending token, of the given type from now.  *)
ExtendToken(type) ==
    /\ tok' = [tok EXCEPT !.type = type, !.len = @ + 1,
                          !.begin = slice_begin, !.size = i + 1 - slice_begin]
    /\ i' = i + 1
    /\ UNCHANGED <<src, tokens, has_token, slice_begin, depth, status, location>>

(* An error return: free_tokens(tokens) and the location of the error.     *)
Fail(error, at, length) ==
    /\ status' = error
    /\ location' = [src_idx |-> at, len |-> length]
    /\ tokens' = <<>>
    /\ UNCHANGED <<src, i, tok, has_token, slice_begin, depth>>

(* Mutant of ScanOpen: depth++ for ++depth in the token.                   *)
ScanOpenPostIncrement ==
    /\ Scanning("[")
    /\ depth' = depth + 1
    /\ PushMark("open", depth)

ScanOpen ==
    /\ Scanning("[")
    /\ depth' = depth + 1
    /\ PushMark("open", depth + 1)

(* Mutant of ScanClose: no check for a bracket to close.                   *)
ScanCloseUnchecked ==
    /\ Scanning("]")
    /\ depth' = depth - 1
    /\ PushMark("close", depth)

ScanClose ==
    /\ Scanning("]")
    /\ depth > 0
    /\ depth' = depth - 1
    /\ PushMark("close", depth)

RejectClose ==
    /\ Scanning("]")
    /\ depth = 0
    /\ Fail("extra closing bracket", i, 1)

(* The program is one of Builds.  Which of them makes a difference only to *)
(* a byte above 127, which ends tokenize() in each, so it is chosen there: *)
(* assert(codepoint <= 127) in c_isletter or c_iswhitespace aborts a debug *)
(* build, and to a release build the byte is neither letter nor blank.     *)
Passes(c) == c = "hi" => "release" \in Builds

ScanQuote ==
    /\ Scanning("'")
    /\ i + 1 < Len(src)
    /\ IsWordFirst(src[i + 2])
    /\ PushMark("quote", 0)
    /\ UNCHANGED depth

RejectLastQuote ==
    /\ Scanning("'")
    /\ i + 1 = Len(src)
    /\ Fail("standalone quote", i, 1)

RejectQuote ==
    /\ Scanning("'")
    /\ i + 1 < Len(src)
    /\ ~ IsWordFirst(src[i + 2]) /\ Passes(src[i + 2])
    /\ Fail("quote without word", i, 2)

ScanWhitespace ==
    /\ Scanning(" ")
    /\ IF has_token /\ tok.type = "ws" THEN ExtendToken("ws") ELSE StartToken("ws")

(* Mutants of Punnable: any pending word becomes a number, and only "-".   *)
PunnableAnyWord == has_token /\ tok.type = "word"
PunnableSign == has_token /\ tok.type = "word" /\ Text(tok) = <<"-">>

(* A word that is only a sign or a point becomes a number.                 *)
Punnable == has_token /\ tok.type = "word" /\ Text(tok) \in {<<"-">>, <<"-", ".">>, <<".">>}

ScanDigit ==
    /\ Scanning("0")
    /\ IF Punnable \/ (has_token /\ tok.type = "number")
       THEN ExtendToken("number")
       ELSE StartToken("number")

ContinuesNumber == has_token /\ tok.type = "number" /\ ~ HasDot(tok)

ScanPoint ==
    /\ Scanning(".")
    /\ ContinuesNumber
    /\ ExtendToken("number")

(* Digits were taken above, whatever IsWordRest says of them.              *)
ScanWordRest ==
    /\ InLoop
    /\ src[i + 1] # "0" /\ ~ (src[i + 1] = "." /\ ContinuesNumber)
    /\ has_token /\ tok.type = "word" /\ IsWordRest(src[i + 1])
    /\ ExtendToken("word")

ScanWordFirst ==
    /\ InLoop
    /\ ~ (src[i + 1] = "." /\ ContinuesNumber)
    /\ ~ (has_token /\ tok.type = "word")
    /\ IsWordFirst(src[i + 1])
    /\ StartToken("word")

RejectCharacter ==
    /\ Scanning("~") \/ (Scanning("hi") /\ Passes("hi"))
    /\ Fail("unexpected character", i, 1)

(* abort(), at the byte or at a quote in front of it: the process is gone, *)
(* nothing is freed.                                                       *)
AbortNonAscii ==
    /\ "debug" \in Builds
    /\ Scanning("hi") \/ (Scanning("'") /\ i + 1 < Len(src) /\ src[i + 2] = "hi")
    /\ status' = "abort"
    /\ UNCHANGED <<src, i, tokens, tok, has_token, slice_begin, depth, location>>

(* After the loop (an empty source returns before it, with no token).      *)
RejectUnclosed ==
    /\ status = "scan" /\ i = Len(src)
    /\ depth # 0
    /\ Fail("too many opening brackets", 0, 0)

(* Mutant of Finish: brackets may still be open.                           *)
FinishUnchecked ==
    /\ status = "scan" /\ i = Len(src)
    /\ tokens' = Emitted
    /\ has_token' = FALSE
    /\ status' = "ok"
    /\ UNCHANGED <<src, i, tok, slice_begin, depth, location>>

Finish ==
    /\ status = "scan" /\ i = Len(src)
    /\ depth = 0
    /\ tokens' = Emitted
    /\ has_token' = FALSE
    /\ status' = "ok"
    /\ UNCHANGED <<src, i, tok, slice_begin, depth, location>>

(* tokenize has returned.                                                  *)
Returned == status # "scan" /\ UNCHANGED vars

Next ==
    \/ ScanOpen \/ ScanClose \/ ScanQuote \/ ScanWhitespace \/ ScanDigit
    \/ ScanPoint \/ ScanWordRest \/ ScanWordFirst
    \/ RejectClose \/ RejectLastQuote \/ RejectQuote \/ RejectCharacter
    \/ AbortNonAscii \/ RejectUnclosed \/ Finish
    \/ Returned

Spec == Init /\ [][Next]_vars

----------------------------------------------------------------------------
(* Properties.                                                             *)

Errors == {"extra closing bracket", "standalone quote", "quote without word",
           "unexpected character", "too many opening brackets"}

(* Every variable stays in its type, and the loop never reads past src.    *)
TypeOK ==
    /\ src \in Seq(Char)
    /\ i \in 0 .. Len(src)
    /\ tokens \in Seq(Token)
    /\ tok \in Token
    /\ has_token \in BOOLEAN
    /\ slice_begin \in Nat
    /\ depth \in Nat
    /\ status \in {"scan", "ok", "abort"} \cup Errors
    /\ location \in [src_idx : Nat, len : Nat]

(* The tokens pushed, and the pending one after them.                      *)
Stream == Emitted

End(t) == t.src_idx + t.len

Tiles(s, n) ==
    /\ s = <<>> <=> n = 0
    /\ s # <<>> => s[1].src_idx = 0 /\ End(s[Len(s)]) = n
    /\ \A k \in 1 .. Len(s) - 1 : End(s[k]) = s[k + 1].src_idx

(* While tokenize runs, and when it succeeds, the tokens tile the source   *)
(* read so far: the first starts at 0, each starts where the one before    *)
(* ends, and the last ends at i.  No character is lost or read twice,      *)
(* whichever branches pushed, punned or extended a token in between.       *)
TokensTile == status \in {"scan", "ok"} => Tiles(Stream, i)

HasSlice(t) == t.type \in {"word", "number", "ws"}

Spans(t) == t.len > 0 /\ (HasSlice(t) => t.begin = t.src_idx /\ t.size = t.len)

(* A word, number or white space token's slice, kept apart from src_idx    *)
(* and len and computed from slice_begin, is exactly that span of src.     *)
SliceIsSpan == \A k \in 1 .. Len(Stream) : Spans(Stream[k])

(* What parse_number relies on when it indexes as_number without a check:  *)
(* an optional sign in front, at most one point, a digit somewhere.        *)
IsNumeral(s) ==
    /\ \E k \in DOMAIN s : s[k] = "0"
    /\ \A k \in DOMAIN s : s[k] \in {"0", "."} \/ (k = 1 /\ s[k] = "-")
    /\ \A j, k \in DOMAIN s : s[j] = "." /\ s[k] = "." => j = k

Lexeme(t) ==
    LET s == Text(t)
        first == src[t.src_idx + 1]
    IN  /\ t.type = "open"   => first = "["
        /\ t.type = "close"  => first = "]"
        /\ t.type = "quote"  => first = "'"
        /\ t.type = "ws"     => \A k \in DOMAIN s : s[k] = " "
        /\ t.type = "word"   => \A k \in DOMAIN s : IsWordFirst(s[k])
        /\ t.type = "number" => IsNumeral(s)

(* A text of its token's type can be parsed as that, and no word holds a   *)
(* digit.                                                                  *)
LexemesWellFormed == \A k \in 1 .. Len(Stream) : Lexeme(Stream[k])

(* Two tokens next to each other could not have been one: the scanner      *)
(* takes the longest token, except that a digit always leaves a word.      *)
Mergeable(t, u) ==
    LET next == src[u.src_idx + 1]
    IN  \/ t.type = "ws" /\ u.type = "ws"
        \/ t.type = "word" /\ u.type = "word"
        \/ t.type = "word" /\ u.type = "number"
               /\ Text(t) \in {<<"-">>, <<"-", ".">>, <<".">>}
        \/ t.type = "number" /\ next = "0"
        \/ t.type = "number" /\ next = "." /\ ~ HasDot(t)

TokensMaximal ==
    \A k \in 1 .. Len(Stream) - 1 : ~ Mergeable(Stream[k], Stream[k + 1])

(* Every token is a longest text of its type, also after the pun from word *)
(* to number that the next character decides: parse_number() may rely on a *)
(* digit, on at most one point and on the place of the sign.               *)
TokensAreLexemes == LexemesWellFormed /\ TokensMaximal

(* Brackets carry their nesting depth: a closing token's depth is that of  *)
(* the opening token it closes, the nearest one before it that no bracket  *)
(* in between has closed; and a successful result leaves none open.        *)
Mates(j, k) ==
    /\ tokens[j].type = "open" /\ tokens[k].type = "close"
    /\ tokens[j].depth = tokens[k].depth
    /\ \A m \in j + 1 .. k - 1 :
          IsBracket(tokens[m]) => tokens[m].depth > tokens[j].depth

BracketsMatch ==
    /\ \A k \in 1 .. Len(tokens) :
          tokens[k].type = "close" => \E j \in 1 .. k - 1 : Mates(j, k)
    /\ status = "ok" =>
          \A j \in 1 .. Len(tokens) :
             tokens[j].type = "open" => \E k \in j + 1 .. Len(tokens) : Mates(j, k)

(* The verdict on a source, from the source alone: the error of the first  *)
(* character that cannot be there, at that character, or of a bracket left *)
(* open.                                                                   *)
CountIn(n, c) == Cardinality({k \in 1 .. n : src[k] = c})

Offence(k, build, error) ==
    LET c == src[k + 1]
        last == k + 1 = Len(src)
        next == src[k + 2]
    IN  \/ error = "extra closing bracket" /\ c = "]" /\ CountIn(k, "[") <= CountIn(k, "]")
        \/ error = "standalone quote" /\ c = "'" /\ last
        \/ error = "abort" /\ build = "debug" /\ (c = "hi" \/ (c = "'" /\ ~ last /\ next = "hi"))
        \/ /\ error = "quote without word" /\ c = "'" /\ ~ last
           /\ next \notin {"a", "-", "."} /\ ~ (build = "debug" /\ next = "hi")
        \/ error = "unexpected character" /\ (c = "~" \/ (c = "hi" /\ build = "release"))

Clean(n) == \A k \in 0 .. n - 1, build \in Builds, error \in Errors \cup {"abort"} :
                ~ Offence(k, build, error)

Verdict(error, at) ==
    \/ at < Len(src) /\ Clean(at) /\ \E build \in Builds : Offence(at, build, error)
    \/ /\ at = Len(src) /\ Clean(at)
       /\ error = IF CountIn(at, "[") = CountIn(at, "]")
                  THEN "ok" ELSE "too many opening brackets"

(* tokenize accepts exactly the sources without an offence, reports the    *)
(* first offence of the others where it is, and returns no tokens then.    *)
VerdictCorrect ==
    status # "scan" =>
        /\ Verdict(status, i)
        /\ status \in Errors => tokens = <<>>
        /\ location.len > 0 => location.src_idx = i /\ i + location.len <= Len(src)

=============================================================================
