------------------------------ MODULE Strings ------------------------------
(***************************************************************************)
(* src/string/string.c: a String that its owner appends to and empties in  *)
(* any order, with a StringView of it that the owner keeps meanwhile; and, *)
(* as a subject of its own, the chain of views that a message is made of.  *)
(* A character is its code.  The views that strv_fromcstr() makes are of   *)
(* literals and never go stale: a text stands for them.                    *)
(***************************************************************************)
EXTENDS GrowingArray, Integers, FiniteSets

CONSTANTS
    Chars,              (* the characters pushed                            *)
    Literals,           (* the C strings and Strings appended               *)
    MaxLength,          (* the bound of a string's length                   *)
    MaxMoves,           (* the bound of how often its memory is new         *)
    MAX_STRCHAIN_SIZE,  (* the links of a chain                             *)
    Builds              (* "debug", where assert() is compiled in           *)

ASSUME CharAssumption == Chars \subseteq 1 .. 127 /\ Literals \subseteq Seq(Chars)
ASSUME BoundsAssumption == {MaxLength, MaxMoves, MAX_STRCHAIN_SIZE} \subseteq Nat

VARIABLES
    subject,  (* "string", "chain" or, in Environment, "bindings"           *)
    string,   (* the String                                                 *)
    rest,     (* what str_pushcstr has still to push                        *)
    view,     (* a StringView of string, or of what it once was; text and   *)
              (* emptied, what it showed and whether str_popall() has been   *)
              (* called since, are for properties only                      *)
    chain,    (* a StringVChain: for each link its text                     *)
    pushed,   (* all that was ever pushed to it: only for properties        *)
    status    (* "run", or "abort" after a failed assert()                  *)

stringvars == <<subject, string, rest, view, chain, pushed, status>>

OnString == subject = "string" /\ rest = <<>>

StringsInit ==
    /\ subject \in {"string", "chain", "bindings"}
    /\ string \in {Alloc(0), Alloc(DefaultSize)}
    /\ rest = <<>>
    /\ view = [id |-> 1, begin |-> 0, len |-> 0, text |-> <<>>, emptied |-> FALSE]
    /\ chain = [n \in 1 .. MAX_STRCHAIN_SIZE |-> <<>>]
    /\ pushed = <<>>
    /\ status = "run"

(* str_push                                                                *)
Push(c) ==
    /\ OnString /\ string.len < MaxLength
    /\ string' \in Pushed(string, c)
    /\ UNCHANGED <<subject, rest, view, chain, pushed, status>>

(* str_pushcstr, and the pushes of its loop.                               *)
PushCstr(text) ==
    /\ OnString /\ string.len + Len(text) <= MaxLength
    /\ rest' = text
    /\ UNCHANGED <<subject, string, view, chain, pushed, status>>

PushNext ==
    /\ rest # <<>>
    /\ string' \in Pushed(string, Head(rest))
    /\ rest' = Tail(rest)
    /\ UNCHANGED <<subject, view, chain, pushed, status>>

(* str_accomodate                                                          *)
Accomodated(cap) == IF Capacity(string) < cap THEN Realloc(string, cap) ELSE {string}

(* Mutant of PushStr: memcpy() to the start of the string.                 *)
PushStrAtStart(text) ==
    /\ OnString /\ string.len + Len(text) <= MaxLength
    /\ \E s \in Accomodated(string.len + Len(text)) :
          string' = [s EXCEPT !.len = @ + Len(text),
                              !.data = text \o SubSeq(@, Len(text) + 1, Len(@))]
    /\ UNCHANGED <<subject, rest, view, chain, pushed, status>>

(* str_pushstr of another String: room for exactly its characters, and     *)
(* memcpy() behind those that are there.                                   *)
PushStr(text) ==
    /\ OnString /\ string.len + Len(text) <= MaxLength
    /\ \E s \in Accomodated(string.len + Len(text)) :
          string' = [s EXCEPT !.len = @ + Len(text),
                              !.data = [k \in 1 .. Len(@) |->
                                           IF k \in s.len + 1 .. s.len + Len(text)
                                           THEN text[k - s.len] ELSE @[k]]]
    /\ UNCHANGED <<subject, rest, view, chain, pushed, status>>

(* str_popall: the memory stays, and so do the characters in it.           *)
PopAll ==
    /\ OnString
    /\ string' = [string EXCEPT !.len = 0]
    /\ view' = [view EXCEPT !.emptied = TRUE]
    /\ UNCHANGED <<subject, rest, chain, pushed, status>>

(* alloc_str_clone, which copies len characters into memory of the same    *)
(* capacity; the owner goes on with the clone and frees the string.        *)
CloneAndFree ==
    /\ OnString /\ string.id < MaxMoves
    /\ string' = [string EXCEPT !.id = @ + 1,
                     !.data = [k \in 1 .. Len(@) |-> IF k <= string.len THEN @[k] ELSE Junk]]
    /\ UNCHANGED <<subject, rest, view, chain, pushed, status>>

(* strv_fromstr and strv_slice                                             *)
TakeView(begin, len) ==
    /\ OnString /\ begin + len <= string.len
    /\ view' = [id |-> string.id, begin |-> begin, len |-> len, emptied |-> FALSE,
                text |-> SubSeq(string.data, begin + 1, begin + len)]
    /\ UNCHANGED <<subject, string, rest, chain, pushed, status>>

(* One part more than there are links is enough.                           *)
OnChain == subject = "chain" /\ status = "run" /\ Len(pushed) <= MAX_STRCHAIN_SIZE

Free == {n \in 1 .. MAX_STRCHAIN_SIZE : chain[n] = <<>>}

(* Mutant of PushLink: the last free link is taken.                        *)
PushLinkLast(text) ==
    /\ OnChain /\ Free # {}
    /\ chain' = [chain EXCEPT ![CHOOSE n \in Free : \A m \in Free : m <= n] = text]
    /\ pushed' = Append(pushed, text)
    /\ UNCHANGED <<subject, string, rest, view, status>>

(* strvc_push: the first link of length 0 is taken for a free one.         *)
PushLink(text) ==
    /\ OnChain /\ Free # {}
    /\ chain' = [chain EXCEPT ![CHOOSE n \in Free : \A m \in Free : n <= m] = text]
    /\ pushed' = Append(pushed, text)
    /\ UNCHANGED <<subject, string, rest, view, status>>

(* assert(false && "Chain is full"), or the text is dropped.               *)
PushLinkFull(text) ==
    /\ OnChain /\ Free = {}
    /\ \/ "debug" \in Builds /\ status' = "abort"
       \/ "release" \in Builds /\ UNCHANGED status
    /\ pushed' = Append(pushed, text)
    /\ UNCHANGED <<subject, string, rest, view, chain>>

(* strvc_newempty                                                          *)
NewMessage ==
    /\ subject = "chain" /\ status = "run"
    /\ chain' = [n \in 1 .. MAX_STRCHAIN_SIZE |-> <<>>]
    /\ pushed' = <<>>
    /\ UNCHANGED <<subject, string, rest, view, status>>

(* abort()                                                                 *)
Aborted == status = "abort" /\ UNCHANGED stringvars

StringsNext ==
    \/ \E c \in Chars : Push(c)
    \/ \E text \in Literals : PushCstr(text) \/ PushStr(text) \/ PushLink(text) \/ PushLinkFull(text)
    \/ PushNext \/ PopAll \/ CloneAndFree \/ NewMessage \/ Aborted
    \/ \E begin, len \in 0 .. MaxLength : TakeView(begin, len)

----------------------------------------------------------------------------
(* Comparison.                                                             *)

Least(set) == CHOOSE k \in set : \A m \in set : k <= m

(* Mutant of Compare: a prefix is equal to what it is a prefix of.         *)
ComparePrefix(a, b) ==
    LET different == {k \in 1 .. Len(a) : k <= Len(b) /\ a[k] # b[k]}
    IN  IF different # {} THEN a[Least(different)] - b[Least(different)] ELSE 0

(* strv_cmp                                                                *)
Compare(a, b) ==
    LET different == {k \in 1 .. Len(a) : k <= Len(b) /\ a[k] # b[k]}
    IN  IF different # {} THEN a[Least(different)] - b[Least(different)]
        ELSE IF Len(a) < Len(b) THEN -1
        ELSE IF Len(a) > Len(b) THEN 1
        ELSE 0

(* strv_cmpcstr: the literal ends in a zero, and the loop at it.           *)
CompareCstr(a, literal) ==
    LET c == Append(literal, 0)
        stop == Least({k \in 1 .. Len(c) : k > Len(a) \/ c[k] = 0 \/ a[k] # c[k]})
    IN  IF stop <= Len(a) /\ c[stop] # 0 THEN a[stop] - c[stop]
        ELSE IF stop > Len(a) /\ c[stop] # 0 THEN -1
        ELSE IF stop <= Len(a) /\ c[stop] = 0 THEN 1
        ELSE 0

(* fprintstrvc: the links that were ever written, in order.                *)
PrintedChain ==
    LET upto[n \in 0 .. MAX_STRCHAIN_SIZE] == IF n = 0 THEN <<>> ELSE upto[n - 1] \o chain[n]
    IN  upto[MAX_STRCHAIN_SIZE]

----------------------------------------------------------------------------
(* Properties.                                                             *)

(* What the owner has appended, the rest of a C string included.           *)
Text == INSTANCE AppendOnly WITH
    text <- Content(string) \o rest, Pieces <- Literals \cup {<<c>> : c \in Chars}

(* What was appended is there, in order, whatever growth came in between,  *)
(* whether realloc() moved the characters or not; and a C string appended  *)
(* in pushes of one character is appended once.                            *)
ImplementsAppendOnly == Text!Spec

(* A view shows what it showed when it was taken, for as long as the       *)
(* string is neither moved nor emptied: pushes write behind its end.       *)
(* repl() takes its view when the line is complete and empties the string  *)
(* only after the last use of a token, a node or a message.                *)
ViewKeepsText ==
    view.id = string.id /\ ~ view.emptied =>
        SubSeq(string.data, view.begin + 1, view.begin + view.len) = view.text

(* A message shows all of its parts in order, empty ones included, as long *)
(* as there are no more of them than links.                                *)
MessageComplete ==
    Cardinality({n \in 1 .. Len(pushed) : pushed[n] # <<>>}) <= MAX_STRCHAIN_SIZE =>
        LET all[n \in 0 .. Len(pushed)] == IF n = 0 THEN <<>> ELSE all[n - 1] \o pushed[n]
        IN  PrintedChain = all[Len(pushed)]

(* Lexicographic order, by recursion over prefixes that agree.             *)
Before(a, b) ==
    \E n \in 0 .. Len(a) :
        /\ n <= Len(b) /\ SubSeq(a, 1, n) = SubSeq(b, 1, n)
        /\ n < Len(b) /\ (n < Len(a) => a[n + 1] < b[n + 1])

(* strv_cmp orders strings lexicographically: it is 0 for equal ones only, *)
(* which is what lookup_bindings() and bind() rely on, and strv_cmpcstr    *)
(* agrees with it although it reads up to a zero.                          *)
ComparesInOrder ==
    \A literal \in Literals :
        LET text == Content(string)
            order == Compare(text, literal)
        IN  /\ order = 0 <=> text = literal
            /\ order < 0 <=> Before(text, literal)
            /\ order > 0 <=> Before(literal, text)
            /\ CompareCstr(text, literal) = order
            /\ Compare(literal, text) = - order
=============================================================================
