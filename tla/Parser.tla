------------------------------- MODULE Parser -------------------------------
(***************************************************************************)
(* parse_tokens() of src/parsing.c: recursive descent over the tokens.     *)
(* The C call stack of parse_tokens_helper is the variable stack, one      *)
(* frame of locals per activation; *i, shared by all of them, is pos       *)
(* (0-based: the token at pos is tokens[pos + 1]).  The blocks that        *)
(* alloc_astblock() allocates live in heap, and a block node points into   *)
(* it.  A step is one iteration of the loop; returning from a nested call  *)
(* and what the caller does with the result are one step.                  *)
(***************************************************************************)
EXTENDS Tokens, FiniteSets

CONSTANT TokenStreams   (* the results of tokenize() to parse               *)

(* What tokenize() makes of any source, as TokenizerProofs shows.          *)
ASSUME TokenStreamsAssumption ==
    TokenStreams \subseteq {s \in Seq(Token) : InSourceOrder(s)}

VARIABLES
    tokens,   (* the TokensSlice; never changes                             *)
    pos,      (* *i                                                         *)
    stack,    (* the activations of parse_tokens_helper, outermost first    *)
    heap,     (* every ASTBlock allocated, the root first                   *)
    freed,    (* the indices in heap of the blocks freed                    *)
    outcome   (* "run", then "ok" or "error"                                *)

vars == <<tokens, pos, stack, heap, freed, outcome>>

(* ASTNode.  A block node has the index of its block in heap, 0 otherwise; *)
(* last is the position of the token whose src_idx gave the node src_len.  *)
Node == [type : {"word", "number", "block"}, src_idx : Nat, quoted : BOOLEAN,
         block : Nat, last : Nat]
Block == [seq : Seq(Node), depth : Nat]

(* The locals of an activation: root, node, has_node and quoted.           *)
Frame == [block : Nat, node : Node, has_node : BOOLEAN, quoted : BOOLEAN]

(* node is uninitialized at first and never read while has_node is false.  *)
NewFrame(b) ==
    [block |-> b, has_node |-> FALSE, quoted |-> FALSE,
     node |-> [type |-> "word", src_idx |-> 0, quoted |-> FALSE, block |-> 0, last |-> 0]]

Init ==
    /\ tokens \in TokenStreams
    /\ pos = 0
    /\ stack = <<NewFrame(1)>>
    /\ heap = <<[seq |-> <<>>, depth |-> 0]>>
    /\ freed = {}
    /\ outcome = "run"

----------------------------------------------------------------------------
Top == stack[Len(stack)]
WithTop(f) == [stack EXCEPT ![Len(stack)] = f]

AtToken(type) ==
    outcome = "run" /\ pos < Len(tokens) /\ tokens[pos + 1].type = type

(* Mutant of Emitted: nodes are put in front.                              *)
EmittedInFront ==
    IF Top.has_node THEN [heap EXCEPT ![Top.block].seq = <<Top.node>> \o @] ELSE heap

(* emit_node: append the pending node to the activation's block.           *)
Emitted ==
    IF Top.has_node THEN [heap EXCEPT ![Top.block].seq = Append(@, Top.node)] ELSE heap

(* Mutant of SetNode: a word does not use up the quote before it.          *)
SetNodeKeepsQuoted(type, quoted) ==
    /\ heap' = Emitted
    /\ stack' = WithTop([Top EXCEPT
                    !.node = [type |-> type, src_idx |-> tokens[pos + 1].src_idx,
                              quoted |-> quoted, block |-> 0, last |-> pos],
                    !.has_node = TRUE])
    /\ pos' = pos + 1
    /\ UNCHANGED <<tokens, freed, outcome>>

(* The cases that leave a node pending, after emitting the one before it.  *)
SetNode(type, quoted) ==
    /\ heap' = Emitted
    /\ stack' = WithTop([Top EXCEPT
                    !.node = [type |-> type, src_idx |-> tokens[pos + 1].src_idx,
                              quoted |-> quoted, block |-> 0, last |-> pos],
                    !.has_node = TRUE,
                    !.quoted = IF type = "word" THEN FALSE ELSE @])
    /\ pos' = pos + 1
    /\ UNCHANGED <<tokens, freed, outcome>>

ParseWhitespace ==
    /\ AtToken("ws")
    /\ heap' = Emitted
    /\ stack' = WithTop([Top EXCEPT !.has_node = FALSE])
    /\ pos' = pos + 1
    /\ UNCHANGED <<tokens, freed, outcome>>

ParseQuote ==
    /\ AtToken("quote")
    /\ stack' = WithTop([Top EXCEPT !.quoted = TRUE])
    /\ pos' = pos + 1
    /\ UNCHANGED <<tokens, heap, freed, outcome>>

ParseWord ==
    /\ AtToken("word")
    /\ SetNode("word", Top.quoted)

ParseNumber ==
    /\ AtToken("number")
    /\ SetNode("number", FALSE)

(* free_block(b) frees every block reachable from b; an inner block comes  *)
(* after the block that holds it in heap.                                  *)
FreedWith(h, roots) ==
    LET reached[b \in 1 .. Len(h)] ==
            \/ b \in roots
            \/ \E p \in 1 .. b - 1 :
                  reached[p] /\ \E k \in 1 .. Len(h[p].seq) : h[p].seq[k].block = b
    IN  {b \in 1 .. Len(h) : reached[b]}

(* Mutant of RejectNumber: only the innermost activation frees its root.   *)
RejectNumberFreesInnermost ==
    /\ AtToken("number")
    /\ heap' = Emitted
    /\ freed' = freed \cup FreedWith(heap', {Top.block})
    /\ stack' = <<>>
    /\ outcome' = "error"
    /\ UNCHANGED <<tokens, pos>>

(* parse_number finds that the literal does not fit in a long long.  Every *)
(* activation frees its root and hands the error on.                       *)
RejectNumber ==
    /\ AtToken("number")
    /\ heap' = Emitted
    /\ freed' = freed \cup FreedWith(heap', {stack[k].block : k \in 1 .. Len(stack)})
    /\ stack' = <<>>
    /\ outcome' = "error"
    /\ UNCHANGED <<tokens, pos>>

(* Mutant of EnterBlock: the depth is handed down unchanged.               *)
EnterBlockSameDepth ==
    /\ AtToken("open")
    /\ heap' = Append(Emitted, [seq |-> <<>>, depth |-> heap[Top.block].depth])
    /\ stack' = Append(WithTop([Top EXCEPT
                          !.node = [type |-> "block", src_idx |-> tokens[pos + 1].src_idx,
                                    quoted |-> FALSE, block |-> 0, last |-> pos],
                          !.has_node = FALSE]),
                       NewFrame(Len(heap) + 1))
    /\ pos' = pos + 1
    /\ UNCHANGED <<tokens, freed, outcome>>

(* '[': the recursive call, with a block of its own.                       *)
EnterBlock ==
    /\ AtToken("open")
    /\ heap' = Append(Emitted, [seq |-> <<>>, depth |-> heap[Top.block].depth + 1])
    /\ stack' = Append(WithTop([Top EXCEPT
                          !.node = [type |-> "block", src_idx |-> tokens[pos + 1].src_idx,
                                    quoted |-> FALSE, block |-> 0, last |-> pos],
                          !.has_node = FALSE]),
                       NewFrame(Len(heap) + 1))
    /\ pos' = pos + 1
    /\ UNCHANGED <<tokens, freed, outcome>>

(* An activation returns its block with *i = p.  The caller looks at the   *)
(* token before p for the end of the node, and then its loop adds one.     *)
Return(p) ==
    /\ heap' = Emitted
    /\ IF Len(stack) = 1
       THEN /\ stack' = <<>>
            /\ pos' = p
            /\ outcome' = "ok"
       ELSE LET caller == Len(stack) - 1
            IN  /\ stack' = [SubSeq(stack, 1, caller) EXCEPT
                                ![caller].node.block = Top.block,
                                ![caller].node.last = p - 1,
                                ![caller].has_node = TRUE]
                /\ pos' = p + 1
                /\ UNCHANGED outcome
    /\ UNCHANGED <<tokens, freed>>

(* ']', also where the activation is the outermost one.                    *)
LeaveBlock ==
    /\ AtToken("close")
    /\ Return(pos + 1)

(* The loop ends with the tokens, in every activation still running.       *)
EndOfTokens ==
    /\ outcome = "run" /\ pos >= Len(tokens)
    /\ Return(pos)

(* parse_tokens has returned.                                              *)
Returned == outcome # "run" /\ UNCHANGED vars

Next ==
    \/ ParseWhitespace \/ ParseQuote \/ ParseWord \/ ParseNumber \/ RejectNumber
    \/ EnterBlock \/ LeaveBlock \/ EndOfTokens
    \/ Returned

Spec == Init /\ [][Next]_vars

----------------------------------------------------------------------------
(* Properties.                                                             *)

Blocks == 1 .. Len(heap)
Calls  == 1 .. Len(stack)

(* Who holds a block: the activation that fills it, the pending node it    *)
(* was returned into, an emitted node, or, for the root, the result.       *)
Holders(b) ==
    {<<"root of", k>> : k \in {k \in Calls : stack[k].block = b}}
    \cup {<<"pending in", k>> : k \in {k \in Calls : stack[k].has_node /\ stack[k].node.block = b}}
    \cup (UNION {{<<p, n>> : n \in {n \in 1 .. Len(heap[p].seq) : heap[p].seq[n].block = b}}
                    : p \in Blocks})
    \cup {<<"result", 1>> : x \in {x \in {1} : outcome = "ok" /\ b = 1}}

(* Every block has exactly one holder at any time, so the result is a tree *)
(* that free_block releases once, with nothing lost on the way to it; and  *)
(* when a literal is rejected at any nesting, all of them have been freed. *)
BlocksHeldOnce ==
    IF outcome = "error" THEN freed = Blocks
    ELSE freed = {} /\ \A b \in Blocks : Cardinality(Holders(b)) = 1

(* A block's depth is one more than that of the block it is in, and the    *)
(* activations on the C stack fill blocks of depth 0, 1, 2, ...            *)
DepthIsNesting ==
    /\ \A k \in Calls : heap[stack[k].block].depth = k - 1
    /\ outcome # "error" =>
         \A b \in Blocks : \A n \in 1 .. Len(heap[b].seq) :
            heap[b].seq[n].type = "block" =>
                heap[heap[b].seq[n].block].depth = heap[b].depth + 1

(* Within a block, nodes come in the order of the source, without repeats. *)
NodesInSourceOrder ==
    \A b \in Blocks : \A m, n \in 1 .. Len(heap[b].seq) :
        m < n => heap[b].seq[m].src_idx < heap[b].seq[n].src_idx

(* What the tokens say the blocks should be, for tokens with their         *)
(* brackets balanced.  Block 0 is the whole source, block j the one opened *)
(* by the j-th token.                                                      *)
Count(type, n) == Cardinality({k \in 1 .. n : tokens[k].type = type})
Level(n) == Count("open", n) - Count("close", n)

Balanced ==
    /\ \A n \in 1 .. Len(tokens) : Level(n) >= 0
    /\ Level(Len(tokens)) = 0

Encloses(j, k) ==
    /\ j < k
    /\ j # 0 => tokens[j].type = "open"
    /\ \A m \in j .. k - 1 : Level(m) >= Level(j)

Innermost(j, k) == Encloses(j, k) /\ \A m \in j + 1 .. k - 1 : ~ Encloses(m, k)

Children(j) ==
    {k \in 1 .. Len(tokens) : Innermost(j, k) /\ tokens[k].type \in {"word", "number", "open"}}

ClosedBy(j) == CHOOSE k \in j + 1 .. Len(tokens) :
                  Level(k) < Level(j) /\ \A m \in j .. k - 1 : Level(m) >= Level(j)

(* The node of the k-th token.                                             *)
NodeOf(k) ==
    LET kind == tokens[k].type
    IN  [type    |-> IF kind = "open" THEN "block" ELSE kind,
         src_idx |-> tokens[k].src_idx,
         quoted  |-> kind = "word" /\ k > 1 /\ tokens[k - 1].type = "quote",
         block   |-> IF kind = "open" THEN 1 + Count("open", k) ELSE 0,
         last    |-> IF kind = "open" THEN ClosedBy(k) - 1 ELSE k - 1]

(* The block has the nodes of the tokens in it, in the order of the source. *)
Mirrors(j) ==
    LET block == heap[1 + Count("open", j)]
    IN  /\ block.depth = Level(j)
        /\ {block.seq[n] : n \in 1 .. Len(block.seq)} = {NodeOf(k) : k \in Children(j)}
        /\ \A m, n \in 1 .. Len(block.seq) : m < n => block.seq[m].src_idx < block.seq[n].src_idx

Opened == {0} \cup {j \in 1 .. Len(tokens) : tokens[j].type = "open"}

(* README.md:15 has parsing as done.  The tree should have one node for    *)
(* each word, number and bracket pair, in the block that encloses it.      *)
ParseMirrorsSource ==
    outcome = "ok" => Len(heap) = Cardinality(Opened) /\ \A j \in Opened : Mirrors(j)

(* Sources that leave white space after every bracket that closes a block, *)
(* or end there, and that quote words only.                                *)
Spaced ==
    \A k \in 1 .. Len(tokens) - 1 :
        /\ tokens[k].type = "close" => tokens[k + 1].type = "ws"
        /\ tokens[k].type = "quote" => tokens[k + 1].type = "word"

(* For those the tree is the one the source describes, at any nesting.     *)
SpacedParseMirrorsSource == Balanced /\ Spaced => ParseMirrorsSource

=============================================================================
