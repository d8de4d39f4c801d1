---------------------------- MODULE ParserProofs ----------------------------
(***************************************************************************)
(* Proofs about Parser, for any nesting and any number of tokens.  Every   *)
(* step but ParseQuote first emits the pending node, so each step is taken *)
(* apart: the facts about a heap and a stack are kept by the emission, and *)
(* then by what the step does with a stack that has nothing pending.       *)
(***************************************************************************)
EXTENDS Parser, Integers, FiniteSetTheorems, SequenceTheorems, TLAPS

(* The node x of block b: only a block node refers to a block, to a later  *)
(* one, which is one level deeper.                                         *)
NodeOK(h, b, x) ==
    /\ x.type = "block" => x.block \in b + 1 .. Len(h) /\ h[x.block].depth = h[b].depth + 1
    /\ x.type # "block" => x.block = 0

(* The activations fill blocks of rising depth and index, the first of     *)
(* them the root; those that wait for a call have no node pending.         *)
Shape(h, s) ==
    /\ \A k \in 1 .. Len(s) : s[k].block \in 1 .. Len(h) /\ h[s[k].block].depth = k - 1
    /\ \A k, l \in 1 .. Len(s) : k < l => s[k].block < s[l].block
    /\ \A k \in 1 .. Len(s) - 1 : ~ s[k].has_node /\ s[k].node.type = "block"
    /\ \A k \in 1 .. Len(s) : s[k].has_node => NodeOK(h, s[k].block, s[k].node)
    /\ \A b \in 1 .. Len(h) : \A n \in 1 .. Len(h[b].seq) : NodeOK(h, b, h[b].seq[n])
    /\ s # <<>> => s[1].block = 1

(* The three ways in which block b is held before the result is returned.  *)
Fills(s, k, b) == k \in 1 .. Len(s) /\ s[k].block = b
Pends(s, k, b) == k \in 1 .. Len(s) /\ s[k].has_node /\ s[k].node.block = b
InSeq(h, p, n, b) == p \in 1 .. Len(h) /\ n \in 1 .. Len(h[p].seq) /\ h[p].seq[n].block = b

(* Every block is held in one way, by one holder; done: the root returned. *)
Once(h, s, done) ==
    \A b \in 1 .. Len(h) :
        /\ \A k, l : ~ (Fills(s, k, b) /\ Pends(s, l, b))
        /\ \A k, p, n : ~ (Fills(s, k, b) /\ InSeq(h, p, n, b))
        /\ \A k, p, n : ~ (Pends(s, k, b) /\ InSeq(h, p, n, b))
        /\ \A k, l : Fills(s, k, b) /\ Fills(s, l, b) => k = l
        /\ \A k, l : Pends(s, k, b) /\ Pends(s, l, b) => k = l
        /\ \A p, q, m, n : InSeq(h, p, m, b) /\ InSeq(h, q, n, b) => p = q /\ m = n
        /\ \/ done /\ b = 1
           \/ \E k : Fills(s, k, b)
           \/ \E k : Pends(s, k, b)
           \/ \E p, n : InSeq(h, p, n, b)

(* x stands before every token from position p on.                         *)
Before(t, x, p) == \A j \in p + 1 .. Len(t) : x < t[j].src_idx

(* The nodes of a block are in order, and so are the one pending behind    *)
(* them, or waiting for its call, and the tokens to come.                  *)
Sorted(h) ==
    \A b \in 1 .. Len(h) : \A m, n \in 1 .. Len(h[b].seq) :
        m < n => h[b].seq[m].src_idx < h[b].seq[n].src_idx

Order(h, s, t, p) ==
    /\ Sorted(h)
    /\ \A k \in 1 .. Len(s) : \A n \in 1 .. Len(h[s[k].block].seq) :
          Before(t, h[s[k].block].seq[n].src_idx, p)
    /\ \A k \in 1 .. Len(s) : s[k].has_node \/ k < Len(s) =>
          /\ Before(t, s[k].node.src_idx, p)
          /\ \A n \in 1 .. Len(h[s[k].block].seq) : h[s[k].block].seq[n].src_idx < s[k].node.src_idx

Typed(h, s) == h \in Seq(Block) /\ Len(h) > 0 /\ s \in Seq(Frame)

----------------------------------------------------------------------------
(* The parts of a heap and of a stack.                                     *)
LEMMA Fields ==
    ASSUME NEW h, NEW s, Typed(h, s)
    PROVE  /\ Len(h) \in Nat /\ Len(s) \in Nat
           /\ \A b \in 1 .. Len(h) : h[b] \in Block /\ h[b].seq \in Seq(Node) /\ h[b].depth \in Nat
                                     /\ Len(h[b].seq) \in Nat
           /\ \A b \in 1 .. Len(h) : \A n \in 1 .. Len(h[b].seq) :
                 h[b].seq[n] \in Node /\ h[b].seq[n].src_idx \in Nat /\ h[b].seq[n].block \in Nat
           /\ \A k \in 1 .. Len(s) : /\ s[k] \in Frame /\ s[k].block \in Nat /\ s[k].node \in Node
                                     /\ s[k].has_node \in BOOLEAN
                                     /\ s[k].node.src_idx \in Nat /\ s[k].node.block \in Nat
<1>1. h \in Seq(Block) /\ s \in Seq(Frame)
  BY DEF Typed
<1>2. \A b \in 1 .. Len(h) : h[b] \in Block
  BY <1>1
<1>3. \A k \in 1 .. Len(s) : s[k] \in Frame
  BY <1>1
<1>4. \A x \in Block : x.seq \in Seq(Node) /\ x.depth \in Nat
  BY DEF Block
<1>5. \A x \in Frame : x.block \in Nat /\ x.node \in Node /\ x.has_node \in BOOLEAN
  BY DEF Frame
<1>6. \A x \in Node : x.src_idx \in Nat /\ x.block \in Nat
  BY DEF Node
<1>7. \A q \in Seq(Node) : Len(q) \in Nat /\ \A n \in 1 .. Len(q) : q[n] \in Node
  OBVIOUS
<1>8. Len(h) \in Nat /\ Len(s) \in Nat
  BY <1>1
<1> QED BY <1>2, <1>3, <1>4, <1>5, <1>6, <1>7, <1>8

(* g is h after emit_node in the innermost activation of s.                *)
Emits(h, s, g) ==
    LET b == s[Len(s)].block
    IN  /\ g \in Seq(Block) /\ Len(g) = Len(h)
        /\ \A c \in 1 .. Len(h) : g[c].depth = h[c].depth
        /\ \A c \in 1 .. Len(h) : c # b => g[c].seq = h[c].seq
        /\ ~ s[Len(s)].has_node => g[b].seq = h[b].seq
        /\ s[Len(s)].has_node =>
              /\ Len(g[b].seq) = Len(h[b].seq) + 1
              /\ \A n \in 1 .. Len(h[b].seq) : g[b].seq[n] = h[b].seq[n]
              /\ g[b].seq[Len(h[b].seq) + 1] = s[Len(s)].node

(* s and r have the same activations, up to the innermost one's node.      *)
SameCalls(s, r) ==
    /\ Len(r) = Len(s)
    /\ \A k \in 1 .. Len(s) : r[k].block = s[k].block
    /\ \A k \in 1 .. Len(s) - 1 : r[k] = s[k]

LEMMA EmittedFacts ==
    ASSUME Typed(heap, stack), stack # <<>>, Shape(heap, stack)
    PROVE  Emits(heap, stack, Emitted)
<1>1. Len(stack) \in 1 .. Len(stack) /\ Len(stack) \in Nat
  BY DEF Typed
<1>2. Top.block \in 1 .. Len(heap) /\ Top.node \in Node /\ Top.has_node \in BOOLEAN
  BY <1>1, Fields DEF Shape, Top
<1>3. CASE ~ Top.has_node
  <2>1. Emitted = heap
    BY <1>3 DEF Emitted
  <2> QED BY <1>3, <2>1 DEF Emits, Top, Typed
<1>4. CASE Top.has_node
  <2> DEFINE b == Top.block
  <2>1. heap[b] = [seq |-> heap[b].seq, depth |-> heap[b].depth]
        /\ heap[b].seq \in Seq(Node) /\ heap[b].depth \in Nat
    <3>1. heap[b] \in Block
      BY <1>2, Fields
    <3> QED BY <3>1 DEF Block
  <2> DEFINE y == [seq |-> Append(heap[b].seq, Top.node), depth |-> heap[b].depth]
  <2>2. y \in Block
    <3>1. Append(heap[b].seq, Top.node) \in Seq(Node)
      BY <1>2, <2>1
    <3> QED BY <2>1, <3>1 DEF Block
  <2>3. Emitted = [heap EXCEPT ![b] = y]
    <3>1. ASSUME NEW x \in Block, NEW z
          PROVE  [x EXCEPT !.seq = z] = [seq |-> z, depth |-> x.depth]
      BY DEF Block
    <3>2. [heap[b] EXCEPT !.seq = Append(heap[b].seq, Top.node)] = y
      BY <3>1, <1>2, Fields
    <3> QED BY <1>4, <3>2 DEF Emitted
  <2>4. heap \in Seq(Block)
    BY DEF Typed
  <2>5. /\ Emitted \in Seq(Block) /\ Len(Emitted) = Len(heap) /\ Emitted[b] = y
        /\ \A c \in 1 .. Len(heap) : c # b => Emitted[c] = heap[c]
    <3> HIDE DEF y, b
    <3> QED BY <1>2, <2>2, <2>3, <2>4 DEF b
  <2>6. /\ y.depth = heap[b].depth /\ y.seq = Append(heap[b].seq, Top.node)
    OBVIOUS
  <2>7. /\ Len(y.seq) = Len(heap[b].seq) + 1
        /\ \A n \in 1 .. Len(heap[b].seq) : y.seq[n] = heap[b].seq[n]
        /\ y.seq[Len(heap[b].seq) + 1] = Top.node
    BY <2>1, <2>6, <1>2
  <2> HIDE DEF y
  <2> QED BY <1>4, <2>5, <2>6, <2>7 DEF Emits, Top
<1> QED BY <1>3, <1>4

----------------------------------------------------------------------------
(* The emission: nothing is pending in r, which has the activations of s.  *)
Emission(h, s, g, r) ==
    /\ Typed(h, s) /\ Typed(g, r) /\ s # <<>>
    /\ Shape(h, s)
    /\ Emits(h, s, g) /\ SameCalls(s, r) /\ ~ r[Len(r)].has_node

LEMMA EmitShape ==
    ASSUME NEW h, NEW s, NEW g, NEW r, Emission(h, s, g, r)
    PROVE  Shape(g, r)
<1> DEFINE top == s[Len(s)]
<1>t. /\ Typed(h, s) /\ Typed(g, r) /\ s # <<>> /\ Shape(h, s)
      /\ Len(s) \in Nat /\ Len(s) \in 1 .. Len(s) /\ Len(r) = Len(s) /\ Len(g) = Len(h)
      /\ \A k \in 1 .. Len(s) : r[k].block = s[k].block /\ s[k].block \in 1 .. Len(h)
      /\ \A k \in 1 .. Len(s) - 1 : r[k] = s[k]
      /\ ~ r[Len(s)].has_node
      /\ \A c \in 1 .. Len(h) : g[c].depth = h[c].depth
  BY DEF Emission, Typed, SameCalls, Emits, Shape
<1>1. \A b \in 1 .. Len(h) : \A x : NodeOK(h, b, x) => NodeOK(g, b, x)
  <2> SUFFICES ASSUME NEW b \in 1 .. Len(h), NEW x, NodeOK(h, b, x) PROVE NodeOK(g, b, x)
    OBVIOUS
  <2>1. \A c \in b + 1 .. Len(h) : c \in 1 .. Len(h)
    OBVIOUS
  <2> QED BY <1>t, <2>1 DEF NodeOK
<1>2. ASSUME NEW b \in 1 .. Len(h), NEW n \in 1 .. Len(g[b].seq) PROVE NodeOK(g, b, g[b].seq[n])
  <2>1. CASE b = top.block /\ top.has_node /\ n = Len(h[b].seq) + 1
    <3>1. g[b].seq[n] = top.node
      BY <2>1 DEF Emission, Emits
    <3>2. NodeOK(h, b, top.node)
      BY <1>t, <2>1 DEF Shape
    <3> QED BY <1>1, <3>1, <3>2
  <2>2. CASE ~ (b = top.block /\ top.has_node /\ n = Len(h[b].seq) + 1)
    <3>1. n \in 1 .. Len(h[b].seq) /\ g[b].seq[n] = h[b].seq[n]
      <4>1. CASE b # top.block \/ ~ top.has_node
        BY <4>1 DEF Emission, Emits
      <4>2. CASE b = top.block /\ top.has_node
        <5>1. Len(g[b].seq) = Len(h[b].seq) + 1 /\ n # Len(h[b].seq) + 1
              /\ \A m \in 1 .. Len(h[b].seq) : g[b].seq[m] = h[b].seq[m]
          BY <2>2, <4>2 DEF Emission, Emits
        <5>2. Len(h[b].seq) \in Nat
          BY <1>t, Fields
        <5> QED BY <5>1, <5>2
      <4> QED BY <4>1, <4>2
    <3>2. NodeOK(h, b, h[b].seq[n])
      BY <1>t, <3>1 DEF Shape
    <3> QED BY <1>1, <3>1, <3>2
  <2> QED BY <2>1, <2>2
<1>3. \A k \in 1 .. Len(r) : ~ r[k].has_node
  <2> SUFFICES ASSUME NEW k \in 1 .. Len(r) PROVE ~ r[k].has_node
    OBVIOUS
  <2>1. k = Len(s) \/ k \in 1 .. Len(s) - 1
    BY <1>t
  <2> QED BY <1>t, <2>1 DEF Shape
<1>4. \A k \in 1 .. Len(r) : r[k].block \in 1 .. Len(g) /\ g[r[k].block].depth = k - 1
  BY <1>t DEF Shape
<1>5. \A k, l \in 1 .. Len(r) : k < l => r[k].block < r[l].block
  BY <1>t DEF Shape
<1>6. \A k \in 1 .. Len(r) - 1 : r[k].node.type = "block"
  BY <1>t DEF Shape
<1>7. r # <<>> => r[1].block = 1
  BY <1>t DEF Shape
<1>8. \A k \in 1 .. Len(r) - 1 : k \in 1 .. Len(r)
  BY <1>t
<1> QED BY <1>t, <1>2, <1>3, <1>4, <1>5, <1>6, <1>7, <1>8 DEF Shape

(* How the emission moves the holders.                                     *)
LEMMA EmitHolders ==
    ASSUME NEW h, NEW s, NEW g, NEW r, Emission(h, s, g, r)
    PROVE  /\ Len(g) = Len(h)
           /\ \A k, b : Fills(r, k, b) <=> Fills(s, k, b)
           /\ \A k, b : ~ Pends(r, k, b)
           /\ \A k, b : Pends(s, k, b) => k = Len(s)
           /\ \A p, n, b : InSeq(g, p, n, b) <=>
                 \/ InSeq(h, p, n, b)
                 \/ /\ Pends(s, Len(s), b)
                    /\ p = s[Len(s)].block /\ n = Len(h[p].seq) + 1
           /\ \A b : ~ InSeq(h, s[Len(s)].block, Len(h[s[Len(s)].block].seq) + 1, b)
<1> DEFINE top == s[Len(s)]
<1>t. /\ Typed(h, s) /\ Len(s) \in Nat /\ Len(s) \in 1 .. Len(s) /\ Len(r) = Len(s)
      /\ Len(g) = Len(h) /\ top.block \in 1 .. Len(h)
      /\ \A k \in 1 .. Len(s) : r[k].block = s[k].block
      /\ \A k \in 1 .. Len(s) - 1 : r[k] = s[k] /\ ~ s[k].has_node
      /\ ~ r[Len(s)].has_node
  BY DEF Emission, Typed, SameCalls, Emits, Shape
<1>1. \A k \in 1 .. Len(s) : k = Len(s) \/ k \in 1 .. Len(s) - 1
  BY <1>t
<1>2. \A k, b : Fills(r, k, b) <=> Fills(s, k, b)
  BY <1>t DEF Fills
<1>3. \A k, b : ~ Pends(r, k, b)
  BY <1>t, <1>1 DEF Pends
<1>4. \A k, b : Pends(s, k, b) => k = Len(s)
  BY <1>t, <1>1 DEF Pends
<1>5. \A b \in 1 .. Len(h) : Len(h[b].seq) \in Nat
  BY <1>t, Fields
<1>6. \A b : ~ InSeq(h, top.block, Len(h[top.block].seq) + 1, b)
  BY <1>t, <1>5 DEF InSeq
<1>7. ASSUME NEW p, NEW n, NEW b
      PROVE  InSeq(g, p, n, b) <=>
               InSeq(h, p, n, b) \/ (Pends(s, Len(s), b) /\ p = top.block /\ n = Len(h[p].seq) + 1)
  <2>1. CASE p \notin 1 .. Len(h)
    BY <1>t, <2>1 DEF InSeq
  <2>2. CASE p \in 1 .. Len(h) /\ (p # top.block \/ ~ top.has_node)
    <3>1. g[p].seq = h[p].seq
      BY <2>2 DEF Emission, Emits
    <3> QED BY <1>t, <2>2, <3>1 DEF InSeq, Pends
  <2>3. CASE p = top.block /\ top.has_node
    <3>1. Len(g[p].seq) = Len(h[p].seq) + 1 /\ g[p].seq[Len(h[p].seq) + 1] = top.node
          /\ \A m \in 1 .. Len(h[p].seq) : g[p].seq[m] = h[p].seq[m]
      BY <2>3 DEF Emission, Emits
    <3>2. Len(h[p].seq) \in Nat
      BY <1>t, <1>5, <2>3
    <3>3. n \in 1 .. Len(g[p].seq) <=> n \in 1 .. Len(h[p].seq) \/ n = Len(h[p].seq) + 1
      BY <3>1, <3>2
    <3> QED BY <1>t, <2>3, <3>1, <3>3 DEF InSeq, Pends
  <2> QED BY <2>1, <2>2, <2>3
<1> QED BY <1>t, <1>2, <1>3, <1>4, <1>6, <1>7

LEMMA EmitOnce ==
    ASSUME NEW h, NEW s, NEW g, NEW r, Emission(h, s, g, r), Once(h, s, FALSE)
    PROVE  Once(g, r, FALSE)
<1> DEFINE B == s[Len(s)].block  N == Len(h[B].seq) + 1
<1>1. /\ Len(g) = Len(h)
      /\ \A k, b : Fills(r, k, b) <=> Fills(s, k, b)
      /\ \A k, b : ~ Pends(r, k, b)
      /\ \A k, b : Pends(s, k, b) => k = Len(s)
      /\ \A p, n, b : InSeq(g, p, n, b) <=>
            InSeq(h, p, n, b) \/ (Pends(s, Len(s), b) /\ p = B /\ n = N)
      /\ \A b : ~ InSeq(h, B, N, b)
  <2>1. \A p, n, b : InSeq(g, p, n, b) <=>
            InSeq(h, p, n, b) \/ (Pends(s, Len(s), b) /\ p = B /\ n = Len(h[p].seq) + 1)
    BY EmitHolders
  <2>2. \A p, n, b : InSeq(g, p, n, b) <=>
            InSeq(h, p, n, b) \/ (Pends(s, Len(s), b) /\ p = B /\ n = N)
    BY <2>1
  <2> QED BY <2>2, EmitHolders
<1> HIDE DEF B, N
<1> SUFFICES ASSUME NEW b \in 1 .. Len(h)
    PROVE  /\ \A k, l : ~ (Fills(r, k, b) /\ Pends(r, l, b))
           /\ \A k, p, n : ~ (Fills(r, k, b) /\ InSeq(g, p, n, b))
           /\ \A k, p, n : ~ (Pends(r, k, b) /\ InSeq(g, p, n, b))
           /\ \A k, l : Fills(r, k, b) /\ Fills(r, l, b) => k = l
           /\ \A k, l : Pends(r, k, b) /\ Pends(r, l, b) => k = l
           /\ \A p, q, m, n : InSeq(g, p, m, b) /\ InSeq(g, q, n, b) => p = q /\ m = n
           /\ \/ FALSE /\ b = 1
              \/ \E k : Fills(r, k, b)
              \/ \E k : Pends(r, k, b)
              \/ \E p, n : InSeq(g, p, n, b)
  BY <1>1 DEF Once
<1>2. /\ \A k, l : ~ (Fills(s, k, b) /\ Pends(s, l, b))
      /\ \A k, p, n : ~ (Fills(s, k, b) /\ InSeq(h, p, n, b))
      /\ \A k, p, n : ~ (Pends(s, k, b) /\ InSeq(h, p, n, b))
      /\ \A k, l : Fills(s, k, b) /\ Fills(s, l, b) => k = l
      /\ \A p, q, m, n : InSeq(h, p, m, b) /\ InSeq(h, q, n, b) => p = q /\ m = n
      /\ \/ \E k : Fills(s, k, b)
         \/ \E k : Pends(s, k, b)
         \/ \E p, n : InSeq(h, p, n, b)
  BY DEF Once
<1>3. \A k, l : ~ (Fills(r, k, b) /\ Pends(r, l, b))
  BY <1>1
<1>4. \A k, p, n : ~ (Fills(r, k, b) /\ InSeq(g, p, n, b))
  BY <1>1, <1>2
<1>5. \A k, p, n : ~ (Pends(r, k, b) /\ InSeq(g, p, n, b))
  BY <1>1
<1>6. \A k, l : Fills(r, k, b) /\ Fills(r, l, b) => k = l
  BY <1>1, <1>2
<1>7. \A p, q, m, n : InSeq(g, p, m, b) /\ InSeq(g, q, n, b) => p = q /\ m = n
  BY <1>1, <1>2
<1>8. \/ \E k : Fills(r, k, b)
      \/ \E k : Pends(r, k, b)
      \/ \E p, n : InSeq(g, p, n, b)
  <2>1. CASE \E k : Fills(s, k, b)
    BY <1>1, <2>1
  <2>2. CASE \E k : Pends(s, k, b)
    <3>1. InSeq(g, B, N, b)
      BY <1>1, <2>2
    <3> QED BY <3>1
  <2>3. CASE \E p, n : InSeq(h, p, n, b)
    BY <1>1, <2>3
  <2> QED BY <1>2, <2>1, <2>2, <2>3
<1> QED BY <1>1, <1>3, <1>4, <1>5, <1>6, <1>7, <1>8

LEMMA EmitOrder ==
    ASSUME NEW h, NEW s, NEW g, NEW r, NEW t, NEW p, Emission(h, s, g, r), Order(h, s, t, p)
    PROVE  Order(g, r, t, p)
<1> DEFINE top == s[Len(s)]  B == s[Len(s)].block
<1>t. /\ Typed(h, s) /\ Len(s) \in Nat /\ Len(s) \in 1 .. Len(s) /\ Len(r) = Len(s)
      /\ Len(g) = Len(h) /\ B \in 1 .. Len(h)
      /\ \A k \in 1 .. Len(s) : r[k].block = s[k].block /\ s[k].block \in 1 .. Len(h)
      /\ \A k \in 1 .. Len(s) - 1 : r[k] = s[k]
      /\ \A k, l \in 1 .. Len(s) : k < l => s[k].block < s[l].block
      /\ ~ r[Len(s)].has_node
      /\ \A c \in 1 .. Len(h) : c # B \/ ~ top.has_node => g[c].seq = h[c].seq
  BY DEF Emission, Typed, SameCalls, Emits, Shape
<1>b. ASSUME top.has_node
      PROVE  /\ Len(h[B].seq) \in Nat /\ Len(g[B].seq) = Len(h[B].seq) + 1
             /\ g[B].seq[Len(h[B].seq) + 1] = top.node
             /\ \A m \in 1 .. Len(h[B].seq) : g[B].seq[m] = h[B].seq[m]
             /\ Before(t, top.node.src_idx, p)
             /\ \A m \in 1 .. Len(h[B].seq) : h[B].seq[m].src_idx < top.node.src_idx
  BY <1>t, <1>b, Fields DEF Emission, Emits, Order
<1>1. ASSUME NEW c \in 1 .. Len(h), NEW m \in 1 .. Len(g[c].seq), NEW n \in 1 .. Len(g[c].seq),
             m < n
      PROVE  g[c].seq[m].src_idx < g[c].seq[n].src_idx
  <2>1. CASE c # B \/ ~ top.has_node
    BY <1>t, <1>1, <2>1 DEF Order, Sorted
  <2>2. CASE c = B /\ top.has_node /\ n = Len(h[B].seq) + 1
    <3>1. m \in 1 .. Len(h[B].seq)
      <4>1. Len(g[c].seq) = Len(h[B].seq) + 1 /\ Len(h[B].seq) \in Nat
        BY <1>b, <2>2
      <4> QED BY <4>1, <1>1, <2>2
    <3> QED BY <1>b, <2>2, <3>1
  <2>3. CASE c = B /\ top.has_node /\ n # Len(h[B].seq) + 1
    <3>1. m \in 1 .. Len(h[B].seq) /\ n \in 1 .. Len(h[B].seq)
      <4>1. Len(g[c].seq) = Len(h[B].seq) + 1 /\ Len(h[B].seq) \in Nat
        BY <1>b, <2>3
      <4>2. PICK L \in Nat : L = Len(h[B].seq)
        BY <4>1
      <4>3. m \in 1 .. L + 1 /\ n \in 1 .. L + 1 /\ n # L + 1
        BY <4>1, <4>2, <2>3
      <4>4. m \in 1 .. L /\ n \in 1 .. L
        BY <4>3, <1>1
      <4> QED BY <4>2, <4>4
    <3>2. h[B].seq[m].src_idx < h[B].seq[n].src_idx
      BY <1>t, <1>1, <3>1 DEF Order, Sorted
    <3> QED BY <1>b, <2>3, <3>1, <3>2
  <2> QED BY <2>1, <2>2, <2>3
<1>2. ASSUME NEW k \in 1 .. Len(r), NEW n \in 1 .. Len(g[r[k].block].seq)
      PROVE  Before(t, g[r[k].block].seq[n].src_idx, p)
  <2>1. k \in 1 .. Len(s) /\ r[k].block = s[k].block /\ s[k].block \in 1 .. Len(h)
    BY <1>t
  <2>2. CASE s[k].block # B \/ ~ top.has_node
    BY <1>t, <2>1, <2>2 DEF Order
  <2>3. CASE s[k].block = B /\ top.has_node
    <3>1. n \in 1 .. Len(h[B].seq) \/ n = Len(h[B].seq) + 1
      <4>1. Len(g[r[k].block].seq) = Len(h[B].seq) + 1 /\ Len(h[B].seq) \in Nat
        BY <1>b, <2>1, <2>3
      <4> QED BY <4>1
    <3>2. \A m \in 1 .. Len(h[B].seq) : Before(t, h[B].seq[m].src_idx, p)
      BY <1>t DEF Order
    <3> QED BY <1>b, <2>1, <2>3, <3>1, <3>2
  <2> QED BY <2>2, <2>3
<1>3. ASSUME NEW k \in 1 .. Len(r), r[k].has_node \/ k < Len(r)
      PROVE  /\ Before(t, r[k].node.src_idx, p)
             /\ \A n \in 1 .. Len(g[r[k].block].seq) :
                   g[r[k].block].seq[n].src_idx < r[k].node.src_idx
  <2>1. k \in 1 .. Len(s) - 1 /\ k \in 1 .. Len(s) /\ k < Len(s)
    BY <1>t, <1>3
  <2>2. r[k] = s[k] /\ s[k].block \in 1 .. Len(h) /\ s[k].block < B
    BY <1>t, <2>1
  <2>3. s[k].block # B
    BY <1>t, <2>2
  <2> QED BY <1>t, <2>1, <2>2, <2>3 DEF Order
<1> QED BY <1>t, <1>1, <1>2, <1>3 DEF Order, Sorted

----------------------------------------------------------------------------
(* Nothing is pending.                                                     *)
Quiet(s) == \A k \in 1 .. Len(s) : ~ s[k].has_node

(* A step of the innermost activation alone: r is s with, at most, a leaf  *)
(* pending that stands at token p + 1.                                     *)
Leaf(s, r, t, p) ==
    /\ SameCalls(s, r)
    /\ r[Len(r)].has_node =>
          /\ r[Len(r)].node.type # "block" /\ r[Len(r)].node.block = 0
          /\ p < Len(t) /\ r[Len(r)].node.src_idx = t[p + 1].src_idx

LEMMA BeforeNext ==
    ASSUME NEW t \in Seq(Token), NEW p \in Nat, InSourceOrder(t)
    PROVE  /\ \A x : Before(t, x, p) => Before(t, x, p + 1)
           /\ p < Len(t) => Before(t, t[p + 1].src_idx, p + 1)
<1>t. Len(t) \in Nat
  OBVIOUS
<1>1. \A x : Before(t, x, p) => Before(t, x, p + 1)
  <2>1. \A j \in p + 1 + 1 .. Len(t) : j \in p + 1 .. Len(t)
    BY <1>t
  <2> QED BY <2>1 DEF Before
<1>2. ASSUME p < Len(t) PROVE Before(t, t[p + 1].src_idx, p + 1)
  <2>1. \A j \in p + 1 + 1 .. Len(t) : p + 1 \in 1 .. Len(t) /\ j \in 1 .. Len(t) /\ p + 1 < j
    BY <1>t, <1>2
  <2> QED BY <2>1 DEF Before, InSourceOrder
<1> QED BY <1>1, <1>2

LEMMA LeafStep ==
    ASSUME NEW h, NEW s, NEW r, NEW t \in Seq(Token), NEW p \in Nat, InSourceOrder(t),
           Typed(h, s), Typed(h, r), s # <<>>, Quiet(s), Leaf(s, r, t, p),
           Shape(h, s), Once(h, s, FALSE), Order(h, s, t, p)
    PROVE  Shape(h, r) /\ Once(h, r, FALSE) /\ Order(h, r, t, p + 1)
<1>t. /\ Len(s) \in Nat /\ Len(s) \in 1 .. Len(s) /\ Len(r) = Len(s) /\ Len(t) \in Nat
      /\ \A k \in 1 .. Len(s) : r[k].block = s[k].block /\ s[k].block \in 1 .. Len(h)
      /\ \A k \in 1 .. Len(s) - 1 : r[k] = s[k] /\ k \in 1 .. Len(s)
  BY DEF Typed, Leaf, SameCalls, Shape
<1>k. \A k \in 1 .. Len(s) : k = Len(s) \/ k \in 1 .. Len(s) - 1
  BY <1>t
<1>q. \A k \in 1 .. Len(s) - 1 : ~ r[k].has_node
  BY <1>t DEF Quiet
<1>1. Shape(h, r)
  <2>1. \A k \in 1 .. Len(r) : r[k].block \in 1 .. Len(h) /\ h[r[k].block].depth = k - 1
    BY <1>t DEF Shape
  <2>2. \A k, l \in 1 .. Len(r) : k < l => r[k].block < r[l].block
    BY <1>t DEF Shape
  <2>3. \A k \in 1 .. Len(r) - 1 : ~ r[k].has_node /\ r[k].node.type = "block"
    BY <1>t, <1>q DEF Shape
  <2>4. \A k \in 1 .. Len(r) : r[k].has_node => NodeOK(h, r[k].block, r[k].node)
    BY <1>t, <1>k, <1>q DEF Leaf, NodeOK
  <2>5. r # <<>> => r[1].block = 1
    BY <1>t DEF Shape
  <2> QED BY <2>1, <2>2, <2>3, <2>4, <2>5 DEF Shape
<1>2. Once(h, r, FALSE)
  <2>1. \A k, b : Fills(r, k, b) <=> Fills(s, k, b)
    BY <1>t DEF Fills
  <2>2. \A k : \A b \in 1 .. Len(h) : ~ Pends(r, k, b)
    BY <1>t, <1>k, <1>q DEF Leaf, Pends
  <2>3. \A k, b : ~ Pends(s, k, b)
    BY DEF Quiet, Pends
  <2> QED BY <2>1, <2>2, <2>3 DEF Once
<1>3. \A x : Before(t, x, p) => Before(t, x, p + 1)
  BY BeforeNext
<1>4. ASSUME p < Len(t) PROVE Before(t, t[p + 1].src_idx, p + 1)
  BY <1>4, BeforeNext
<1>5. ASSUME NEW k \in 1 .. Len(r), r[k].has_node \/ k < Len(r)
      PROVE  /\ Before(t, r[k].node.src_idx, p + 1)
             /\ \A n \in 1 .. Len(h[r[k].block].seq) :
                   h[r[k].block].seq[n].src_idx < r[k].node.src_idx
  <2>1. CASE k \in 1 .. Len(s) - 1
    <3>1. r[k] = s[k] /\ k \in 1 .. Len(s)
      BY <1>t, <2>1
    <3>2. k < Len(s)
      <4>1. Len(s) \in Nat
        BY <1>t
      <4> QED BY <2>1, <4>1
    <3> QED BY <3>2, <1>3, <3>1 DEF Order
  <2>2. CASE k = Len(s)
    <3>1. r[k].has_node /\ k = Len(r) /\ p < Len(t) /\ r[k].node.src_idx = t[p + 1].src_idx
      BY <1>t, <1>5, <2>2 DEF Leaf
    <3>2. \A n \in 1 .. Len(h[s[k].block].seq) : Before(t, h[s[k].block].seq[n].src_idx, p)
      BY <1>t, <2>2 DEF Order
    <3>3. p + 1 \in p + 1 .. Len(t)
      BY <1>t, <3>1
    <3>4. \A n \in 1 .. Len(h[s[k].block].seq) : h[s[k].block].seq[n].src_idx < t[p + 1].src_idx
      BY <3>2, <3>3 DEF Before
    <3> QED BY <1>t, <1>4, <2>2, <3>1, <3>4
  <2> QED BY <1>t, <1>k, <2>1, <2>2
<1>6. \A k \in 1 .. Len(r) : \A n \in 1 .. Len(h[r[k].block].seq) :
         Before(t, h[r[k].block].seq[n].src_idx, p + 1)
  BY <1>t, <1>3 DEF Order
<1>7. Order(h, r, t, p + 1)
  BY <1>5, <1>6 DEF Order
<1> QED BY <1>1, <1>2, <1>7

(* A call: a new block and its activation, with the caller's node waiting. *)
Call(h, s, g, r, t, p) ==
    /\ Len(g) = Len(h) + 1 /\ \A c \in 1 .. Len(h) : g[c] = h[c]
    /\ g[Len(h) + 1] = [seq |-> <<>>, depth |-> h[s[Len(s)].block].depth + 1]
    /\ Len(r) = Len(s) + 1
    /\ \A k \in 1 .. Len(s) : r[k].block = s[k].block /\ ~ r[k].has_node
    /\ \A k \in 1 .. Len(s) - 1 : r[k] = s[k]
    /\ r[Len(s)].node.type = "block" /\ r[Len(s)].node.src_idx = t[p + 1].src_idx
    /\ r[Len(s) + 1].block = Len(h) + 1 /\ ~ r[Len(s) + 1].has_node
    /\ p < Len(t)

LEMMA CallShape ==
    ASSUME NEW h, NEW s, NEW g, NEW r, NEW t, NEW p, Typed(h, s), Typed(g, r), s # <<>>,
           Quiet(s), Call(h, s, g, r, t, p), Shape(h, s)
    PROVE  Shape(g, r)
<1>t. /\ Len(s) \in Nat /\ Len(s) \in 1 .. Len(s) /\ Len(h) \in Nat
      /\ Len(r) = Len(s) + 1 /\ Len(g) = Len(h) + 1
      /\ \A c \in 1 .. Len(h) : g[c] = h[c]
  BY DEF Typed, Call
<1>k. \A k \in 1 .. Len(r) : k \in 1 .. Len(s) \/ k = Len(s) + 1
  BY <1>t
<1>s. \A k \in 1 .. Len(s) : r[k].block = s[k].block /\ s[k].block \in 1 .. Len(h)
  BY DEF Call, Shape
<1>n. g[Len(h) + 1].depth = Len(s) /\ g[Len(h) + 1].seq = <<>>
  <2>1. h[s[Len(s)].block].depth = Len(s) - 1
    BY <1>t DEF Shape
  <2> QED BY <1>t, <2>1 DEF Call
<1>1. ASSUME NEW k \in 1 .. Len(r) PROVE r[k].block \in 1 .. Len(g) /\ g[r[k].block].depth = k - 1
  <2>1. CASE k \in 1 .. Len(s)
    <3>1. s[k].block \in 1 .. Len(h) /\ h[s[k].block].depth = k - 1 /\ r[k].block = s[k].block
      BY <1>s, <2>1 DEF Shape
    <3> QED BY <1>t, <3>1
  <2>2. CASE k = Len(s) + 1
    <3>1. r[k].block = Len(h) + 1
      BY <2>2 DEF Call
    <3> QED BY <1>t, <1>n, <2>2, <3>1
  <2> QED BY <1>k, <2>1, <2>2
<1>2. ASSUME NEW k \in 1 .. Len(r), NEW l \in 1 .. Len(r), k < l PROVE r[k].block < r[l].block
  <2>1. k \in 1 .. Len(s)
    BY <1>t, <1>2
  <2>2. CASE l \in 1 .. Len(s)
    BY <1>2, <1>s, <2>1, <2>2 DEF Shape
  <2>3. CASE l = Len(s) + 1
    <3>1. r[l].block = Len(h) + 1
      BY <2>3 DEF Call
    <3> QED BY <1>s, <1>t, <2>1, <3>1
  <2> QED BY <1>k, <2>2, <2>3
<1>3. \A k \in 1 .. Len(r) : ~ r[k].has_node
  BY <1>k DEF Call
<1>4. ASSUME NEW k \in 1 .. Len(r) - 1 PROVE r[k].node.type = "block"
  <2>1. k = Len(s) \/ k \in 1 .. Len(s) - 1
    BY <1>t
  <2> QED BY <2>1 DEF Call, Shape
<1>5. ASSUME NEW b \in 1 .. Len(g), NEW n \in 1 .. Len(g[b].seq) PROVE NodeOK(g, b, g[b].seq[n])
  <2>1. CASE b = Len(h) + 1
    BY <1>n, <1>5, <2>1
  <2>2. CASE b # Len(h) + 1
    <3>1. b \in 1 .. Len(h)
      BY <1>t, <2>2
    <3>2. g[b] = h[b]
      BY <1>t, <3>1
    <3>3. NodeOK(h, b, h[b].seq[n])
      BY <1>5, <3>1, <3>2 DEF Shape
    <3>4. \A c \in b + 1 .. Len(h) : c \in 1 .. Len(h) /\ c \in b + 1 .. Len(h) + 1
      BY <1>t, <3>1
    <3> QED BY <1>t, <3>1, <3>2, <3>3, <3>4 DEF NodeOK
  <2> QED BY <2>1, <2>2
<1>6. r[1].block = 1
  <2>1. 1 \in 1 .. Len(s)
    BY <1>t
  <2> QED BY <2>1 DEF Call, Shape
<1>7. \A k \in 1 .. Len(r) - 1 : k \in 1 .. Len(r)
  BY <1>t
<1> QED BY <1>1, <1>2, <1>3, <1>4, <1>5, <1>6, <1>7 DEF Shape

LEMMA CallOnce ==
    ASSUME NEW h, NEW s, NEW g, NEW r, NEW t, NEW p, Typed(h, s), s # <<>>,
           Quiet(s), Call(h, s, g, r, t, p), Shape(h, s), Once(h, s, FALSE)
    PROVE  Once(g, r, FALSE)
<1>t. /\ Len(s) \in Nat /\ Len(h) \in Nat /\ Len(r) = Len(s) + 1 /\ Len(g) = Len(h) + 1
      /\ \A c \in 1 .. Len(h) : g[c] = h[c]
  BY DEF Typed, Call
<1>k. \A k \in 1 .. Len(r) : k \in 1 .. Len(s) \/ k = Len(s) + 1
  BY <1>t
<1>1. \A k, b : ~ Pends(r, k, b) /\ ~ Pends(s, k, b)
  BY <1>k DEF Pends, Call, Quiet
<1>2. \A k, b : Fills(r, k, b) <=> Fills(s, k, b) \/ (k = Len(s) + 1 /\ b = Len(h) + 1)
  <2>1. Len(s) + 1 \in 1 .. Len(r) /\ \A k \in 1 .. Len(s) : k \in 1 .. Len(r)
    BY <1>t
  <2>2. Len(s) + 1 \notin 1 .. Len(s)
    BY <1>t
  <2> QED BY <1>k, <2>1, <2>2 DEF Fills, Call
<1>3. \A m, n, b : InSeq(g, m, n, b) <=> InSeq(h, m, n, b)
  <2>1. g[Len(h) + 1].seq = <<>> /\ 1 .. Len(g[Len(h) + 1].seq) = {}
    <3>1. g[Len(h) + 1].seq = <<>>
      BY DEF Call
    <3> QED BY <3>1
  <2>2. \A m \in 1 .. Len(g) : m \in 1 .. Len(h) \/ m = Len(h) + 1
    BY <1>t
  <2>3. \A m \in 1 .. Len(h) : m \in 1 .. Len(g)
    BY <1>t
  <2> QED BY <1>t, <2>1, <2>2, <2>3 DEF InSeq
<1>4. \A k : ~ Fills(s, k, Len(h) + 1)
  <2>1. \A k \in 1 .. Len(s) : s[k].block \in 1 .. Len(h)
    BY DEF Shape
  <2>2. Len(h) + 1 \notin 1 .. Len(h)
    BY <1>t
  <2> QED BY <2>1, <2>2 DEF Fills
<1>5. \A m, n : ~ InSeq(h, m, n, Len(h) + 1)
  <2> SUFFICES ASSUME NEW m, NEW n, InSeq(h, m, n, Len(h) + 1) PROVE FALSE
    OBVIOUS
  <2>1. m \in 1 .. Len(h) /\ NodeOK(h, m, h[m].seq[n]) /\ h[m].seq[n].block = Len(h) + 1
    BY DEF InSeq, Shape
  <2>2. h[m].seq[n].block \in m + 1 .. Len(h) \/ h[m].seq[n].block = 0
    BY <2>1 DEF NodeOK
  <2> QED BY <1>t, <2>1, <2>2
<1>6. \A b \in 1 .. Len(g) : b \in 1 .. Len(h) \/ b = Len(h) + 1
  BY <1>t
<1>7. Len(h) + 1 \notin 1 .. Len(h)
  BY <1>t
<1> DEFINE L == Len(h) + 1  K == Len(s) + 1
<1>8. /\ \A k, b : Fills(r, k, b) <=> Fills(s, k, b) \/ (k = K /\ b = L)
      /\ \A k : ~ Fills(s, k, L)
      /\ \A m, n : ~ InSeq(h, m, n, L)
      /\ \A b \in 1 .. Len(g) : b \in 1 .. Len(h) \/ b = L
      /\ L \notin 1 .. Len(h)
  BY <1>2, <1>4, <1>5, <1>6, <1>7
<1> HIDE DEF L, K
<1> SUFFICES ASSUME NEW b \in 1 .. Len(g)
    PROVE  /\ \A k, m, n : ~ (Fills(r, k, b) /\ InSeq(g, m, n, b))
           /\ \A k, l : Fills(r, k, b) /\ Fills(r, l, b) => k = l
           /\ \A m, q, n, j : InSeq(g, m, n, b) /\ InSeq(g, q, j, b) => m = q /\ n = j
           /\ \/ \E k : Fills(r, k, b)
              \/ \E m, n : InSeq(g, m, n, b)
  BY <1>1 DEF Once
<1>9. CASE b = L
  BY <1>3, <1>8, <1>9
<1>10. CASE b \in 1 .. Len(h)
  <2>1. /\ \A k, m, n : ~ (Fills(s, k, b) /\ InSeq(h, m, n, b))
        /\ \A k, l : Fills(s, k, b) /\ Fills(s, l, b) => k = l
        /\ \A m, q, n, j : InSeq(h, m, n, b) /\ InSeq(h, q, j, b) => m = q /\ n = j
        /\ \/ \E k : Fills(s, k, b)
           \/ \E m, n : InSeq(h, m, n, b)
    BY <1>1, <1>10 DEF Once
  <2>2. b # L
    BY <1>8, <1>10
  <2> QED BY <1>3, <1>8, <2>1, <2>2
<1> QED BY <1>8, <1>9, <1>10

LEMMA CallOrder ==
    ASSUME NEW h, NEW s, NEW g, NEW r, NEW t \in Seq(Token), NEW p \in Nat, InSourceOrder(t),
           Typed(h, s), s # <<>>, Call(h, s, g, r, t, p), Shape(h, s), Order(h, s, t, p)
    PROVE  Order(g, r, t, p + 1)
<1>t. /\ Len(s) \in Nat /\ Len(h) \in Nat /\ Len(s) \in 1 .. Len(s)
      /\ Len(r) = Len(s) + 1 /\ Len(g) = Len(h) + 1
      /\ \A c \in 1 .. Len(h) : g[c] = h[c]
      /\ \A k \in 1 .. Len(s) : r[k].block = s[k].block /\ s[k].block \in 1 .. Len(h)
  BY DEF Typed, Call, Shape
<1>k. \A k \in 1 .. Len(r) : k \in 1 .. Len(s) \/ k = Len(s) + 1
  BY <1>t
<1>n. 1 .. Len(g[Len(h) + 1].seq) = {} /\ r[Len(s) + 1].block = Len(h) + 1
  <2>1. g[Len(h) + 1].seq = <<>> /\ r[Len(s) + 1].block = Len(h) + 1
    BY DEF Call
  <2> QED BY <2>1
<1>b. /\ \A x : Before(t, x, p) => Before(t, x, p + 1)
      /\ Before(t, t[p + 1].src_idx, p + 1)
  BY BeforeNext DEF Call
<1>1. Sorted(g)
  <2> SUFFICES ASSUME NEW b \in 1 .. Len(g), NEW m \in 1 .. Len(g[b].seq),
                      NEW n \in 1 .. Len(g[b].seq), m < n
               PROVE  g[b].seq[m].src_idx < g[b].seq[n].src_idx
    BY DEF Sorted
  <2>1. CASE b = Len(h) + 1
    BY <1>n, <2>1
  <2>2. CASE b # Len(h) + 1
    <3>1. b \in 1 .. Len(h)
      BY <1>t, <2>2
    <3> QED BY <1>t, <3>1 DEF Order, Sorted
  <2> QED BY <2>1, <2>2
<1>2. ASSUME NEW k \in 1 .. Len(r), NEW n \in 1 .. Len(g[r[k].block].seq)
      PROVE  Before(t, g[r[k].block].seq[n].src_idx, p + 1)
  <2>1. CASE k = Len(s) + 1
    BY <1>n, <2>1
  <2>2. CASE k \in 1 .. Len(s)
    <3>1. g[r[k].block] = h[s[k].block]
      BY <1>t, <2>2
    <3> QED BY <1>b, <2>2, <3>1 DEF Order
  <2> QED BY <1>k, <2>1, <2>2
<1>3. ASSUME NEW k \in 1 .. Len(r), r[k].has_node \/ k < Len(r)
      PROVE  /\ Before(t, r[k].node.src_idx, p + 1)
             /\ \A n \in 1 .. Len(g[r[k].block].seq) :
                   g[r[k].block].seq[n].src_idx < r[k].node.src_idx
  <2>1. k \in 1 .. Len(s)
    <3>1. CASE k = Len(s) + 1
      <4>1. ~ r[Len(s) + 1].has_node
        BY DEF Call
      <4> QED BY <1>t, <1>3, <3>1, <4>1
    <3> QED BY <1>k, <3>1
  <2>2. g[r[k].block] = h[s[k].block]
    BY <1>t, <2>1
  <2>3. CASE k = Len(s)
    <3>1. r[k].node.src_idx = t[p + 1].src_idx /\ p < Len(t)
      BY <2>3 DEF Call
    <3>2. p + 1 \in p + 1 .. Len(t)
      BY <3>1
    <3>3. \A n \in 1 .. Len(h[s[k].block].seq) : Before(t, h[s[k].block].seq[n].src_idx, p)
      BY <2>1 DEF Order
    <3> QED BY <1>b, <2>2, <3>1, <3>2, <3>3 DEF Before
  <2>4. CASE k \in 1 .. Len(s) - 1
    <3>1. r[k] = s[k]
      BY <2>4 DEF Call
    <3>2. k < Len(s)
      BY <1>t, <2>4
    <3> QED BY <1>b, <2>1, <2>2, <3>1, <3>2 DEF Order
  <2>5. k = Len(s) \/ k \in 1 .. Len(s) - 1
    BY <1>t, <2>1
  <2> QED BY <2>3, <2>4, <2>5
<1> QED BY <1>1, <1>2, <1>3 DEF Order

(* A return to a caller: its waiting node gets the block.                  *)
Resumes(s, r) ==
    /\ Len(s) > 1 /\ Len(r) = Len(s) - 1
    /\ \A k \in 1 .. Len(s) - 1 : r[k].block = s[k].block
    /\ \A k \in 1 .. Len(s) - 2 : r[k] = s[k]
    /\ r[Len(s) - 1].has_node /\ r[Len(s) - 1].node.type = s[Len(s) - 1].node.type
    /\ r[Len(s) - 1].node.src_idx = s[Len(s) - 1].node.src_idx
    /\ r[Len(s) - 1].node.block = s[Len(s)].block

LEMMA ResumeStep ==
    ASSUME NEW h, NEW s, NEW r, NEW t \in Seq(Token), NEW p \in Nat, NEW q \in Nat, p <= q,
           Typed(h, s), Typed(h, r), Quiet(s), Resumes(s, r),
           Shape(h, s), Once(h, s, FALSE), Order(h, s, t, p)
    PROVE  Shape(h, r) /\ Once(h, r, FALSE) /\ Order(h, r, t, q)
<1>t. Len(s) \in Nat /\ Len(h) \in Nat /\ Len(s) > 1 /\ Len(r) = Len(s) - 1 /\ Len(t) \in Nat
  BY DEF Typed, Resumes
<1> DEFINE C == Len(s) - 1
<1>c. /\ C \in 1 .. Len(s) /\ Len(s) \in 1 .. Len(s) /\ C < Len(s) /\ C \in 1 .. Len(s) - 1
      /\ \A k \in 1 .. Len(r) : k = C \/ k \in 1 .. Len(s) - 2
      /\ \A k \in 1 .. Len(r) : k \in 1 .. Len(s) /\ k # Len(s) /\ k < Len(s)
      /\ \A k \in 1 .. Len(s) - 2 : k \in 1 .. Len(r) /\ k # C
      /\ C \in 1 .. Len(r)
      /\ \A k \in 1 .. Len(s) : k \in 1 .. Len(r) \/ k = Len(s)
  BY <1>t
<1>s. /\ \A k \in 1 .. Len(r) : r[k].block = s[k].block /\ s[k].block \in 1 .. Len(h)
      /\ \A k \in 1 .. Len(s) - 2 : r[k] = s[k] /\ ~ r[k].has_node
      /\ s[Len(s)].block \in 1 .. Len(h)
      /\ s[C].block < s[Len(s)].block
      /\ s[C].node.type = "block"
      /\ h[s[C].block].depth = C - 1 /\ h[s[Len(s)].block].depth = Len(s) - 1
  BY <1>t, <1>c DEF Resumes, Shape, Quiet
<1>r. /\ r[C].has_node /\ r[C].node.type = "block" /\ r[C].node.block = s[Len(s)].block
      /\ r[C].node.src_idx = s[C].node.src_idx
  BY <1>s DEF Resumes
<1> HIDE DEF C
<1>1. Shape(h, r)
  <2>1. \A k \in 1 .. Len(r) : r[k].block \in 1 .. Len(h) /\ h[r[k].block].depth = k - 1
    BY <1>c, <1>s DEF Shape
  <2>2. \A k, l \in 1 .. Len(r) : k < l => r[k].block < r[l].block
    BY <1>c, <1>s DEF Shape
  <2>3. \A k \in 1 .. Len(r) - 1 : ~ r[k].has_node /\ r[k].node.type = "block"
    <3>1. \A k \in 1 .. Len(r) - 1 : k \in 1 .. Len(s) - 2 /\ k \in 1 .. Len(s) - 1
      BY <1>t
    <3> QED BY <1>s, <3>1 DEF Shape
  <2>4. NodeOK(h, r[C].block, r[C].node)
    <3>1. r[C].block = s[C].block /\ r[C].block \in 1 .. Len(h)
      BY <1>c, <1>s
    <3>2. s[Len(s)].block \in r[C].block + 1 .. Len(h)
      BY <1>t, <1>s, <3>1
    <3>3. h[s[Len(s)].block].depth = h[r[C].block].depth + 1
      BY <1>t, <1>s, <3>1 DEF C
    <3> QED BY <1>r, <3>2, <3>3 DEF NodeOK
  <2>5. \A k \in 1 .. Len(r) : r[k].has_node => NodeOK(h, r[k].block, r[k].node)
    BY <1>c, <1>s, <2>4
  <2>6. r[1].block = 1
    <3>1. s # <<>> /\ 1 \in 1 .. Len(r)
      BY <1>t
    <3>2. s[1].block = 1
      BY <3>1 DEF Shape
    <3> QED BY <1>s, <3>1, <3>2
  <2> QED BY <2>1, <2>2, <2>3, <2>5, <2>6 DEF Shape
<1>2. Once(h, r, FALSE)
  <2> DEFINE K == Len(s)
  <2>1. \A k, b : Fills(r, k, b) <=> Fills(s, k, b) /\ k # K
    BY <1>c, <1>s DEF Fills
  <2>2. \A k, b : Pends(r, k, b) <=> k = C /\ Fills(s, K, b)
    BY <1>c, <1>s, <1>r DEF Pends, Fills
  <2>3. \A k, b : ~ Pends(s, k, b)
    BY DEF Pends, Quiet
  <2> HIDE DEF K
  <2> SUFFICES ASSUME NEW b \in 1 .. Len(h)
      PROVE  /\ \A k, l : ~ (Fills(r, k, b) /\ Pends(r, l, b))
             /\ \A k, m, n : ~ (Fills(r, k, b) /\ InSeq(h, m, n, b))
             /\ \A k, m, n : ~ (Pends(r, k, b) /\ InSeq(h, m, n, b))
             /\ \A k, l : Fills(r, k, b) /\ Fills(r, l, b) => k = l
             /\ \A k, l : Pends(r, k, b) /\ Pends(r, l, b) => k = l
             /\ \A m, j, n, i : InSeq(h, m, n, b) /\ InSeq(h, j, i, b) => m = j /\ n = i
             /\ \/ \E k : Fills(r, k, b)
                \/ \E k : Pends(r, k, b)
                \/ \E m, n : InSeq(h, m, n, b)
    BY DEF Once
  <2>4. /\ \A k, m, n : ~ (Fills(s, k, b) /\ InSeq(h, m, n, b))
        /\ \A k, l : Fills(s, k, b) /\ Fills(s, l, b) => k = l
        /\ \A m, j, n, i : InSeq(h, m, n, b) /\ InSeq(h, j, i, b) => m = j /\ n = i
        /\ \/ \E k : Fills(s, k, b)
           \/ \E m, n : InSeq(h, m, n, b)
    BY <2>3 DEF Once
  <2> QED BY <2>1, <2>2, <2>4
<1>3. \A x : Before(t, x, p) => Before(t, x, q)
  <2>1. \A j \in q + 1 .. Len(t) : j \in p + 1 .. Len(t)
    BY <1>t
  <2> QED BY <2>1 DEF Before
<1>4. ASSUME NEW k \in 1 .. Len(r)
      PROVE  /\ Before(t, r[k].node.src_idx, q)
             /\ \A n \in 1 .. Len(h[r[k].block].seq) :
                   h[r[k].block].seq[n].src_idx < r[k].node.src_idx
  <2>1. k \in 1 .. Len(s) /\ k < Len(s) /\ r[k].block = s[k].block
    BY <1>c, <1>s
  <2>2. r[k].node.src_idx = s[k].node.src_idx
    BY <1>c, <1>s, <1>r
  <2> QED BY <1>3, <2>1, <2>2 DEF Order
<1>5. \A k \in 1 .. Len(r) : \A n \in 1 .. Len(h[r[k].block].seq) :
         Before(t, h[r[k].block].seq[n].src_idx, q)
  BY <1>c, <1>s, <1>3 DEF Order
<1> QED BY <1>1, <1>2, <1>4, <1>5 DEF Order

(* The outermost activation returns the root.                              *)
LEMMA FinishStep ==
    ASSUME NEW h, NEW s, NEW t, NEW p, NEW q,
           Typed(h, s), Quiet(s), Len(s) = 1,
           Shape(h, s), Once(h, s, FALSE), Order(h, s, t, p)
    PROVE  Shape(h, <<>>) /\ Once(h, <<>>, TRUE) /\ Order(h, <<>>, t, q)
<1>e. 1 .. Len(<<>>) = {} /\ 1 .. Len(<<>>) - 1 = {}
  OBVIOUS
<1>1. Shape(h, <<>>)
  BY <1>e DEF Shape
<1>2. Order(h, <<>>, t, q)
  BY <1>e DEF Order
<1>3. Once(h, <<>>, TRUE)
  <2>1. \A k, b : ~ Fills(<<>>, k, b) /\ ~ Pends(<<>>, k, b)
    BY <1>e DEF Fills, Pends
  <2>2. \A k, b : ~ Pends(s, k, b)
    BY DEF Pends, Quiet
  <2>3. \A k, b : Fills(s, k, b) => b = 1
    <3>1. \A k \in 1 .. Len(s) : k = 1
      OBVIOUS
    <3>2. s # <<>>
      OBVIOUS
    <3>3. s[1].block = 1
      BY <3>2 DEF Shape
    <3> QED BY <3>1, <3>3 DEF Fills
  <2> QED BY <2>1, <2>2, <2>3 DEF Once
<1> QED BY <1>1, <1>2, <1>3

----------------------------------------------------------------------------
(* What the assignments of the steps make of a frame and of the stack.     *)
LEMMA FrameEdits ==
    ASSUME NEW f \in Frame, NEW b, NEW q
    PROVE  /\ [f EXCEPT !.has_node = b] =
                 [block |-> f.block, node |-> f.node, has_node |-> b, quoted |-> f.quoted]
           /\ [f EXCEPT !.quoted = q] =
                 [block |-> f.block, node |-> f.node, has_node |-> f.has_node, quoted |-> q]
BY DEF Frame

(* What an open bracket leaves behind: x is the frame's node, and b says   *)
(* whether it is still to be filed.                                        *)
Opening(f, x, b) == [f EXCEPT !.node = x, !.has_node = b]

LEMMA OpeningIs ==
    ASSUME NEW f \in Frame, NEW x, NEW b
    PROVE  Opening(f, x, b) = [block |-> f.block, node |-> x, has_node |-> b, quoted |-> f.quoted]
<1> DEFINE g == [f EXCEPT !.node = x]
<1>1. g = [block |-> f.block, node |-> x, has_node |-> f.has_node, quoted |-> f.quoted]
  BY DEF Frame
<1>2. Opening(f, x, b) = [g EXCEPT !.has_node = b]
  BY DEF Opening
<1>3. [g EXCEPT !.has_node = b]
         = [block |-> f.block, node |-> x, has_node |-> b, quoted |-> f.quoted]
  <2> HIDE DEF g
  <2> QED BY <1>1
<1> HIDE DEF g
<1> QED BY <1>2, <1>3

(* The frame that SetNode leaves.                                          *)
WithNode(f, x, q) == [f EXCEPT !.node = x, !.has_node = TRUE, !.quoted = q]

LEMMA FrameMade ==
    ASSUME NEW c \in Nat, NEW x \in Node, NEW b \in BOOLEAN, NEW q \in BOOLEAN
    PROVE  [block |-> c, node |-> x, has_node |-> b, quoted |-> q] \in Frame
BY DEF Frame

LEMMA WithNodeFacts ==
    ASSUME NEW f \in Frame, NEW x \in Node, NEW q \in BOOLEAN
    PROVE  WithNode(f, x, q) \in Frame /\ WithNode(f, x, q).block = f.block
           /\ WithNode(f, x, q).node = x /\ WithNode(f, x, q).has_node
           /\ WithNode(f, x, q).quoted = q
<1> DEFINE g == [f EXCEPT !.node = x]
           e == [g EXCEPT !.has_node = TRUE]
<1>1. WithNode(f, x, q) = [block |-> f.block, node |-> x, has_node |-> TRUE, quoted |-> q]
  <2>1. e = [block |-> f.block, node |-> x, has_node |-> TRUE, quoted |-> f.quoted]
    <3>1. g = [block |-> f.block, node |-> x, has_node |-> f.has_node, quoted |-> f.quoted]
      BY DEF Frame
    <3> HIDE DEF g
    <3>2. \A b : [g EXCEPT !.has_node = b]
                    = [block |-> f.block, node |-> x, has_node |-> b, quoted |-> f.quoted]
      BY <3>1
    <3> QED BY <3>2, Zenon
  <2>2. WithNode(f, x, q) = [e EXCEPT !.quoted = q]
    BY DEF WithNode
  <2> HIDE DEF e
  <2> QED BY <2>1, <2>2
<1>2. f.block \in Nat
  BY DEF Frame
<1>3. [block |-> f.block, node |-> x, has_node |-> TRUE, quoted |-> q] \in Frame
  BY <1>2, FrameMade
<1> QED BY <1>1, <1>3

LEMMA TopFacts ==
    ASSUME NEW s \in Seq(Frame), s # <<>>, NEW f \in Frame
    PROVE  LET r == [s EXCEPT ![Len(s)] = f]
           IN  /\ r \in Seq(Frame) /\ r # <<>> /\ Len(r) = Len(s) /\ r[Len(s)] = f
               /\ \A k \in 1 .. Len(s) - 1 : r[k] = s[k]
<1>1. Len(s) \in Nat /\ Len(s) \in 1 .. Len(s) /\ \A k \in 1 .. Len(s) - 1 : k \in 1 .. Len(s) /\ k # Len(s)
  OBVIOUS
<1> DEFINE r == [s EXCEPT ![Len(s)] = f]
<1>2. r \in Seq(Frame) /\ Len(r) = Len(s) /\ r[Len(s)] = f
  BY <1>1
<1>3. \A k \in 1 .. Len(s) - 1 : r[k] = s[k]
  BY <1>1
<1>4. r # <<>>
  <2> HIDE DEF r
  <2> QED BY <1>1, <1>2
<1> QED BY <1>2, <1>3, <1>4

(* The stack after the assignments of Return to a caller.                  *)
Resumed(s, B, L) ==
    [SubSeq(s, 1, Len(s) - 1) EXCEPT ![Len(s) - 1].node.block = B, ![Len(s) - 1].node.last = L,
                                     ![Len(s) - 1].has_node = TRUE]

IsResumed(s, r, B, L, C) ==
    /\ r \in Seq(Frame) /\ r # <<>> /\ Len(r) = C
    /\ \A k \in 1 .. C - 1 : r[k] = s[k]
    /\ r[C].block = s[C].block /\ r[C].has_node
    /\ r[C].node.type = s[C].node.type /\ r[C].node.src_idx = s[C].node.src_idx
    /\ r[C].node.block = B /\ r[C].node.last = L
    /\ r[C].node.quoted = s[C].node.quoted /\ r[C].quoted = s[C].quoted

LEMMA CallerFacts ==
    ASSUME NEW s \in Seq(Frame), Len(s) > 1, NEW B \in Nat, NEW L \in Nat
    PROVE  IsResumed(s, Resumed(s, B, L), B, L, Len(s) - 1)
<1> DEFINE C == Len(s) - 1
           f == s[C]
           u == SubSeq(s, 1, C)
           v == [u EXCEPT ![C].node.block = B]
           w == [v EXCEPT ![C].node.last = L]
           r == [w EXCEPT ![C].has_node = TRUE]
           x == f.node
           y == [type |-> x.type, src_idx |-> x.src_idx, quoted |-> x.quoted, block |-> B, last |-> x.last]
           z == [type |-> x.type, src_idx |-> x.src_idx, quoted |-> x.quoted, block |-> B, last |-> L]
           fv == [block |-> f.block, node |-> y, has_node |-> f.has_node, quoted |-> f.quoted]
           fw == [block |-> f.block, node |-> z, has_node |-> f.has_node, quoted |-> f.quoted]
           fr == [block |-> f.block, node |-> z, has_node |-> TRUE, quoted |-> f.quoted]
<1>1. Len(s) \in Nat /\ C \in Nat /\ C \in 1 .. Len(s) /\ C \in 1 .. C
  OBVIOUS
<1>2. u \in Seq(Frame) /\ Len(u) = C /\ \A k \in 1 .. C : u[k] = s[k]
  BY <1>1
<1>3. f \in Frame
  BY <1>1
<1>4. x \in Node /\ f.block \in Nat /\ f.has_node \in BOOLEAN /\ f.quoted \in BOOLEAN
      /\ f = [block |-> f.block, node |-> x, has_node |-> f.has_node, quoted |-> f.quoted]
  <2> HIDE DEF f
  <2> QED BY <1>3 DEF Frame
<1>5. x = [type |-> x.type, src_idx |-> x.src_idx, quoted |-> x.quoted, block |-> x.block, last |-> x.last]
      /\ y \in Node /\ z \in Node
  <2> HIDE DEF x
  <2> QED BY <1>4 DEF Node
<1>6. fv \in Frame /\ fw \in Frame /\ fr \in Frame
  <2> HIDE DEF x, y, z, f
  <2> QED BY <1>4, <1>5 DEF Frame
<1>7. v = [u EXCEPT ![C] = fv]
  <2>1. v = [u EXCEPT ![C] = [u[C] EXCEPT !.node = [u[C].node EXCEPT !.block = B]]]
    OBVIOUS
  <2>2. u[C] = f
    BY <1>1, <1>2
  <2>3. [x EXCEPT !.block = B] = y
    <3> HIDE DEF x
    <3> QED BY <1>4 DEF Node
  <2>4. [f EXCEPT !.node = y] = fv
    <3> HIDE DEF f, x, y
    <3> QED BY <1>3, <1>4 DEF Frame, x
  <2> HIDE DEF u, fv, f, y, C
  <2> QED BY <2>1, <2>2, <2>3, <2>4 DEF x
<1>8. v \in Seq(Frame) /\ Len(v) = C /\ v[C] = fv /\ \A k \in 1 .. C - 1 : v[k] = s[k]
  <2> HIDE DEF v, u, fv, C
  <2>1. v \in Seq(Frame) /\ Len(v) = C /\ v[C] = fv
    BY <1>1, <1>2, <1>6, <1>7
  <2>2. \A k \in 1 .. C - 1 : k \in 1 .. C /\ k # C
    BY <1>1
  <2> QED BY <1>1, <1>2, <1>7, <2>1, <2>2
<1>9. w = [v EXCEPT ![C] = fw]
  <2>1. w = [v EXCEPT ![C] = [v[C] EXCEPT !.node = [v[C].node EXCEPT !.last = L]]]
    OBVIOUS
  <2>2. fv.node = y
    OBVIOUS
  <2>3. [y EXCEPT !.last = L] = z
    OBVIOUS
  <2>4. [fv EXCEPT !.node = z] = fw
    <3> HIDE DEF f, x, y, z
    <3> QED OBVIOUS
  <2> HIDE DEF v, fv, fw, f, y, z, C
  <2> QED BY <1>8, <2>1, <2>2, <2>3, <2>4
<1>10. w \in Seq(Frame) /\ Len(w) = C /\ w[C] = fw /\ \A k \in 1 .. C - 1 : w[k] = s[k]
  <2> HIDE DEF w, v, fw, C
  <2>1. w \in Seq(Frame) /\ Len(w) = C /\ w[C] = fw
    BY <1>1, <1>8, <1>6, <1>9
  <2>2. \A k \in 1 .. C - 1 : k \in 1 .. C /\ k # C
    BY <1>1
  <2> QED BY <1>1, <1>8, <1>9, <2>1, <2>2
<1>11. r = [w EXCEPT ![C] = fr]
  <2>1. r = [w EXCEPT ![C] = [w[C] EXCEPT !.has_node = TRUE]]
    OBVIOUS
  <2>2. [fw EXCEPT !.has_node = TRUE] = fr
    <3>1. [fw EXCEPT !.has_node = TRUE] =
             [block |-> fw.block, node |-> fw.node, has_node |-> TRUE, quoted |-> fw.quoted]
      <4> HIDE DEF fw
      <4> QED BY <1>5, <1>6, FrameEdits
    <3>2. fw.block = f.block /\ fw.node = z /\ fw.quoted = f.quoted
      OBVIOUS
    <3> QED BY <3>1, <3>2
  <2> HIDE DEF w, fw, fr, C
  <2> QED BY <1>10, <2>1, <2>2
<1>12. r \in Seq(Frame) /\ Len(r) = C /\ r[C] = fr /\ \A k \in 1 .. C - 1 : r[k] = s[k]
  <2> HIDE DEF w, r, fr, C
  <2>1. r \in Seq(Frame) /\ Len(r) = C /\ r[C] = fr
    BY <1>1, <1>10, <1>6, <1>11
  <2>2. \A k \in 1 .. C - 1 : k \in 1 .. C /\ k # C
    BY <1>1
  <2> QED BY <1>1, <1>10, <1>11, <2>1, <2>2
<1>13. fr.block = f.block /\ fr.has_node /\ fr.node.type = x.type /\ fr.node.src_idx = x.src_idx
       /\ fr.node.block = B /\ fr.node.last = L /\ fr.node.quoted = x.quoted
       /\ fr.quoted = f.quoted
  OBVIOUS
<1>14. r # <<>>
  <2> HIDE DEF r, C
  <2> QED BY <1>1, <1>12
<1>15. Resumed(s, B, L) = r
  BY DEF Resumed
<1>16. IsResumed(s, r, B, L, C)
  <2> HIDE DEF r, fr, C
  <2> QED BY <1>12, <1>13, <1>14 DEF IsResumed
<1> HIDE DEF r
<1> QED BY <1>15, <1>16

----------------------------------------------------------------------------
(* A quote leaves what a step depends on as it is.                         *)
LEMMA QuoteStep ==
    ASSUME NEW h, NEW s, NEW r, NEW t \in Seq(Token), NEW p \in Nat, InSourceOrder(t),
           Len(r) = Len(s), s # <<>>, r # <<>>,
           \A k \in 1 .. Len(s) : /\ r[k].block = s[k].block /\ r[k].node = s[k].node
                                  /\ r[k].has_node = s[k].has_node,
           1 \in 1 .. Len(s), \A k \in 1 .. Len(s) - 1 : k \in 1 .. Len(s),
           Shape(h, s), Once(h, s, FALSE), Order(h, s, t, p)
    PROVE  Shape(h, r) /\ Once(h, r, FALSE) /\ Order(h, r, t, p + 1)
<1>1. Shape(h, r)
  BY DEF Shape
<1>2. \A k, b : (Fills(r, k, b) <=> Fills(s, k, b)) /\ (Pends(r, k, b) <=> Pends(s, k, b))
  BY DEF Fills, Pends
<1>3. Once(h, r, FALSE)
  BY <1>2 DEF Once
<1>4. \A x : Before(t, x, p) => Before(t, x, p + 1)
  BY BeforeNext
<1>5. Order(h, r, t, p + 1)
  BY <1>4 DEF Order
<1> QED BY <1>1, <1>3, <1>5

(* A set of numbers that is not empty has a least element.                 *)
LEMMA NatLeast ==
    ASSUME NEW T, T \subseteq Nat, T # {}
    PROVE  \E n \in T : \A m \in T : n <= m
<1> DEFINE Below(n) == 0 .. n
           F == {Below(n) : n \in T}
           R == StrictSubsetOrdering(Nat)
<1>1. F \subseteq FiniteSubsetsOf(Nat)
  <2> SUFFICES ASSUME NEW n \in T PROVE Below(n) \in FiniteSubsetsOf(Nat)
    OBVIOUS
  <2>1. IsFiniteSet(Below(n)) /\ Below(n) \subseteq Nat
    BY FS_Interval
  <2> QED BY <2>1 DEF FiniteSubsetsOf
<1>2. PICK x \in F : \A y \in F : <<y, x>> \notin R
  <2>1. IsWellFoundedOn(R, FiniteSubsetsOf(Nat)) BY FS_StrictSubsetOrderingWellFounded
  <2>2. F # {} OBVIOUS
  <2> QED BY <2>1, <2>2, <1>1, WFMin
<1>3. PICK n \in T : x = Below(n) BY <1>2
<1>4. ASSUME NEW m \in T, m < n PROVE FALSE
  <2>1. Below(m) \subseteq Below(n) /\ Below(m) # Below(n)
    BY <1>4
  <2>2. <<Below(m), Below(n)>> \in R
    BY <2>1 DEF StrictSubsetOrdering
  <2> QED BY <2>2, <1>2, <1>3
<1> QED BY <1>4

(* From the activations' blocks, or the root that was returned, every      *)
(* block is reached: the least that was not would be held by a node of an  *)
(* earlier one.                                                            *)
LEMMA FreesAll ==
    ASSUME NEW h, NEW s, NEW done \in BOOLEAN,
           Typed(h, s), Quiet(s), Shape(h, s), Once(h, s, done),
           NEW roots, \A k \in 1 .. Len(s) : s[k].block \in roots, done => 1 \in roots
    PROVE  FreedWith(h, roots) = 1 .. Len(h)
<1> DEFINE Dom == 1 .. Len(h)
           Held(b, p) == \E k \in 1 .. Len(h[p].seq) : h[p].seq[k].block = b
           Reach(f) == [b \in Dom |-> b \in roots \/ \E p \in 1 .. b - 1 : f[p] /\ Held(b, p)]
           g == [b \in Dom |-> TRUE]
           r == CHOOSE f : f = Reach(f)
<1>1. \A b \in Dom : b \in roots \/ \E p \in 1 .. b - 1 : p \in Dom /\ Held(b, p)
  <2> SUFFICES ASSUME NEW b \in Dom, b \notin roots
               PROVE  \E p \in 1 .. b - 1 : p \in Dom /\ Held(b, p)
    OBVIOUS
  <2>1. \A k : ~ Pends(s, k, b) /\ ~ Fills(s, k, b)
    BY DEF Pends, Fills, Quiet
  <2>2. PICK p, n : InSeq(h, p, n, b)
    BY <2>1 DEF Once
  <2>3. p \in Dom /\ n \in 1 .. Len(h[p].seq) /\ h[p].seq[n].block = b
    BY <2>2 DEF InSeq
  <2>4. b \in p + 1 .. Len(h) \/ b = 0
    BY <2>3 DEF Shape, NodeOK
  <2>5. Len(h) \in Nat
    BY Fields
  <2>6. p \in 1 .. b - 1
    BY <2>3, <2>4, <2>5
  <2> QED BY <2>3, <2>6
<1>2. g = Reach(g)
  <2> HIDE DEF Held
  <2>1. \A b \in Dom : g[b] = (b \in roots \/ \E p \in 1 .. b - 1 : g[p] /\ Held(b, p))
    <3>1. \A p \in Dom : g[p]
      OBVIOUS
    <3> HIDE DEF g
    <3>2. \A b \in Dom : g[b] = TRUE
      BY DEF g
    <3> QED BY <1>1, <3>1, <3>2
  <2> QED BY <2>1
<1>3. r = Reach(r)
  <2> HIDE DEF g, Held
  <2> QED BY <1>2
<1>4. \A b \in Dom : r[b] <=> b \in roots \/ \E p \in 1 .. b - 1 : r[p] /\ Held(b, p)
  <2> HIDE DEF r, Held
  <2>1. \A b \in Dom : r[b] = Reach(r)[b]
    BY <1>3
  <2> QED BY <2>1
<1>5. \A b \in Dom : r[b]
  <2> HIDE DEF r, Held
  <2> DEFINE T == {b \in Dom : ~ r[b]}
  <2> SUFFICES ASSUME T # {} PROVE FALSE
    OBVIOUS
  <2>1. Len(h) \in Nat /\ T \subseteq Nat
    BY Fields
  <2>2. PICK b \in T : \A m \in T : b <= m
    <3> HIDE DEF T
    <3> QED BY <2>1, NatLeast
  <2>3. PICK p \in 1 .. b - 1 : p \in Dom /\ Held(b, p)
    BY <1>1, <1>4, <2>2
  <2>4. p \notin T
    <3>1. ~ (b <= p) /\ p \in Nat
      BY <2>1, <2>2, <2>3
    <3> HIDE DEF T
    <3> QED BY <2>2, <3>1
  <2> QED BY <1>4, <2>2, <2>3, <2>4
<1>6. FreedWith(h, roots) = {b \in Dom : r[b]}
  BY DEF FreedWith
<1> HIDE DEF r
<1> QED BY <1>5, <1>6


----------------------------------------------------------------------------
(* The invariant.  An error has freed every block; otherwise the blocks    *)
(* are held as Once says, the root by the result when there is one.  Each   *)
(* nested activation has consumed its bracket.                             *)
PInv ==
    /\ tokens \in Seq(Token) /\ InSourceOrder(tokens) /\ pos \in Nat
    /\ outcome \in {"run", "ok", "error"}
    /\ Typed(heap, stack)
    /\ outcome = "run" <=> stack # <<>>
    /\ Len(stack) <= pos + 1
    /\ Shape(heap, stack)
    /\ Order(heap, stack, tokens, pos)
    /\ outcome = "run" => Once(heap, stack, FALSE)
    /\ outcome = "ok" => Once(heap, stack, TRUE)
    /\ outcome # "error" => freed = {}
    /\ outcome = "error" => freed = 1 .. Len(heap)

(* The stack between the emission and the rest of a step.                  *)
Cleared == [stack EXCEPT ![Len(stack)] = [Top EXCEPT !.has_node = FALSE]]

LEMMA StackFacts ==
    ASSUME PInv, outcome = "run"
    PROVE  /\ stack \in Seq(Frame) /\ stack # <<>> /\ heap \in Seq(Block)
           /\ Len(stack) \in Nat /\ Len(stack) \in 1 .. Len(stack) /\ Len(stack) > 0
           /\ Top \in Frame /\ Top = stack[Len(stack)]
           /\ Top.block \in Nat /\ Top.node \in Node /\ Top.has_node \in BOOLEAN
           /\ Top.quoted \in BOOLEAN
           /\ Top = [block |-> Top.block, node |-> Top.node,
                     has_node |-> Top.has_node, quoted |-> Top.quoted]
<1>1. stack \in Seq(Frame) /\ stack # <<>> /\ heap \in Seq(Block)
  BY DEF PInv, Typed
<1>2. Len(stack) \in Nat /\ Len(stack) \in 1 .. Len(stack) /\ Len(stack) > 0
  BY <1>1
<1>3. Top \in Frame
  BY <1>1, <1>2 DEF Top
<1>4. \A f \in Frame : /\ f.block \in Nat /\ f.node \in Node /\ f.has_node \in BOOLEAN
                       /\ f.quoted \in BOOLEAN
                       /\ f = [block |-> f.block, node |-> f.node,
                               has_node |-> f.has_node, quoted |-> f.quoted]
  BY DEF Frame
<1>5. /\ Top.block \in Nat /\ Top.node \in Node /\ Top.has_node \in BOOLEAN
      /\ Top.quoted \in BOOLEAN
      /\ Top = [block |-> Top.block, node |-> Top.node,
                has_node |-> Top.has_node, quoted |-> Top.quoted]
  BY <1>3, <1>4
<1> QED BY <1>1, <1>2, <1>3, <1>5 DEF Top

(* After the emission.                                                     *)
LEMMA ClearedFacts ==
    ASSUME PInv, outcome = "run"
    PROVE  /\ Typed(Emitted, Cleared) /\ Quiet(Cleared) /\ Cleared # <<>>
           /\ Shape(Emitted, Cleared) /\ Once(Emitted, Cleared, FALSE)
           /\ Order(Emitted, Cleared, tokens, pos)
           /\ Len(Cleared) = Len(stack)
           /\ \A k \in 1 .. Len(stack) : Cleared[k].block = stack[k].block
           /\ \A k \in 1 .. Len(stack) - 1 : Cleared[k] = stack[k]
           /\ Cleared[Len(stack)].node = Top.node
           /\ Emitted \in Seq(Block) /\ Len(Emitted) = Len(heap)
           /\ Emitted[Top.block].depth = heap[Top.block].depth
<1> DEFINE f == [Top EXCEPT !.has_node = FALSE]
<1>1. f = [block |-> Top.block, node |-> Top.node, has_node |-> FALSE, quoted |-> Top.quoted]
  BY StackFacts, FrameEdits
<1>2. f \in Frame /\ f.block = Top.block /\ f.node = Top.node /\ ~ f.has_node
  <2> HIDE DEF f
  <2>1. f \in Frame
    BY <1>1, StackFacts, FrameMade
  <2> QED BY <1>1, <2>1
<1>3. /\ Cleared \in Seq(Frame) /\ Cleared # <<>> /\ Len(Cleared) = Len(stack)
      /\ Cleared[Len(stack)] = f
      /\ \A k \in 1 .. Len(stack) - 1 : Cleared[k] = stack[k]
  <2> HIDE DEF f
  <2>1. Cleared = [stack EXCEPT ![Len(stack)] = f]
    BY DEF Cleared, f
  <2> QED BY <1>2, <2>1, StackFacts, TopFacts
<1> HIDE DEF f
<1>4. \A k \in 1 .. Len(stack) : k = Len(stack) \/ k \in 1 .. Len(stack) - 1
  BY StackFacts
<1>5. \A k \in 1 .. Len(stack) : Cleared[k].block = stack[k].block
  BY <1>2, <1>3, <1>4, StackFacts
<1>6. Emits(heap, stack, Emitted)
  BY EmittedFacts DEF PInv
<1>7. Emitted \in Seq(Block) /\ Len(Emitted) = Len(heap)
  BY <1>6 DEF Emits
<1>8. Typed(heap, stack) /\ Typed(Emitted, Cleared)
  BY <1>3, <1>7 DEF Typed, PInv
<1>9. Emission(heap, stack, Emitted, Cleared)
  BY <1>2, <1>3, <1>5, <1>6, <1>8, StackFacts DEF Emission, PInv, SameCalls
<1>10. Shape(Emitted, Cleared)
  BY <1>9, EmitShape
<1>11. Once(Emitted, Cleared, FALSE)
  BY <1>9, EmitOnce DEF PInv
<1>12. Order(Emitted, Cleared, tokens, pos)
  BY <1>9, EmitOrder DEF PInv
<1>13. Quiet(Cleared)
  <2> SUFFICES ASSUME NEW k \in 1 .. Len(stack) PROVE ~ Cleared[k].has_node
    BY <1>3 DEF Quiet
  <2>1. CASE k = Len(stack)
    BY <2>1, <1>2, <1>3
  <2>2. CASE k \in 1 .. Len(stack) - 1
    <3>1. ~ stack[k].has_node
      BY <2>2 DEF PInv, Shape
    <3> QED BY <1>3, <2>2, <3>1
  <2> QED BY <1>4, <2>1, <2>2
<1>14. Emitted[Top.block].depth = heap[Top.block].depth
  <2>1. Top.block \in 1 .. Len(heap)
    BY StackFacts DEF PInv, Shape
  <2> QED BY <1>6, <2>1 DEF Emits
<1> QED BY <1>2, <1>3, <1>5, <1>7, <1>8, <1>10, <1>11, <1>12, <1>13, <1>14

(* PInv in the next state, from its parts.                                 *)
LEMMA StillRuns ==
    ASSUME PInv, outcome = "run", NEW h, NEW r, NEW p \in Nat,
           Typed(h, r), r # <<>>, Len(r) <= p + 1, Shape(h, r), Once(h, r, FALSE), Order(h, r, tokens, p),
           heap' = h, stack' = r, pos' = p, UNCHANGED <<tokens, freed, outcome>>
    PROVE  PInv'
<1>1. /\ tokens' = tokens /\ outcome' = "run" /\ freed' = {}
      /\ tokens \in Seq(Token) /\ InSourceOrder(tokens)
  BY DEF PInv
<1>2. (tokens \in Seq(Token) /\ InSourceOrder(tokens) /\ pos \in Nat)'
  BY <1>1
<1>3. (outcome \in {"run", "ok", "error"} /\ (outcome = "run" <=> stack # <<>>))'
  BY <1>1
<1>4. (outcome # "error" => freed = {})' /\ (outcome = "error" => freed = 1 .. Len(heap))'
      /\ (outcome = "ok" => Once(heap, stack, TRUE))'
  BY <1>1
<1>7. (Len(stack) <= pos + 1)'
  OBVIOUS
<1>5. Typed(heap, stack)' /\ Shape(heap, stack)' /\ (outcome = "run" => Once(heap, stack, FALSE))'
  BY Zenon
<1>6. Order(heap, stack, tokens, pos)'
  BY <1>1, Zenon
<1> QED BY <1>2, <1>3, <1>4, <1>5, <1>6, <1>7 DEF PInv

(* The steps that leave the activation running, from its new frame f.      *)
LEMMA LeafKeeps ==
    ASSUME PInv, outcome = "run", NEW f \in Frame, f.block = Top.block,
           f.has_node => /\ f.node.type # "block" /\ f.node.block = 0
                         /\ pos < Len(tokens) /\ f.node.src_idx = tokens[pos + 1].src_idx,
           heap' = Emitted, stack' = WithTop(f), pos' = pos + 1,
           UNCHANGED <<tokens, freed, outcome>>
    PROVE  PInv'
<1> DEFINE r == [stack EXCEPT ![Len(stack)] = f]
<1>1. /\ r \in Seq(Frame) /\ r # <<>> /\ Len(r) = Len(stack) /\ r[Len(stack)] = f
      /\ \A k \in 1 .. Len(stack) - 1 : r[k] = stack[k]
  BY StackFacts, TopFacts
<1>2. stack' = r
  BY DEF WithTop
<1> HIDE DEF r
<1>3. \A k \in 1 .. Len(stack) : k = Len(stack) \/ k \in 1 .. Len(stack) - 1
  BY StackFacts
<1>4. \A k \in 1 .. Len(stack) : r[k].block = Cleared[k].block
  BY <1>1, <1>3, ClearedFacts, StackFacts
<1>5. Typed(Emitted, r)
  BY <1>1, ClearedFacts DEF Typed
<1>6. Leaf(Cleared, r, tokens, pos)
  BY <1>1, <1>4, ClearedFacts DEF Leaf, SameCalls
<1>7. tokens \in Seq(Token) /\ InSourceOrder(tokens) /\ pos \in Nat
  BY DEF PInv
<1>8. Shape(Emitted, r) /\ Once(Emitted, r, FALSE) /\ Order(Emitted, r, tokens, pos + 1)
  BY <1>5, <1>6, <1>7, ClearedFacts, LeafStep
<1>9. pos + 1 \in Nat /\ Len(r) <= pos + 1 + 1
  <2>1. Len(stack) <= pos + 1 /\ Len(stack) \in Nat
    BY StackFacts DEF PInv
  <2> QED BY <1>1, <1>7, <2>1
<1> QED BY <1>1, <1>2, <1>5, <1>8, <1>9, StillRuns

LEMMA WhitespaceKeeps == ASSUME PInv, ParseWhitespace PROVE PInv'
<1> DEFINE f == [Top EXCEPT !.has_node = FALSE]
<1>1. outcome = "run"
  BY DEF ParseWhitespace, AtToken
<1>2. f = [block |-> Top.block, node |-> Top.node, has_node |-> FALSE, quoted |-> Top.quoted]
  <2>1. Top \in Frame
    BY <1>1, StackFacts
  <2> QED BY <2>1, FrameEdits
<1>3. f \in Frame /\ f.block = Top.block /\ ~ f.has_node
  <2> HIDE DEF f
  <2>1. f \in Frame
    BY <1>1, <1>2, StackFacts, FrameMade
  <2> QED BY <1>2, <2>1
<1>4. /\ heap' = Emitted /\ stack' = WithTop(f) /\ pos' = pos + 1
      /\ UNCHANGED <<tokens, freed, outcome>>
  BY DEF ParseWhitespace
<1> HIDE DEF f
<1> QED BY <1>1, <1>3, <1>4, LeafKeeps

LEMMA SetNodeKeeps ==
    ASSUME PInv, outcome = "run", pos < Len(tokens),
           NEW type \in {"word", "number"}, NEW quoted \in BOOLEAN, SetNode(type, quoted)
    PROVE  PInv'
<1> DEFINE x == [type |-> type, src_idx |-> tokens[pos + 1].src_idx,
                 quoted |-> quoted, block |-> 0, last |-> pos]
           q == IF type = "word" THEN FALSE ELSE Top.quoted
           f == WithNode(Top, x, q)
<1>1. tokens[pos + 1].src_idx \in Nat /\ pos \in Nat
  <2>1. tokens \in Seq(Token) /\ pos \in Nat /\ pos + 1 \in 1 .. Len(tokens)
    BY DEF PInv
  <2>2. tokens[pos + 1] \in Token
    BY <2>1
  <2>3. \A u \in Token : u.src_idx \in Nat
    BY DEF Token
  <2> QED BY <2>1, <2>2, <2>3
<1>2. x \in Node
  BY <1>1 DEF Node
<1>3. q \in BOOLEAN
  BY StackFacts
<1>4. x.type # "block" /\ x.block = 0 /\ x.src_idx = tokens[pos + 1].src_idx
  OBVIOUS
<1> HIDE DEF x, q
<1>5. f \in Frame /\ f.block = Top.block /\ f.node = x
  <2>1. Top \in Frame
    BY StackFacts
  <2> QED BY <1>2, <1>3, <2>1, WithNodeFacts, Zenon
<1>6. /\ heap' = Emitted /\ stack' = WithTop(f) /\ pos' = pos + 1
      /\ UNCHANGED <<tokens, freed, outcome>>
  BY DEF SetNode, WithNode, x, q
<1> HIDE DEF f
<1> QED BY <1>4, <1>5, <1>6, LeafKeeps

LEMMA WordKeeps == ASSUME PInv, ParseWord PROVE PInv'
<1>1. outcome = "run" /\ pos < Len(tokens) /\ SetNode("word", Top.quoted)
  BY DEF ParseWord, AtToken
<1>2. Top.quoted \in BOOLEAN
  BY <1>1, StackFacts
<1> QED BY <1>1, <1>2, SetNodeKeeps

LEMMA NumberKeeps == ASSUME PInv, ParseNumber PROVE PInv'
<1>1. outcome = "run" /\ pos < Len(tokens) /\ SetNode("number", FALSE)
  BY DEF ParseNumber, AtToken
<1> QED BY <1>1, SetNodeKeeps

LEMMA QuoteKeeps == ASSUME PInv, ParseQuote PROVE PInv'
<1> DEFINE f == [Top EXCEPT !.quoted = TRUE]
           r == [stack EXCEPT ![Len(stack)] = f]
<1>1. outcome = "run"
  BY DEF ParseQuote, AtToken
<1>2. f = [block |-> Top.block, node |-> Top.node, has_node |-> Top.has_node, quoted |-> TRUE]
  <2>1. Top \in Frame
    BY <1>1, StackFacts
  <2> QED BY <2>1, FrameEdits
<1>3. f \in Frame /\ f.block = Top.block /\ f.node = Top.node /\ f.has_node = Top.has_node
  <2> HIDE DEF f
  <2>1. f \in Frame
    BY <1>1, <1>2, StackFacts, FrameMade
  <2> QED BY <1>2, <2>1
<1>4. heap' = heap /\ stack' = r /\ pos' = pos + 1 /\ UNCHANGED <<tokens, freed, outcome>>
  BY DEF ParseQuote, WithTop
<1> HIDE DEF f
<1>5. /\ r \in Seq(Frame) /\ r # <<>> /\ Len(r) = Len(stack) /\ r[Len(stack)] = f
      /\ \A k \in 1 .. Len(stack) - 1 : r[k] = stack[k]
  BY <1>1, <1>3, StackFacts, TopFacts
<1> HIDE DEF r
<1>6. \A k \in 1 .. Len(stack) : k = Len(stack) \/ k \in 1 .. Len(stack) - 1
  BY <1>1, StackFacts
<1>7. \A k \in 1 .. Len(stack) : /\ r[k].block = stack[k].block /\ r[k].node = stack[k].node
                                 /\ r[k].has_node = stack[k].has_node
  BY <1>1, <1>3, <1>5, <1>6, StackFacts
<1>8. 1 \in 1 .. Len(stack) /\ \A k \in 1 .. Len(stack) - 1 : k \in 1 .. Len(stack)
  BY <1>1, StackFacts
<1>9. /\ tokens \in Seq(Token) /\ InSourceOrder(tokens) /\ pos \in Nat /\ pos + 1 \in Nat
      /\ Len(r) <= pos + 1 + 1
  <2>1. Len(stack) <= pos + 1 /\ Len(stack) \in Nat
    BY <1>1, StackFacts DEF PInv
  <2> QED BY <1>5, <2>1 DEF PInv
<1>10. Shape(heap, stack) /\ Once(heap, stack, FALSE) /\ Order(heap, stack, tokens, pos)
  BY <1>1 DEF PInv
<1>11. Shape(heap, r) /\ Once(heap, r, FALSE) /\ Order(heap, r, tokens, pos + 1)
  BY <1>1, <1>5, <1>7, <1>8, <1>9, <1>10, StackFacts, QuoteStep
<1>12. Typed(heap, r)
  BY <1>5 DEF PInv, Typed
<1> QED BY <1>1, <1>4, <1>5, <1>9, <1>11, <1>12, StillRuns

LEMMA EnterKeeps == ASSUME PInv, EnterBlock PROVE PInv'
<1> DEFINE x == [type |-> "block", src_idx |-> tokens[pos + 1].src_idx,
                 quoted |-> FALSE, block |-> 0, last |-> pos]
           f == [Top EXCEPT !.node = x, !.has_node = FALSE]
           e == NewFrame(Len(heap) + 1)
           y == [seq |-> <<>>, depth |-> heap[Top.block].depth + 1]
           v == [stack EXCEPT ![Len(stack)] = f]
           g == Append(Emitted, y)
           r == Append(v, e)
<1>1. outcome = "run" /\ pos < Len(tokens)
  BY DEF EnterBlock, AtToken
<1>2. /\ tokens[pos + 1].src_idx \in Nat /\ pos \in Nat /\ pos + 1 \in Nat
      /\ tokens \in Seq(Token) /\ InSourceOrder(tokens)
  <2>1. tokens \in Seq(Token) /\ pos \in Nat /\ pos + 1 \in 1 .. Len(tokens)
    BY <1>1 DEF PInv
  <2>2. tokens[pos + 1] \in Token
    BY <2>1
  <2>3. \A u \in Token : u.src_idx \in Nat
    BY DEF Token
  <2> QED BY <2>1, <2>2, <2>3 DEF PInv
<1>3. x \in Node
  BY <1>2 DEF Node
<1>4. x.type = "block" /\ x.src_idx = tokens[pos + 1].src_idx
  OBVIOUS
<1> HIDE DEF x
<1>5. f = [block |-> Top.block, node |-> x, has_node |-> FALSE, quoted |-> Top.quoted]
  <2>1. Top \in Frame
    BY <1>1, StackFacts
  <2>2. f = Opening(Top, x, FALSE)
    BY DEF Opening
  <2> HIDE DEF f
  <2> QED BY <2>1, <2>2, OpeningIs
<1>6. f \in Frame /\ f.block = Top.block /\ f.node = x /\ ~ f.has_node
  <2> HIDE DEF f
  <2>1. f \in Frame
    BY <1>1, <1>3, <1>5, StackFacts, FrameMade
  <2> QED BY <1>5, <2>1
<1>7. Len(heap) \in Nat /\ Top.block \in 1 .. Len(heap) /\ heap[Top.block].depth \in Nat
  BY <1>1, StackFacts, Fields DEF PInv, Shape
<1>8. e \in Frame /\ e.block = Len(heap) + 1 /\ ~ e.has_node
  BY <1>7 DEF NewFrame, Frame, Node
<1>9. y \in Block
  BY <1>7 DEF Block
<1>10. heap' = g /\ stack' = r /\ pos' = pos + 1 /\ UNCHANGED <<tokens, freed, outcome>>
  BY DEF EnterBlock, WithTop, x
<1> HIDE DEF f, e
<1>11. /\ v \in Seq(Frame) /\ v # <<>> /\ Len(v) = Len(stack) /\ v[Len(stack)] = f
       /\ \A k \in 1 .. Len(stack) - 1 : v[k] = stack[k]
  BY <1>1, <1>6, StackFacts, TopFacts
<1> HIDE DEF v
<1>12. /\ r \in Seq(Frame) /\ r # <<>> /\ Len(r) = Len(stack) + 1 /\ r[Len(stack) + 1] = e
       /\ \A k \in 1 .. Len(stack) : r[k] = v[k]
  <2>1. r \in Seq(Frame) /\ Len(r) = Len(v) + 1 /\ r[Len(v) + 1] = e
        /\ \A k \in 1 .. Len(v) : r[k] = v[k]
    BY <1>8, <1>11
  <2>2. r # <<>>
    BY <1>8, <1>11
  <2> HIDE DEF r
  <2> QED BY <1>11, <2>1, <2>2
<1>13. /\ g \in Seq(Block) /\ Len(g) = Len(heap) + 1 /\ g[Len(heap) + 1] = y
       /\ \A c \in 1 .. Len(heap) : g[c] = Emitted[c]
  <2> HIDE DEF y
  <2>1. Emitted \in Seq(Block) /\ Len(Emitted) = Len(heap)
    BY <1>1, ClearedFacts
  <2>2. g \in Seq(Block) /\ Len(g) = Len(Emitted) + 1 /\ g[Len(Emitted) + 1] = y
        /\ \A c \in 1 .. Len(Emitted) : g[c] = Emitted[c]
    BY <1>9, <2>1
  <2> HIDE DEF g
  <2> QED BY <2>1, <2>2
<1> HIDE DEF r, g
<1>14. Typed(g, r)
  BY <1>7, <1>12, <1>13 DEF Typed
<1>15. Call(Emitted, Cleared, g, r, tokens, pos)
  <2>1. /\ Len(Cleared) = Len(stack) /\ Len(Emitted) = Len(heap)
        /\ \A k \in 1 .. Len(stack) : Cleared[k].block = stack[k].block
        /\ \A k \in 1 .. Len(stack) - 1 : Cleared[k] = stack[k]
        /\ Quiet(Cleared)
        /\ Emitted[Top.block].depth = heap[Top.block].depth
    BY <1>1, ClearedFacts
  <2>2. \A k \in 1 .. Len(stack) : k = Len(stack) \/ k \in 1 .. Len(stack) - 1
    BY <1>1, StackFacts
  <2>3. /\ Len(stack) \in 1 .. Len(stack) /\ \A k \in 1 .. Len(stack) - 1 : k \in 1 .. Len(stack)
        /\ Top = stack[Len(stack)]
    BY <1>1, StackFacts
  <2>4. \A k \in 1 .. Len(stack) : r[k].block = Cleared[k].block /\ ~ r[k].has_node
    <3> SUFFICES ASSUME NEW k \in 1 .. Len(stack)
                 PROVE  r[k].block = Cleared[k].block /\ ~ r[k].has_node
      OBVIOUS
    <3>1. CASE k = Len(stack)
      BY <1>6, <1>11, <1>12, <2>1, <2>3, <3>1
    <3>2. CASE k \in 1 .. Len(stack) - 1
      <4>1. r[k] = Cleared[k]
        BY <1>11, <1>12, <2>1, <3>2
      <4> QED BY <2>1, <4>1 DEF Quiet
    <3> QED BY <2>2, <3>1, <3>2
  <2>5. \A k \in 1 .. Len(stack) - 1 : r[k] = Cleared[k]
    BY <1>11, <1>12, <2>1, <2>3
  <2>6. r[Len(stack)].node = x
    BY <1>6, <1>11, <1>12, <2>3
  <2>7. g[Len(heap) + 1] = [seq |-> <<>>, depth |-> Emitted[Cleared[Len(stack)].block].depth + 1]
    BY <1>13, <2>1, <2>3
  <2> QED BY <1>1, <1>4, <1>8, <1>12, <1>13, <2>1, <2>4, <2>5, <2>6, <2>7 DEF Call
<1>16. Shape(g, r)
  BY <1>1, <1>14, <1>15, ClearedFacts, CallShape
<1>17. Once(g, r, FALSE)
  BY <1>1, <1>15, ClearedFacts, CallOnce
<1>18. Order(g, r, tokens, pos + 1)
  BY <1>1, <1>2, <1>15, ClearedFacts, CallOrder
<1>19. Len(r) <= pos + 1 + 1
  <2>1. Len(stack) <= pos + 1 /\ Len(stack) \in Nat
    BY <1>1, StackFacts DEF PInv
  <2> QED BY <1>2, <1>12, <2>1
<1> QED BY <1>1, <1>2, <1>10, <1>12, <1>14, <1>16, <1>17, <1>18, <1>19, StillRuns

LEMMA ReturnKeeps ==
    ASSUME PInv, outcome = "run", NEW p \in Nat, p >= pos, Return(p)
    PROVE  PInv'
<1>1. heap' = Emitted /\ UNCHANGED <<tokens, freed>>
  BY DEF Return
<1>2. /\ Typed(Emitted, Cleared) /\ Quiet(Cleared) /\ Cleared # <<>>
      /\ Shape(Emitted, Cleared) /\ Once(Emitted, Cleared, FALSE)
      /\ Order(Emitted, Cleared, tokens, pos) /\ Len(Cleared) = Len(stack)
      /\ pos \in Nat /\ tokens \in Seq(Token) /\ InSourceOrder(tokens) /\ freed = {}
  BY ClearedFacts DEF PInv
<1>3. CASE Len(stack) = 1
  <2>1. stack' = <<>> /\ pos' = p /\ outcome' = "ok"
    BY <1>3 DEF Return
  <2>2. Shape(Emitted, <<>>) /\ Once(Emitted, <<>>, TRUE) /\ Order(Emitted, <<>>, tokens, p)
    BY <1>2, <1>3, FinishStep
  <2>3. Typed(Emitted, <<>>)
    BY <1>2 DEF Typed
  <2>4. (tokens \in Seq(Token) /\ InSourceOrder(tokens) /\ pos \in Nat)'
    BY <1>1, <1>2, <2>1
  <2>5. (outcome \in {"run", "ok", "error"} /\ (outcome = "run" <=> stack # <<>>))'
    BY <2>1
  <2>6. (outcome # "error" => freed = {})' /\ (outcome = "error" => freed = 1 .. Len(heap))'
        /\ (outcome = "run" => Once(heap, stack, FALSE))'
    BY <1>1, <1>2, <2>1
  <2>7. Typed(heap, stack)' /\ Shape(heap, stack)' /\ (outcome = "ok" => Once(heap, stack, TRUE))'
    BY <1>1, <2>1, <2>2, <2>3, Zenon
  <2>8. Order(heap, stack, tokens, pos)'
    BY <1>1, <2>1, <2>2, Zenon
  <2>9. (Len(stack) <= pos + 1)'
    <3>1. Len(stack') = 0
      BY <2>1
    <3> QED BY <2>1, <3>1
  <2> QED BY <2>4, <2>5, <2>6, <2>7, <2>8, <2>9 DEF PInv
<1>4. CASE Len(stack) # 1
  <2> DEFINE C == Len(stack) - 1
             r == Resumed(stack, Top.block, p - 1)
  <2>1. stack' = r /\ pos' = p + 1 /\ outcome' = outcome
    BY <1>4 DEF Return, Resumed
  <2>2. Len(stack) > 1 /\ p - 1 \in Nat /\ C <= p + 1 + 1
    <3>1. Len(stack) > 1 /\ Len(stack) \in Nat
      <4>1. Len(stack) \in Nat /\ Len(stack) > 0
        BY StackFacts
      <4>2. PICK n \in Nat : n = Len(stack)
        BY <4>1
      <4>3. n > 0 /\ n # 1
        BY <1>4, <4>1, <4>2
      <4>4. n > 1
        BY <4>3
      <4> QED BY <4>2, <4>4
    <3>2. Len(stack) <= pos + 1
      BY DEF PInv
    <3> QED BY <1>2, <3>1, <3>2
  <2>3. Top.block \in Nat /\ stack \in Seq(Frame) /\ Top = stack[Len(stack)]
    BY StackFacts
  <2>4. /\ r \in Seq(Frame) /\ r # <<>> /\ Len(r) = C
        /\ \A k \in 1 .. C - 1 : r[k] = stack[k]
        /\ r[C].block = stack[C].block /\ r[C].has_node
        /\ r[C].node.type = stack[C].node.type /\ r[C].node.src_idx = stack[C].node.src_idx
        /\ r[C].node.block = Top.block
    <3> DEFINE B == Top.block  L == p - 1
    <3>1. B \in Nat /\ L \in Nat /\ Len(stack) > 1 /\ stack \in Seq(Frame)
      BY <2>2, <2>3
    <3> HIDE DEF B, L
    <3>2. IsResumed(stack, Resumed(stack, B, L), B, L, C)
      BY <3>1, CallerFacts
    <3> QED BY <3>2 DEF B, L, IsResumed
  <2> HIDE DEF r
  <2>5. Typed(Emitted, r)
    BY <1>2, <2>4 DEF Typed
  <2>6. Resumes(Cleared, r)
    <3>1. /\ \A k \in 1 .. Len(stack) : Cleared[k].block = stack[k].block
          /\ \A k \in 1 .. Len(stack) - 1 : Cleared[k] = stack[k]
      BY ClearedFacts
    <3>2. Len(stack) \in Nat
      BY StackFacts
    <3>3. /\ C \in 1 .. Len(stack) - 1 /\ Len(stack) \in 1 .. Len(stack)
          /\ \A k \in 1 .. Len(stack) - 1 : k \in 1 .. Len(stack) /\ (k = C \/ k \in 1 .. C - 1)
          /\ \A k \in 1 .. Len(stack) - 2 : k \in 1 .. C - 1 /\ k \in 1 .. Len(stack) - 1
      BY <2>2, <3>2
    <3>4. \A k \in 1 .. Len(stack) - 1 : r[k].block = Cleared[k].block
      BY <2>4, <3>1, <3>3
    <3>5. \A k \in 1 .. Len(stack) - 2 : r[k] = Cleared[k]
      BY <2>4, <3>1, <3>3
    <3>6. Cleared[C] = stack[C] /\ Cleared[Len(stack)].block = Top.block
      BY <2>3, <3>1, <3>3
    <3> QED BY <1>2, <2>2, <2>4, <3>4, <3>5, <3>6 DEF Resumes
  <2>7. Shape(Emitted, r) /\ Once(Emitted, r, FALSE) /\ Order(Emitted, r, tokens, p + 1)
    <3>1. p + 1 \in Nat /\ pos <= p + 1
      BY <1>2
    <3> QED BY <1>2, <2>5, <2>6, <3>1, ResumeStep
  <2>8. p + 1 \in Nat
    OBVIOUS
  <2> QED BY <1>1, <2>1, <2>2, <2>4, <2>5, <2>7, <2>8, StillRuns
<1> QED BY <1>3, <1>4

LEMMA RejectKeeps == ASSUME PInv, RejectNumber PROVE PInv'
<1> DEFINE roots == {stack[k].block : k \in 1 .. Len(stack)}
<1>1. outcome = "run"
  BY DEF RejectNumber, AtToken
<1>2. /\ Typed(Emitted, Cleared) /\ Quiet(Cleared)
      /\ Shape(Emitted, Cleared) /\ Once(Emitted, Cleared, FALSE)
      /\ Order(Emitted, Cleared, tokens, pos) /\ Len(Cleared) = Len(stack)
      /\ \A k \in 1 .. Len(stack) : Cleared[k].block = stack[k].block
      /\ pos \in Nat /\ tokens \in Seq(Token) /\ InSourceOrder(tokens) /\ freed = {}
  BY <1>1, ClearedFacts DEF PInv
<1>3. FreedWith(Emitted, roots) = 1 .. Len(Emitted)
  <2>1. \A k \in 1 .. Len(Cleared) : Cleared[k].block \in roots
    BY <1>2
  <2> HIDE DEF roots
  <2> QED BY <1>2, <2>1, FreesAll
<1>4. /\ heap' = Emitted /\ stack' = <<>> /\ outcome' = "error" /\ UNCHANGED <<tokens, pos>>
      /\ freed' = 1 .. Len(Emitted)
  <2>1. /\ heap' = Emitted /\ stack' = <<>> /\ outcome' = "error" /\ UNCHANGED <<tokens, pos>>
        /\ freed' = freed \cup FreedWith(heap', roots)
    BY DEF RejectNumber
  <2> HIDE DEF roots
  <2> QED BY <1>2, <1>3, <2>1
<1>5. 1 .. Len(<<>>) = {} /\ 1 .. Len(<<>>) - 1 = {} /\ Len(<<>>) = 0
  OBVIOUS
<1>6. Shape(Emitted, <<>>)
  BY <1>2, <1>5 DEF Shape
<1>7. Order(Emitted, <<>>, tokens, pos)
  BY <1>2, <1>5 DEF Order
<1>8. Typed(Emitted, <<>>)
  BY <1>2 DEF Typed
<1>9. (tokens \in Seq(Token) /\ InSourceOrder(tokens) /\ pos \in Nat)'
  BY <1>2, <1>4
<1>10. (outcome \in {"run", "ok", "error"} /\ (outcome = "run" <=> stack # <<>>))'
  BY <1>4
<1>11. /\ (outcome # "error" => freed = {})' /\ (outcome = "error" => freed = 1 .. Len(heap))'
       /\ (outcome = "run" => Once(heap, stack, FALSE))'
       /\ (outcome = "ok" => Once(heap, stack, TRUE))'
  BY <1>4
<1>12. Typed(heap, stack)' /\ Shape(heap, stack)'
  BY <1>4, <1>6, <1>8, Zenon
<1>13. Order(heap, stack, tokens, pos)'
  BY <1>4, <1>7, Zenon
<1>14. (Len(stack) <= pos + 1)'
  BY <1>2, <1>4, <1>5
<1> QED BY <1>9, <1>10, <1>11, <1>12, <1>13, <1>14 DEF PInv

(* Initially.                                                              *)
LEMMA PInvInit == Init => PInv
<1> SUFFICES ASSUME Init PROVE PInv
  OBVIOUS
<1> DEFINE f == NewFrame(1)
           y == [seq |-> <<>>, depth |-> 0]
<1>1. /\ tokens \in Seq(Token) /\ InSourceOrder(tokens) /\ pos = 0 /\ outcome = "run" /\ freed = {}
      /\ stack = <<f>> /\ heap = <<y>>
  BY TokenStreamsAssumption DEF Init
<1>2. f \in Frame /\ f.block = 1 /\ ~ f.has_node
  BY DEF NewFrame, Frame, Node
<1>3. y \in Block /\ y.depth = 0 /\ y.seq = <<>> /\ 1 .. Len(y.seq) = {}
  BY DEF Block
<1> HIDE DEF f, y
<1>4. /\ Len(stack) = 1 /\ stack[1] = f /\ Len(heap) = 1 /\ heap[1] = y
      /\ stack \in Seq(Frame) /\ heap \in Seq(Block) /\ stack # <<>>
  BY <1>1, <1>2, <1>3
<1>5. 1 .. Len(stack) = {1} /\ 1 .. Len(heap) = {1} /\ 1 .. Len(stack) - 1 = {}
  BY <1>4
<1>6. Typed(heap, stack)
  BY <1>4 DEF Typed
<1>7. Shape(heap, stack)
  BY <1>2, <1>3, <1>4, <1>5 DEF Shape
<1>8. Order(heap, stack, tokens, pos)
  BY <1>2, <1>3, <1>4, <1>5 DEF Order, Sorted
<1>9. Once(heap, stack, FALSE)
  <2>1. \A k, b : ~ Pends(stack, k, b)
    BY <1>2, <1>4, <1>5 DEF Pends
  <2>2. \A p, n, b : ~ InSeq(heap, p, n, b)
    BY <1>3, <1>4, <1>5 DEF InSeq
  <2>3. \A k, b : Fills(stack, k, b) <=> k = 1 /\ b = 1
    BY <1>2, <1>4, <1>5 DEF Fills
  <2> QED BY <1>5, <2>1, <2>2, <2>3 DEF Once
<1>10. pos \in Nat /\ Len(stack) <= pos + 1
  BY <1>1, <1>4
<1> QED BY <1>1, <1>4, <1>6, <1>7, <1>8, <1>9, <1>10 DEF PInv

LEMMA PInvStep == PInv /\ [Next]_vars => PInv'
<1> SUFFICES ASSUME PInv, [Next]_vars PROVE PInv'
  OBVIOUS
<1>1. CASE ParseWhitespace
  BY <1>1, WhitespaceKeeps
<1>2. CASE ParseQuote
  BY <1>2, QuoteKeeps
<1>3. CASE ParseWord
  BY <1>3, WordKeeps
<1>4. CASE ParseNumber
  BY <1>4, NumberKeeps
<1>5. CASE RejectNumber
  BY <1>5, RejectKeeps
<1>6. CASE EnterBlock
  BY <1>6, EnterKeeps
<1>7. CASE LeaveBlock
  <2>1. outcome = "run" /\ Return(pos + 1) /\ pos \in Nat
    BY <1>7 DEF LeaveBlock, AtToken, PInv
  <2>2. pos + 1 \in Nat /\ pos + 1 >= pos
    BY <2>1
  <2> QED BY <2>1, <2>2, ReturnKeeps
<1>8. CASE EndOfTokens
  <2>1. outcome = "run" /\ Return(pos) /\ pos \in Nat
    BY <1>8 DEF EndOfTokens, PInv
  <2> QED BY <2>1, ReturnKeeps
<1>9. CASE Returned
  BY <1>9 DEF Returned, vars, PInv
<1>10. CASE UNCHANGED vars
  BY <1>10 DEF vars, PInv
<1> QED BY <1>1, <1>2, <1>3, <1>4, <1>5, <1>6, <1>7, <1>8, <1>9, <1>10 DEF Next

(* The blocks that parse_tokens() makes are a tree at every step: each is  *)
(* typed, one level below the one that holds it, in the order of the       *)
(* source and held once, and freed only by an error, which frees them all. *)
THEOREM ParserInvariant == Spec => []PInv
BY PInvInit, PInvStep, PTL DEF Spec

(* A block is one level deeper than the block it is in, at every nesting,  *)
(* and the activations on the C stack fill blocks of depth 0, 1, 2, ...    *)
THEOREM DepthProved == Spec => []DepthIsNesting
<1>1. PInv => DepthIsNesting
  <2> SUFFICES ASSUME PInv PROVE DepthIsNesting
    OBVIOUS
  <2>1. \A k \in Calls : heap[stack[k].block].depth = k - 1
    BY DEF PInv, Shape, Calls
  <2>2. \A b \in Blocks : \A n \in 1 .. Len(heap[b].seq) : NodeOK(heap, b, heap[b].seq[n])
    BY DEF PInv, Shape, Blocks
  <2> QED BY <2>1, <2>2 DEF DepthIsNesting, NodeOK
<1> QED BY <1>1, ParserInvariant, PTL

(* Whatever is emitted when, and however calls nest, the nodes of a block  *)
(* come in the order of the source.                                        *)
THEOREM OrderProved == Spec => []NodesInSourceOrder
<1>1. PInv => NodesInSourceOrder
  BY DEF PInv, Order, Sorted, NodesInSourceOrder, Blocks
<1> QED BY <1>1, ParserInvariant, PTL

(* Holders in terms of the ways to hold a block.                           *)
LEMMA HoldersAre ==
    ASSUME NEW b
    PROVE  \A x : x \in Holders(b) <=>
               \/ \E k : Fills(stack, k, b) /\ x = <<"root of", k>>
               \/ \E k : Pends(stack, k, b) /\ x = <<"pending in", k>>
               \/ \E p, n : InSeq(heap, p, n, b) /\ x = <<p, n>>
               \/ outcome = "ok" /\ b = 1 /\ x = <<"result", 1>>
<1> DEFINE A == {<<"root of", k>> : k \in {k \in Calls : stack[k].block = b}}
           B == {<<"pending in", k>> : k \in {k \in Calls : stack[k].has_node /\ stack[k].node.block = b}}
           N(p) == {<<p, n>> : n \in {n \in 1 .. Len(heap[p].seq) : heap[p].seq[n].block = b}}
           C == UNION {N(p) : p \in Blocks}
           D == {<<"result", 1>> : x \in {x \in {1} : outcome = "ok" /\ b = 1}}
<1>1. \A x : x \in A <=> \E k : Fills(stack, k, b) /\ x = <<"root of", k>>
  BY DEF Fills, Calls
<1>2. \A x : x \in B <=> \E k : Pends(stack, k, b) /\ x = <<"pending in", k>>
  BY DEF Pends, Calls
<1>3. \A x : x \in C <=> \E p, n : InSeq(heap, p, n, b) /\ x = <<p, n>>
  BY DEF InSeq, Blocks
<1>4. \A x : x \in D <=> outcome = "ok" /\ b = 1 /\ x = <<"result", 1>>
  OBVIOUS
<1>5. Holders(b) = A \cup B \cup C \cup D
  BY DEF Holders
<1> HIDE DEF A, B, C, D
<1> QED BY <1>1, <1>2, <1>3, <1>4, <1>5

LEMMA HeldOnceRunning ==
    ASSUME NEW b \in Blocks, Once(heap, stack, FALSE), outcome = "run"
    PROVE  \E x : Holders(b) = {x}
<1>1. \A x : x \in Holders(b) <=>
         \/ \E k : Fills(stack, k, b) /\ x = <<"root of", k>>
         \/ \E k : Pends(stack, k, b) /\ x = <<"pending in", k>>
         \/ \E p, n : InSeq(heap, p, n, b) /\ x = <<p, n>>
  BY HoldersAre
<1>2. /\ \A k, l : ~ (Fills(stack, k, b) /\ Pends(stack, l, b))
      /\ \A k, p, n : ~ (Fills(stack, k, b) /\ InSeq(heap, p, n, b))
      /\ \A k, p, n : ~ (Pends(stack, k, b) /\ InSeq(heap, p, n, b))
      /\ \A k, l : Fills(stack, k, b) /\ Fills(stack, l, b) => k = l
      /\ \A k, l : Pends(stack, k, b) /\ Pends(stack, l, b) => k = l
      /\ \A p, q, m, n : InSeq(heap, p, m, b) /\ InSeq(heap, q, n, b) => p = q /\ m = n
      /\ \/ \E k : Fills(stack, k, b)
         \/ \E k : Pends(stack, k, b)
         \/ \E p, n : InSeq(heap, p, n, b)
  BY DEF Once, Blocks
<1>3. CASE \E k : Fills(stack, k, b)
  <2>1. PICK k : Fills(stack, k, b)
    BY <1>3
  <2>2. \A x : x \in Holders(b) <=> x = <<"root of", k>>
    BY <1>1, <1>2, <2>1
  <2>3. Holders(b) = {<<"root of", k>>}
    BY <2>2
  <2> QED BY <2>3
<1>4. CASE \E k : Pends(stack, k, b)
  <2>1. PICK k : Pends(stack, k, b)
    BY <1>4
  <2>2. \A x : x \in Holders(b) <=> x = <<"pending in", k>>
    BY <1>1, <1>2, <2>1
  <2>3. Holders(b) = {<<"pending in", k>>}
    BY <2>2
  <2> QED BY <2>3
<1>5. CASE \E p, n : InSeq(heap, p, n, b)
  <2>1. PICK p, n : InSeq(heap, p, n, b)
    BY <1>5
  <2>2. \A x : x \in Holders(b) <=> x = <<p, n>>
    <3>1. \A x : (\E q, m : InSeq(heap, q, m, b) /\ x = <<q, m>>) <=> x = <<p, n>>
      BY <1>2, <2>1
    <3>2. \A k : ~ Fills(stack, k, b) /\ ~ Pends(stack, k, b)
      BY <1>2, <2>1
    <3> QED BY <1>1, <3>1, <3>2
  <2>3. Holders(b) = {<<p, n>>}
    BY <2>2
  <2> QED BY <2>3
<1> QED BY <1>2, <1>3, <1>4, <1>5

LEMMA HeldOnceReturned ==
    ASSUME NEW b \in Blocks, Typed(heap, stack), Shape(heap, stack), Once(heap, stack, TRUE),
           stack = <<>>, outcome = "ok"
    PROVE  \E x : Holders(b) = {x}
<1>1. \A k : ~ Fills(stack, k, b) /\ ~ Pends(stack, k, b)
  <2>1. 1 .. Len(stack) = {}
    OBVIOUS
  <2> QED BY <2>1 DEF Fills, Pends
<1>2. \A x : x \in Holders(b) <=>
         \/ \E p, n : InSeq(heap, p, n, b) /\ x = <<p, n>>
         \/ b = 1 /\ x = <<"result", 1>>
  BY <1>1, HoldersAre
<1>3. CASE b = 1
  <2>1. \A p, n : ~ InSeq(heap, p, n, b)
    <3> SUFFICES ASSUME NEW p, NEW n, InSeq(heap, p, n, b) PROVE FALSE
      OBVIOUS
    <3>1. p \in 1 .. Len(heap) /\ NodeOK(heap, p, heap[p].seq[n]) /\ heap[p].seq[n].block = b
      BY DEF InSeq, Shape
    <3>2. heap[p].seq[n].block \in p + 1 .. Len(heap) \/ heap[p].seq[n].block = 0
      BY <3>1 DEF NodeOK
    <3>3. Len(heap) \in Nat
      BY Fields
    <3> QED BY <1>3, <3>1, <3>2, <3>3
  <2>2. \A x : x \in Holders(b) <=> x = <<"result", 1>>
    BY <1>2, <1>3, <2>1
  <2>3. Holders(b) = {<<"result", 1>>}
    BY <2>2
  <2> QED BY <2>3
<1>4. CASE b # 1
  <2>1. /\ \A p, q, m, n : InSeq(heap, p, m, b) /\ InSeq(heap, q, n, b) => p = q /\ m = n
        /\ \E p, n : InSeq(heap, p, n, b)
    BY <1>1, <1>4 DEF Once, Blocks
  <2>2. PICK p, n : InSeq(heap, p, n, b)
    BY <2>1
  <2>3. \A x : x \in Holders(b) <=> x = <<p, n>>
    BY <1>2, <1>4, <2>1, <2>2
  <2>4. Holders(b) = {<<p, n>>}
    BY <2>3
  <2> QED BY <2>4
<1> QED BY <1>3, <1>4

(* One holder for every block at any time, whatever the nesting, and all   *)
(* of them freed when a literal is rejected.                               *)
THEOREM HeldOnceProved == Spec => []BlocksHeldOnce
<1>1. PInv => BlocksHeldOnce
  <2> SUFFICES ASSUME PInv PROVE BlocksHeldOnce
    OBVIOUS
  <2>1. CASE outcome = "error"
    BY <2>1 DEF PInv, BlocksHeldOnce, Blocks
  <2>2. CASE outcome # "error"
    <3>1. ASSUME NEW b \in Blocks PROVE Cardinality(Holders(b)) = 1
      <4>1. \E x : Holders(b) = {x}
        BY <2>2, HeldOnceRunning, HeldOnceReturned DEF PInv
      <4>2. PICK x : Holders(b) = {x}
        BY <4>1
      <4> QED BY <4>2, FS_Singleton
    <3> QED BY <2>2, <3>1 DEF PInv, BlocksHeldOnce
  <2> QED BY <2>1, <2>2
<1> QED BY <1>1, ParserInvariant, PTL

LEMMA FreesResult == ASSUME PInv, outcome = "ok" PROVE FreedWith(heap, {1}) = Blocks
<1>1. stack = <<>> /\ Typed(heap, stack) /\ Shape(heap, stack) /\ Once(heap, stack, TRUE)
  BY DEF PInv
<1>2. 1 .. Len(stack) = {}
  BY <1>1
<1>3. Quiet(stack)
  BY <1>2 DEF Quiet
<1> QED BY <1>1, <1>2, <1>3, FreesAll DEF Blocks

(* free_block() of a result frees every block that was allocated for it: a *)
(* caller that frees the root it was given leaks nothing.                  *)
THEOREM ResultFreesAll == Spec => [](outcome = "ok" => FreedWith(heap, {1}) = Blocks)
BY FreesResult, ParserInvariant, PTL

----------------------------------------------------------------------------
(* The tree mirrors the source.  What the tokens say is first put into     *)
(* the terms of a step: Count and Level from one token to the next.        *)
LEMMA CountStep ==
    ASSUME NEW n \in Nat, NEW type
    PROVE  /\ Count(type, n) \in Nat
           /\ tokens[n + 1].type = type => Count(type, n + 1) = Count(type, n) + 1
           /\ tokens[n + 1].type # type => Count(type, n + 1) = Count(type, n)
<1> DEFINE K(m) == {k \in 1 .. m : tokens[k].type = type}
<1>1. IsFiniteSet(K(n))
  <2>1. IsFiniteSet(1 .. n) /\ K(n) \in SUBSET (1 .. n)
    BY FS_Interval
  <2> QED BY <2>1, FS_Subset
<1>2. Cardinality(K(n)) \in Nat
  BY <1>1, FS_CardinalityType
<1>3. CASE tokens[n + 1].type = type
  <2>1. K(n + 1) = K(n) \cup {n + 1} /\ n + 1 \notin K(n)
    BY <1>3
  <2>2. Cardinality(K(n) \cup {n + 1}) = Cardinality(K(n)) + 1
    BY <1>1, <2>1, FS_AddElement
  <2> QED BY <1>2, <1>3, <2>1, <2>2 DEF Count
<1>4. CASE tokens[n + 1].type # type
  <2>1. K(n + 1) = K(n)
    BY <1>4
  <2> QED BY <1>2, <1>4, <2>1 DEF Count
<1> QED BY <1>3, <1>4

LEMMA CountGrows ==
    ASSUME NEW m \in Nat, NEW n \in Nat, m <= n, NEW type
    PROVE  Count(type, m) <= Count(type, n)
<1> DEFINE K(x) == {k \in 1 .. x : tokens[k].type = type}
<1>1. IsFiniteSet(1 .. n) /\ K(n) \in SUBSET (1 .. n)
  BY FS_Interval
<1>2. IsFiniteSet(K(n))
  BY <1>1, FS_Subset
<1>3. K(m) \in SUBSET K(n)
  OBVIOUS
<1>4. Cardinality(K(m)) <= Cardinality(K(n))
  BY <1>2, <1>3, FS_Subset
<1> QED BY <1>4 DEF Count

LEMMA CountNone == ASSUME NEW type PROVE Count(type, 0) = 0
<1>1. {k \in 1 .. 0 : tokens[k].type = type} = {}
  OBVIOUS
<1> QED BY <1>1, FS_EmptySet DEF Count

LEMMA LevelStep ==
    ASSUME NEW n \in Nat
    PROVE  /\ Level(n) \in Int
           /\ tokens[n + 1].type = "open" => Level(n + 1) = Level(n) + 1
           /\ tokens[n + 1].type = "close" => Level(n + 1) = Level(n) - 1
           /\ tokens[n + 1].type \notin {"open", "close"} => Level(n + 1) = Level(n)
<1>1. /\ Count("open", n) \in Nat /\ Count("close", n) \in Nat
      /\ Count("open", n + 1) \in Nat /\ Count("close", n + 1) \in Nat
  BY CountStep
<1>2. CASE tokens[n + 1].type = "open"
  <2>1. Count("open", n + 1) = Count("open", n) + 1 /\ Count("close", n + 1) = Count("close", n)
    BY <1>2, CountStep
  <2> QED BY <1>1, <1>2, <2>1 DEF Level
<1>3. CASE tokens[n + 1].type = "close"
  <2>1. Count("open", n + 1) = Count("open", n) /\ Count("close", n + 1) = Count("close", n) + 1
    BY <1>3, CountStep
  <2> QED BY <1>1, <1>3, <2>1 DEF Level
<1>4. CASE tokens[n + 1].type \notin {"open", "close"}
  <2>1. Count("open", n + 1) = Count("open", n) /\ Count("close", n + 1) = Count("close", n)
    BY <1>4, CountStep
  <2> QED BY <1>1, <1>4, <2>1 DEF Level
<1> QED BY <1>2, <1>3, <1>4

(* The blocks opened by the first q tokens, and their places in heap.      *)
OpenedBy(q) == {0} \cup {j \in 1 .. q : tokens[j].type = "open"}
BlockOf(j) == 1 + Count("open", j)

LEMMA BlocksOpened ==
    ASSUME NEW q \in Nat
    PROVE  /\ \A j \in OpenedBy(q) : j \in 0 .. q /\ BlockOf(j) \in 1 .. BlockOf(q)
           /\ \A j, l \in OpenedBy(q) : BlockOf(j) = BlockOf(l) => j = l
           /\ BlockOf(q) \in Nat
           /\ OpenedBy(0) = {0} /\ BlockOf(0) = 1
           /\ tokens[q + 1].type = "open" =>
                 OpenedBy(q + 1) = OpenedBy(q) \cup {q + 1} /\ BlockOf(q + 1) = BlockOf(q) + 1
           /\ tokens[q + 1].type # "open" =>
                 OpenedBy(q + 1) = OpenedBy(q) /\ BlockOf(q + 1) = BlockOf(q)
<1>1. \A j \in OpenedBy(q) : j \in 0 .. q
  BY DEF OpenedBy
<1>2. \A j \in 0 .. q : Count("open", j) \in Nat /\ Count("open", j) <= Count("open", q)
  BY CountStep, CountGrows
<1>3. ASSUME NEW j \in OpenedBy(q), NEW l \in OpenedBy(q), j < l
      PROVE  BlockOf(j) # BlockOf(l)
  <2>1. l \in 1 .. q /\ tokens[l].type = "open" /\ j \in Nat /\ l - 1 \in Nat /\ j <= l - 1
    BY <1>1, <1>3 DEF OpenedBy
  <2>2. l = (l - 1) + 1
    BY <2>1
  <2>3. Count("open", l) = Count("open", l - 1) + 1 /\ Count("open", l - 1) \in Nat
    BY <2>1, <2>2, CountStep
  <2>4. Count("open", j) <= Count("open", l - 1) /\ Count("open", j) \in Nat
    BY <2>1, CountGrows, CountStep
  <2> QED BY <2>3, <2>4 DEF BlockOf
<1>4. \A j, l \in OpenedBy(q) : BlockOf(j) = BlockOf(l) => j = l
  <2> SUFFICES ASSUME NEW j \in OpenedBy(q), NEW l \in OpenedBy(q), j # l
               PROVE  BlockOf(j) # BlockOf(l)
    OBVIOUS
  <2>1. j < l \/ l < j
    BY <1>1
  <2> QED BY <1>3, <2>1
<1>5. OpenedBy(0) = {0} /\ BlockOf(0) = 1
  BY CountNone DEF OpenedBy, BlockOf
<1>6. /\ tokens[q + 1].type = "open" => OpenedBy(q + 1) = OpenedBy(q) \cup {q + 1}
      /\ tokens[q + 1].type # "open" => OpenedBy(q + 1) = OpenedBy(q)
  BY DEF OpenedBy
<1>7. /\ tokens[q + 1].type = "open" => BlockOf(q + 1) = BlockOf(q) + 1
      /\ tokens[q + 1].type # "open" => BlockOf(q + 1) = BlockOf(q)
      /\ BlockOf(q) \in Nat
  BY CountStep DEF BlockOf
<1>8. \A j \in OpenedBy(q) : BlockOf(j) \in 1 .. BlockOf(q)
  BY <1>1, <1>2 DEF BlockOf
<1> QED BY <1>1, <1>4, <1>5, <1>6, <1>7, <1>8

LEMMA OpenedCount ==
    ASSUME NEW q \in Nat PROVE Cardinality(OpenedBy(q)) = BlockOf(q)
<1> DEFINE K == {j \in 1 .. q : tokens[j].type = "open"}
<1>1. IsFiniteSet(1 .. q) /\ K \in SUBSET (1 .. q)
  BY FS_Interval
<1>2. IsFiniteSet(K)
  BY <1>1, FS_Subset
<1>3. 0 \notin K /\ OpenedBy(q) = K \cup {0}
  BY DEF OpenedBy
<1>4. Cardinality(K \cup {0}) = Cardinality(K) + 1 /\ Cardinality(K) \in Nat
  BY <1>2, <1>3, FS_AddElement, FS_CardinalityType
<1> QED BY <1>3, <1>4 DEF BlockOf, Count

(* Where a token is in the block of the innermost bracket still open.      *)
LEMMA InnermostAt ==
    ASSUME NEW j \in Nat, NEW n \in Nat, j < n, j # 0 => tokens[j].type = "open",
           Level(n - 1) = Level(j), \A x \in j .. n - 1 : Level(x) >= Level(j)
    PROVE  Innermost(j, n)
<1>1. Encloses(j, n)
  BY DEF Encloses
<1>2. ASSUME NEW m \in j + 1 .. n - 1, Encloses(m, n) PROVE FALSE
  <2>1. m # 0 /\ m - 1 \in j .. n - 1 /\ m - 1 \in Nat /\ n - 1 \in m .. n - 1 /\ m = (m - 1) + 1
    OBVIOUS
  <2>2. tokens[m].type = "open" /\ Level(n - 1) >= Level(m)
    BY <1>2, <2>1 DEF Encloses
  <2>3. Level(m) = Level(m - 1) + 1 /\ Level(m - 1) \in Int
    BY <2>1, <2>2, LevelStep
  <2>4. Level(m - 1) >= Level(j)
    BY <2>1
  <2>5. Level(j) \in Int
    BY LevelStep
  <2> QED BY <2>2, <2>3, <2>4, <2>5
<1> QED BY <1>1, <1>2 DEF Innermost

LEMMA InnermostOne ==
    ASSUME NEW i \in Nat, NEW j \in Nat, NEW k \in Nat, Innermost(i, k), Innermost(j, k)
    PROVE  i = j
<1>1. i < k /\ j < k
  BY DEF Innermost, Encloses
<1>2. ~ (i < j)
  BY <1>1 DEF Innermost
<1>3. ~ (j < i)
  BY <1>1 DEF Innermost
<1> QED BY <1>2, <1>3

(* The token that opened the k-th activation's block.                      *)
Opener(s, k) == IF k = 1 THEN 0 ELSE s[k - 1].node.last + 1

(* After q tokens the activations are for the brackets opened and not yet  *)
(* closed, each of them filling its bracket's block.                       *)
Nest(s, q) ==
    /\ Len(s) = Level(q) + 1
    /\ \A k \in 1 .. Len(s) : /\ Opener(s, k) \in OpenedBy(q)
                              /\ s[k].block = BlockOf(Opener(s, k))
                              /\ Level(Opener(s, k)) = k - 1
                              /\ \A x \in Opener(s, k) .. q : Level(x) >= k - 1

(* The node that waits for a call is that of the call's bracket.           *)
Waits(s) ==
    \A k \in 1 .. Len(s) - 1 : /\ s[k].node.src_idx = tokens[Opener(s, k + 1)].src_idx
                               /\ ~ s[k].node.quoted /\ ~ s[k].quoted

(* Block b has the node x, or will get it from the node pending for it.    *)
Held(h, s, b, x) ==
    \/ \E n \in 1 .. Len(h[b].seq) : h[b].seq[n] = x
    \/ \E k \in 1 .. Len(s) : s[k].has_node /\ s[k].block = b /\ s[k].node = x

(* One of the first q tokens has its node in the block opened by j; that   *)
(* of a bracket comes when its activation returns.                         *)
Item(k) == tokens[k].type \in {"word", "number", "open"}
Inside(s, j, q, k) ==
    k \in 1 .. q /\ Innermost(j, k) /\ Item(k) /\ \A f \in 2 .. Len(s) : Opener(s, f) # k

(* The tree that the first q tokens describe.                              *)
Tree(h, s, q) ==
    /\ Len(h) = BlockOf(q)
    /\ \A j \in OpenedBy(q) :
          /\ h[BlockOf(j)].depth = Level(j)
          /\ \A x : Held(h, s, BlockOf(j), x) <=> \E k : Inside(s, j, q, k) /\ x = NodeOf(k)

LEMMA OpenersSame ==
    ASSUME NEW s, NEW r, NEW n \in Nat, \A k \in 1 .. n - 1 : r[k].node.last = s[k].node.last
    PROVE  \A k \in 1 .. n : Opener(r, k) = Opener(s, k)
<1>1. \A k \in 1 .. n : k # 1 => k - 1 \in 1 .. n - 1
  OBVIOUS
<1> QED BY <1>1 DEF Opener

(* A token that is no bracket leaves the activations what they were.       *)
LEMMA NestOn ==
    ASSUME NEW s, NEW r, NEW q \in Nat, Nest(s, q), Len(s) \in Nat, Len(r) = Len(s),
           tokens[q + 1].type \notin {"open", "close"},
           \A k \in 1 .. Len(s) : r[k].block = s[k].block /\ Opener(r, k) = Opener(s, k)
    PROVE  Nest(r, q + 1)
<1>1. Level(q + 1) = Level(q) /\ OpenedBy(q + 1) = OpenedBy(q)
  BY LevelStep, BlocksOpened
<1>2. ASSUME NEW k \in 1 .. Len(s), NEW x \in Opener(s, k) .. q + 1 PROVE Level(x) >= k - 1
  <2>1. CASE x = q + 1
    <3>1. Level(q) = Len(s) - 1
      <4>1. Level(q) \in Int
        BY LevelStep
      <4> QED BY <4>1 DEF Nest
    <3> QED BY <1>1, <2>1, <3>1
  <2>2. CASE x # q + 1
    <3>1. Opener(s, k) \in Nat
      BY BlocksOpened DEF Nest
    <3>2. x \in Opener(s, k) .. q
      BY <2>2, <3>1
    <3> QED BY <3>2 DEF Nest
  <2> QED BY <2>1, <2>2
<1> QED BY <1>1, <1>2 DEF Nest

(* The next token is in the block of the innermost activation, and the     *)
(* bracket of an activation in the block of its caller.                    *)
LEMMA NextPlace ==
    ASSUME NEW s, NEW q \in Nat, Nest(s, q), Len(s) \in Nat \ {0}
    PROVE  Innermost(Opener(s, Len(s)), q + 1)
<1>1. Len(s) \in 1 .. Len(s)
  OBVIOUS
<1> DEFINE j == Opener(s, Len(s))
<1>2. j \in OpenedBy(q) /\ Level(j) = Len(s) - 1 /\ \A x \in j .. q : Level(x) >= Len(s) - 1
  BY <1>1 DEF Nest
<1>3. j \in Nat /\ j <= q /\ (j # 0 => tokens[j].type = "open")
  BY <1>2 DEF OpenedBy
<1>4. Level(q) = Len(s) - 1
  <2>1. Level(q) \in Int
    BY LevelStep
  <2> QED BY <2>1 DEF Nest
<1> HIDE DEF j
<1>5. (q + 1) - 1 = q /\ j < q + 1 /\ q + 1 \in Nat
  BY <1>3
<1>6. Innermost(j, q + 1)
  BY <1>2, <1>3, <1>4, <1>5, InnermostAt
<1> QED BY <1>6 DEF j

LEMMA CallPlace ==
    ASSUME NEW s, NEW q \in Nat, Nest(s, q), Len(s) \in Nat, NEW k \in 1 .. Len(s) - 1
    PROVE  Innermost(Opener(s, k), Opener(s, k + 1)) /\ Opener(s, k) < Opener(s, k + 1)
<1> DEFINE j == Opener(s, k)  o == Opener(s, k + 1)
<1>1. k \in 1 .. Len(s) /\ k + 1 \in 1 .. Len(s) /\ k \in Nat
  OBVIOUS
<1>2. /\ j \in OpenedBy(q) /\ Level(j) = k - 1 /\ \A x \in j .. q : Level(x) >= k - 1
      /\ o \in OpenedBy(q) /\ Level(o) = k /\ \A x \in o .. q : Level(x) >= k
  <2>1. (k + 1) - 1 = k
    BY <1>1
  <2>2. /\ j \in OpenedBy(q) /\ Level(j) = k - 1 /\ \A x \in j .. q : Level(x) >= k - 1
    BY <1>1 DEF Nest
  <2>3. /\ o \in OpenedBy(q) /\ Level(o) = (k + 1) - 1 /\ \A x \in o .. q : Level(x) >= (k + 1) - 1
    BY <1>1 DEF Nest
  <2> QED BY <2>1, <2>2, <2>3
<1>3. j \in 0 .. q /\ o \in 0 .. q /\ (j # 0 => tokens[j].type = "open")
      /\ (o # 0 => tokens[o].type = "open")
  BY <1>2, BlocksOpened DEF OpenedBy
<1> HIDE DEF j, o
<1>4. ~ (o <= j)
  <2> SUFFICES ASSUME o <= j PROVE FALSE
    OBVIOUS
  <2>1. j \in o .. q
    BY <1>3
  <2> QED BY <1>1, <1>2, <2>1
<1>5. j < o /\ o # 0 /\ o - 1 \in Nat /\ o = (o - 1) + 1 /\ o - 1 \in j .. q
  BY <1>3, <1>4
<1>6. Level(o) = Level(o - 1) + 1 /\ Level(o - 1) \in Int
  BY <1>3, <1>5, LevelStep
<1>7. Level(o - 1) = Level(j)
  BY <1>1, <1>2, <1>6
<1>8. \A x \in j .. o - 1 : Level(x) >= Level(j)
  <2>1. \A x \in j .. o - 1 : x \in j .. q
    BY <1>3
  <2> QED BY <1>2, <2>1
<1>9. Innermost(j, o)
  BY <1>3, <1>5, <1>7, <1>8, InnermostAt
<1> QED BY <1>5, <1>9 DEF j, o

(* What one more token brings into the blocks when no bracket is closed.   *)
LEMMA InsideNext ==
    ASSUME NEW s, NEW r, NEW q \in Nat, Nest(s, q), Len(s) \in Nat, Len(r) = Len(s),
           \A k \in 1 .. Len(s) : Opener(r, k) = Opener(s, k)
    PROVE  \A j, k : Inside(r, j, q + 1, k) <=>
               Inside(s, j, q, k) \/ (k = q + 1 /\ Innermost(j, q + 1) /\ Item(q + 1))
<1>1. \A f \in 2 .. Len(s) : Opener(s, f) # q + 1 /\ Opener(r, f) = Opener(s, f)
  <2> SUFFICES ASSUME NEW f \in 2 .. Len(s) PROVE Opener(s, f) # q + 1 /\ Opener(r, f) = Opener(s, f)
    OBVIOUS
  <2>1. f \in 1 .. Len(s)
    OBVIOUS
  <2>2. Opener(s, f) \in 0 .. q
    BY <2>1, BlocksOpened DEF Nest
  <2> QED BY <2>1, <2>2
<1>2. \A k : k \in 1 .. q + 1 <=> k \in 1 .. q \/ k = q + 1
  OBVIOUS
<1>3. q + 1 \notin 1 .. q
  OBVIOUS
<1> QED BY <1>1, <1>2, <1>3 DEF Inside

LEMMA TreeOn ==
    ASSUME NEW h, NEW s, NEW g, NEW r, NEW q \in Nat, Nest(s, q), Tree(h, s, q),
           ~ Item(q + 1), Len(s) \in Nat, Len(r) = Len(s), Len(g) = Len(h),
           \A k \in 1 .. Len(s) : Opener(r, k) = Opener(s, k),
           \A b \in 1 .. Len(h) : /\ g[b].depth = h[b].depth
                                  /\ \A x : Held(g, r, b, x) <=> Held(h, s, b, x)
    PROVE  Tree(g, r, q + 1)
<1>1. OpenedBy(q + 1) = OpenedBy(q) /\ BlockOf(q + 1) = BlockOf(q)
  BY BlocksOpened DEF Item
<1>2. \A j, k : Inside(r, j, q + 1, k) <=> Inside(s, j, q, k)
  BY InsideNext
<1>3. \A j \in OpenedBy(q) : BlockOf(j) \in 1 .. Len(h)
  BY BlocksOpened DEF Tree
<1> QED BY <1>1, <1>2, <1>3 DEF Tree

LEMMA TreeLeaf ==
    ASSUME NEW h, NEW s, NEW g, NEW r, NEW q \in Nat, Nest(s, q), Tree(h, s, q),
           tokens[q + 1].type \in {"word", "number"},
           Len(s) \in Nat \ {0}, Len(r) = Len(s), Len(g) = Len(h),
           \A k \in 1 .. Len(s) : Opener(r, k) = Opener(s, k),
           \A b \in 1 .. Len(h) :
              /\ g[b].depth = h[b].depth
              /\ \A x : Held(g, r, b, x) <=>
                    Held(h, s, b, x) \/ (b = s[Len(s)].block /\ x = NodeOf(q + 1))
    PROVE  Tree(g, r, q + 1)
<1> DEFINE o == Opener(s, Len(s))
<1>1. OpenedBy(q + 1) = OpenedBy(q) /\ BlockOf(q + 1) = BlockOf(q)
  BY BlocksOpened
<1>2. \A j, k : Inside(r, j, q + 1, k) <=> Inside(s, j, q, k) \/ (k = q + 1 /\ Innermost(j, q + 1))
  BY InsideNext DEF Item
<1>3. \A j \in OpenedBy(q) : BlockOf(j) \in 1 .. Len(h) /\ j \in Nat
  BY BlocksOpened DEF Tree
<1>4. Len(s) \in 1 .. Len(s)
  OBVIOUS
<1>5. o \in OpenedBy(q) /\ s[Len(s)].block = BlockOf(o)
  BY <1>4 DEF Nest
<1>6. Innermost(o, q + 1)
  BY NextPlace
<1> HIDE DEF o
<1>7. \A j \in OpenedBy(q) : Innermost(j, q + 1) <=> j = o
  BY <1>3, <1>5, <1>6, InnermostOne
<1>8. \A j \in OpenedBy(q) : BlockOf(j) = s[Len(s)].block <=> j = o
  <2>1. \A j, l \in OpenedBy(q) : BlockOf(j) = BlockOf(l) => j = l
    BY BlocksOpened
  <2> QED BY <1>5, <2>1
<1>9. ASSUME NEW j \in OpenedBy(q), NEW x
      PROVE  Held(g, r, BlockOf(j), x) <=> \E k : Inside(r, j, q + 1, k) /\ x = NodeOf(k)
  <2>1. Held(g, r, BlockOf(j), x) <=> Held(h, s, BlockOf(j), x) \/ (j = o /\ x = NodeOf(q + 1))
    BY <1>3, <1>8
  <2>2. Held(h, s, BlockOf(j), x) <=> \E k : Inside(s, j, q, k) /\ x = NodeOf(k)
    BY DEF Tree
  <2>3. \A k : Inside(r, j, q + 1, k) <=> Inside(s, j, q, k) \/ (k = q + 1 /\ j = o)
    BY <1>2, <1>7
  <2> QED BY <2>1, <2>2, <2>3
<1>10. \A j \in OpenedBy(q) : g[BlockOf(j)].depth = Level(j)
  BY <1>3 DEF Tree
<1>11. Len(g) = BlockOf(q + 1)
  BY <1>1 DEF Tree
<1> QED BY <1>1, <1>9, <1>10, <1>11 DEF Tree

(* A call.                                                                 *)
LEMMA NestCall ==
    ASSUME NEW s, NEW r, NEW q \in Nat, Nest(s, q), Len(s) \in Nat, Len(r) = Len(s) + 1,
           tokens[q + 1].type = "open",
           \A k \in 1 .. Len(s) : r[k].block = s[k].block /\ Opener(r, k) = Opener(s, k),
           Opener(r, Len(s) + 1) = q + 1, r[Len(s) + 1].block = BlockOf(q + 1)
    PROVE  Nest(r, q + 1)
<1>1. Level(q + 1) = Level(q) + 1 /\ Level(q) = Len(s) - 1
      /\ OpenedBy(q + 1) = OpenedBy(q) \cup {q + 1}
  <2>1. Level(q) \in Int /\ Level(q + 1) = Level(q) + 1
    BY LevelStep
  <2>2. OpenedBy(q + 1) = OpenedBy(q) \cup {q + 1}
    BY BlocksOpened
  <2>3. Len(s) = Level(q) + 1
    BY DEF Nest
  <2> QED BY <2>1, <2>2, <2>3
<1>2. \A k \in 1 .. Len(r) : k \in 1 .. Len(s) \/ k = Len(s) + 1
  OBVIOUS
<1>3. ASSUME NEW k \in 1 .. Len(s), NEW x \in Opener(s, k) .. q + 1 PROVE Level(x) >= k - 1
  <2>1. CASE x = q + 1
    BY <1>1, <2>1
  <2>2. CASE x # q + 1
    <3>1. Opener(s, k) \in Nat
      BY BlocksOpened DEF Nest
    <3>2. x \in Opener(s, k) .. q
      BY <2>2, <3>1
    <3> QED BY <3>2 DEF Nest
  <2> QED BY <2>1, <2>2
<1>4. ASSUME NEW x \in q + 1 .. q + 1 PROVE Level(x) >= (Len(s) + 1) - 1
  BY <1>1
<1>5. Len(r) = Level(q + 1) + 1 /\ Level(q + 1) = (Len(s) + 1) - 1
  BY <1>1
<1>6. ASSUME NEW k \in 1 .. Len(r)
      PROVE  /\ Opener(r, k) \in OpenedBy(q + 1)
             /\ r[k].block = BlockOf(Opener(r, k))
             /\ Level(Opener(r, k)) = k - 1
             /\ \A x \in Opener(r, k) .. q + 1 : Level(x) >= k - 1
  <2>1. CASE k \in 1 .. Len(s)
    BY <1>1, <1>3, <2>1 DEF Nest
  <2>2. CASE k = Len(s) + 1
    BY <1>1, <1>4, <1>5, <2>2
  <2> QED BY <1>2, <2>1, <2>2
<1> QED BY <1>5, <1>6 DEF Nest

LEMMA TreeCall ==
    ASSUME NEW h, NEW s, NEW g, NEW r, NEW q \in Nat, Nest(s, q), Tree(h, s, q),
           tokens[q + 1].type = "open", Len(h) \in Nat,
           Len(s) \in Nat \ {0}, Len(r) = Len(s) + 1, Len(g) = Len(h) + 1,
           \A k \in 1 .. Len(s) : Opener(r, k) = Opener(s, k), Opener(r, Len(s) + 1) = q + 1,
           \A b \in 1 .. Len(h) : /\ g[b].depth = h[b].depth
                                  /\ \A x : Held(g, r, b, x) <=> Held(h, s, b, x),
           g[Len(h) + 1].depth = Level(q) + 1, \A x : ~ Held(g, r, Len(h) + 1, x)
    PROVE  Tree(g, r, q + 1)
<1>1. OpenedBy(q + 1) = OpenedBy(q) \cup {q + 1} /\ BlockOf(q + 1) = BlockOf(q) + 1
      /\ Level(q + 1) = Level(q) + 1
  BY BlocksOpened, LevelStep
<1>2. Len(h) = BlockOf(q)
  BY DEF Tree
<1>3. \A j \in OpenedBy(q) : BlockOf(j) \in 1 .. Len(h) /\ j \in Nat
  BY <1>2, BlocksOpened
<1>4. ASSUME NEW j, NEW k PROVE Inside(r, j, q + 1, k) <=> Inside(s, j, q, k)
  <2>1. k \in 1 .. q + 1 /\ k # q + 1 <=> k \in 1 .. q
    OBVIOUS
  <2>2. (\A f \in 2 .. Len(r) : Opener(r, f) # k)
           <=> k # q + 1 /\ (\A f \in 2 .. Len(s) : Opener(s, f) # k)
    <3>1. \A f \in 2 .. Len(r) : f = Len(s) + 1 \/ f \in 2 .. Len(s)
      OBVIOUS
    <3>2. Len(s) + 1 \in 2 .. Len(r) /\ \A f \in 2 .. Len(s) : f \in 2 .. Len(r) /\ f \in 1 .. Len(s)
      OBVIOUS
    <3> QED BY <3>1, <3>2
  <2> QED BY <2>1, <2>2 DEF Inside
<1>5. ASSUME NEW k PROVE ~ Inside(r, q + 1, q + 1, k)
  BY DEF Inside, Innermost, Encloses
<1>6. Len(g) = BlockOf(q + 1)
  BY <1>1, <1>2
<1>7. ASSUME NEW j \in OpenedBy(q)
      PROVE  /\ g[BlockOf(j)].depth = Level(j)
             /\ \A x : Held(g, r, BlockOf(j), x) <=> \E k : Inside(r, j, q + 1, k) /\ x = NodeOf(k)
  BY <1>3, <1>4 DEF Tree
<1>8. /\ g[BlockOf(q + 1)].depth = Level(q + 1)
      /\ \A x : ~ Held(g, r, BlockOf(q + 1), x)
  BY <1>1, <1>2
<1> QED BY <1>1, <1>5, <1>6, <1>7, <1>8 DEF Tree

(* A return to a caller.                                                   *)
LEMMA NestReturn ==
    ASSUME NEW s, NEW r, NEW q \in Nat, Nest(s, q), Len(s) \in Nat, Len(s) > 1,
           Len(r) = Len(s) - 1, tokens[q + 1].type = "close",
           \A k \in 1 .. Len(r) : r[k].block = s[k].block /\ Opener(r, k) = Opener(s, k)
    PROVE  Nest(r, q + 1)
<1>1. Level(q + 1) = Level(q) - 1 /\ Level(q) = Len(s) - 1 /\ OpenedBy(q + 1) = OpenedBy(q)
  <2>1. Level(q) \in Int /\ Level(q + 1) = Level(q) - 1
    BY LevelStep
  <2>2. OpenedBy(q + 1) = OpenedBy(q)
    BY BlocksOpened
  <2>3. Len(s) = Level(q) + 1
    BY DEF Nest
  <2> QED BY <2>1, <2>2, <2>3
<1>2. \A k \in 1 .. Len(r) : k \in 1 .. Len(s) /\ k - 1 <= Len(s) - 2
  OBVIOUS
<1>3. ASSUME NEW k \in 1 .. Len(r), NEW x \in Opener(s, k) .. q + 1 PROVE Level(x) >= k - 1
  <2>1. CASE x = q + 1
    BY <1>1, <1>2, <2>1
  <2>2. CASE x # q + 1
    <3>1. Opener(s, k) \in Nat
      <4>1. Opener(s, k) \in OpenedBy(q)
        BY <1>2 DEF Nest
      <4> QED BY <4>1 DEF OpenedBy
    <3>2. x \in Opener(s, k) .. q
      BY <2>2, <3>1
    <3> QED BY <1>2, <3>2 DEF Nest
  <2> QED BY <2>1, <2>2
<1>4. Len(r) = Level(q + 1) + 1
  BY <1>1
<1> QED BY <1>1, <1>2, <1>3, <1>4 DEF Nest

LEMMA TreeReturn ==
    ASSUME NEW h, NEW s, NEW g, NEW r, NEW q \in Nat, Nest(s, q), Tree(h, s, q),
           tokens[q + 1].type = "close",
           Len(s) \in Nat, Len(s) > 1, Len(r) = Len(s) - 1, Len(g) = Len(h),
           \A k \in 1 .. Len(r) : Opener(r, k) = Opener(s, k),
           \A b \in 1 .. Len(h) :
              /\ g[b].depth = h[b].depth
              /\ \A x : Held(g, r, b, x) <=>
                    Held(h, s, b, x) \/ (b = s[Len(s) - 1].block /\ x = NodeOf(Opener(s, Len(s))))
    PROVE  Tree(g, r, q + 1)
<1> DEFINE C == Len(s) - 1  o == Opener(s, Len(s))  c == Opener(s, C)
<1>1. OpenedBy(q + 1) = OpenedBy(q) /\ BlockOf(q + 1) = BlockOf(q)
  BY BlocksOpened
<1>2. C \in 1 .. Len(s) - 1 /\ C + 1 = Len(s) /\ C \in 1 .. Len(s) /\ Len(s) \in 2 .. Len(s)
      /\ Len(s) \in 1 .. Len(s)
  OBVIOUS
<1>3. \A j \in OpenedBy(q) : BlockOf(j) \in 1 .. Len(h) /\ j \in Nat
  BY BlocksOpened DEF Tree
<1>4. c \in OpenedBy(q) /\ s[C].block = BlockOf(c) /\ o \in OpenedBy(q)
  BY <1>2 DEF Nest
<1>5. Innermost(c, o) /\ c < o
  <2>1. Innermost(Opener(s, C), Opener(s, C + 1)) /\ Opener(s, C) < Opener(s, C + 1)
    BY <1>2, CallPlace
  <2> QED BY <1>2, <2>1
<1>6. o \in 1 .. q /\ Item(o)
  <2>1. c \in Nat /\ o \in Nat
    BY <1>3, <1>4
  <2> QED BY <1>4, <1>5, <2>1 DEF OpenedBy, Item
<1>7. \A j \in OpenedBy(q) : BlockOf(j) = s[C].block <=> j = c
  <2>1. \A j, l \in OpenedBy(q) : BlockOf(j) = BlockOf(l) => j = l
    BY BlocksOpened
  <2> QED BY <1>4, <2>1
<1>8. \A f \in 2 .. C : Opener(s, f) # o
  <2> SUFFICES ASSUME NEW f \in 2 .. C, Opener(s, f) = o PROVE FALSE
    OBVIOUS
  <2>1. f \in 1 .. Len(s) /\ f < Len(s)
    BY <1>2
  <2>2. Level(Opener(s, f)) = f - 1 /\ Level(o) = Len(s) - 1
    BY <1>2, <2>1 DEF Nest
  <2> QED BY <2>1, <2>2
<1>9. ~ Item(q + 1)
  BY DEF Item
<1>10. ASSUME NEW j \in OpenedBy(q), NEW k
       PROVE  Inside(r, j, q + 1, k) <=> Inside(s, j, q, k) \/ (k = o /\ j = c)
  <2>1. (\A f \in 2 .. Len(s) : Opener(s, f) # k) <=> k # o /\ (\A f \in 2 .. C : Opener(s, f) # k)
    <3>1. \A f \in 2 .. Len(s) : f = Len(s) \/ f \in 2 .. C
      BY <1>2
    <3>2. \A f \in 2 .. C : f \in 2 .. Len(s)
      BY <1>2
    <3> QED BY <1>2, <3>1, <3>2
  <2>2. (\A f \in 2 .. Len(r) : Opener(r, f) # k) <=> (\A f \in 2 .. C : Opener(s, f) # k)
    <3>1. \A f \in 2 .. C : f \in 1 .. Len(r)
      BY <1>2
    <3> QED BY <3>1
  <2>3. Item(k) => (k \in 1 .. q + 1 <=> k \in 1 .. q)
    BY <1>9
  <2>4. Innermost(j, o) <=> j = c
    BY <1>3, <1>4, <1>5, InnermostOne
  <2> HIDE DEF C, o, c
  <2> QED BY <1>6, <1>8, <2>1, <2>2, <2>3, <2>4 DEF Inside
<1>11. ASSUME NEW j \in OpenedBy(q), NEW x
       PROVE  Held(g, r, BlockOf(j), x) <=> \E k : Inside(r, j, q + 1, k) /\ x = NodeOf(k)
  <2>1. Held(g, r, BlockOf(j), x) <=> Held(h, s, BlockOf(j), x) \/ (j = c /\ x = NodeOf(o))
    BY <1>3, <1>7
  <2>2. Held(h, s, BlockOf(j), x) <=> \E k : Inside(s, j, q, k) /\ x = NodeOf(k)
    BY DEF Tree
  <2> HIDE DEF C, o, c
  <2> QED BY <1>10, <2>1, <2>2
<1>12. \A j \in OpenedBy(q) : g[BlockOf(j)].depth = Level(j)
  BY <1>3 DEF Tree
<1>13. Len(g) = BlockOf(q + 1)
  BY <1>1 DEF Tree
<1> QED BY <1>1, <1>11, <1>12, <1>13 DEF Tree

(* The emission moves a node from pending to its block, which holds it     *)
(* either way.                                                             *)
LEMMA QuietHeld ==
    ASSUME NEW h, NEW s, Quiet(s)
    PROVE  \A b, x : Held(h, s, b, x) <=> \E n \in 1 .. Len(h[b].seq) : h[b].seq[n] = x
BY DEF Quiet, Held

LEMMA EmitHeld ==
    ASSUME NEW h, NEW s, NEW g, NEW r, Emission(h, s, g, r), Quiet(r), NEW b \in 1 .. Len(h)
    PROVE  g[b].depth = h[b].depth /\ \A x : Held(g, r, b, x) <=> Held(h, s, b, x)
<1> DEFINE top == s[Len(s)]
<1>1. /\ Len(s) \in Nat /\ Len(s) \in 1 .. Len(s) /\ Typed(h, s)
      /\ \A k \in 1 .. Len(s) - 1 : ~ s[k].has_node
      /\ \A k \in 1 .. Len(s) : k = Len(s) \/ k \in 1 .. Len(s) - 1
  BY DEF Emission, Typed, Shape
<1>2. \A x : Held(g, r, b, x) <=> \E n \in 1 .. Len(g[b].seq) : g[b].seq[n] = x
  BY QuietHeld
<1>3. \A x : Held(h, s, b, x) <=>
          \/ \E n \in 1 .. Len(h[b].seq) : h[b].seq[n] = x
          \/ top.has_node /\ top.block = b /\ top.node = x
  BY <1>1 DEF Held
<1>4. g[b].depth = h[b].depth
  BY DEF Emission, Emits
<1>5. CASE b # top.block \/ ~ top.has_node
  <2>1. g[b].seq = h[b].seq
    BY <1>5 DEF Emission, Emits
  <2> QED BY <1>2, <1>3, <1>4, <1>5, <2>1
<1>6. CASE b = top.block /\ top.has_node
  <2>1. /\ Len(g[b].seq) = Len(h[b].seq) + 1 /\ Len(h[b].seq) \in Nat
        /\ \A n \in 1 .. Len(h[b].seq) : g[b].seq[n] = h[b].seq[n]
        /\ g[b].seq[Len(h[b].seq) + 1] = top.node
    BY <1>1, <1>6, Fields DEF Emission, Emits
  <2>2. \A n : n \in 1 .. Len(g[b].seq) <=> n \in 1 .. Len(h[b].seq) \/ n = Len(h[b].seq) + 1
    <3>1. PICK N \in Nat : N = Len(h[b].seq)
      BY <2>1
    <3>2. \A n : n \in 1 .. N + 1 <=> n \in 1 .. N \/ n = N + 1
      OBVIOUS
    <3> QED BY <2>1, <3>1, <3>2
  <2>3. ASSUME NEW x
        PROVE  (\E n \in 1 .. Len(g[b].seq) : g[b].seq[n] = x)
                  <=> (\E n \in 1 .. Len(h[b].seq) : h[b].seq[n] = x) \/ x = top.node
    <3> DEFINE N == Len(h[b].seq)  u == g[b].seq  v == h[b].seq
    <3>1. /\ \A n : n \in 1 .. Len(u) <=> n \in 1 .. N \/ n = N + 1
          /\ \A n \in 1 .. N : u[n] = v[n]
          /\ u[N + 1] = top.node
      BY <2>1, <2>2
    <3> HIDE DEF N, u, v, top
    <3>2. (\E n \in 1 .. Len(u) : u[n] = x) <=> (\E n \in 1 .. N : v[n] = x) \/ x = top.node
      BY <3>1
    <3> QED BY <3>2 DEF N, u, v
  <2> QED BY <1>2, <1>3, <1>4, <1>6, <2>3
<1> QED BY <1>5, <1>6

LEMMA ClearedEmission ==
    ASSUME PInv, outcome = "run"
    PROVE  Emission(heap, stack, Emitted, Cleared)
<1>1. Typed(heap, stack) /\ stack # <<>> /\ Shape(heap, stack)
  BY DEF PInv
<1>2. Emits(heap, stack, Emitted)
  BY <1>1, EmittedFacts
<1>3. SameCalls(stack, Cleared)
  BY ClearedFacts DEF SameCalls
<1>4. ~ Cleared[Len(Cleared)].has_node
  <2>1. Len(Cleared) \in 1 .. Len(Cleared)
    BY ClearedFacts, StackFacts
  <2> QED BY <2>1, ClearedFacts DEF Quiet
<1> QED BY <1>1, <1>2, <1>3, <1>4, ClearedFacts DEF Emission

(* What the blocks hold once the innermost activation has the frame f.     *)
LEMMA HeldNext ==
    ASSUME PInv, outcome = "run", NEW r, NEW f, Len(r) = Len(stack), r[Len(stack)] = f,
           f.block = Top.block, \A k \in 1 .. Len(stack) - 1 : r[k] = stack[k],
           NEW b \in 1 .. Len(heap)
    PROVE  /\ Emitted[b].depth = heap[b].depth
           /\ \A x : Held(Emitted, r, b, x) <=>
                 Held(heap, stack, b, x) \/ (f.has_node /\ b = Top.block /\ x = f.node)
<1>1. Emitted[b].depth = heap[b].depth
      /\ \A x : Held(Emitted, Cleared, b, x) <=> Held(heap, stack, b, x)
  BY ClearedEmission, ClearedFacts, EmitHeld
<1>2. \A x : Held(Emitted, Cleared, b, x) <=>
                \E n \in 1 .. Len(Emitted[b].seq) : Emitted[b].seq[n] = x
  <2>1. Quiet(Cleared)
    BY ClearedFacts
  <2> QED BY <2>1, QuietHeld
<1>3. \A k \in 1 .. Len(stack) - 1 : ~ r[k].has_node
  BY DEF PInv, Shape
<1>4. /\ Len(stack) \in 1 .. Len(stack)
      /\ \A k \in 1 .. Len(stack) : k = Len(stack) \/ k \in 1 .. Len(stack) - 1
  BY StackFacts
<1>5. \A x : Held(Emitted, r, b, x) <=>
                \/ \E n \in 1 .. Len(Emitted[b].seq) : Emitted[b].seq[n] = x
                \/ f.has_node /\ b = Top.block /\ x = f.node
  BY <1>3, <1>4 DEF Held
<1> QED BY <1>1, <1>2, <1>5

(* How far the source has been read: a return in the last token leaves *i  *)
(* behind the end.  The activation is quoted right after a quote.          *)
Here(p) == IF p <= Len(tokens) THEN p ELSE Len(tokens)
Quotes(s, p) == s[Len(s)].quoted <=> p \in 1 .. Len(tokens) /\ tokens[p].type = "quote"

Track(h, s, p) == Nest(s, Here(p)) /\ Tree(h, s, Here(p)) /\ Waits(s) /\ Quotes(s, p)

MInv ==
    Balanced /\ Spaced =>
        /\ outcome = "run" => Track(heap, stack, pos)
        /\ outcome = "ok" => Tree(heap, stack, Len(tokens))

LEMMA TokensStay ==
    ASSUME tokens' = tokens
    PROVE  /\ Balanced' <=> Balanced
           /\ Spaced' <=> Spaced
           /\ \A h, s, p : Track(h, s, p)' <=> Track(h, s, p)
           /\ \A h, s, q : Tree(h, s, q)' <=> Tree(h, s, q)
<1>1. \A type, n : Count(type, n)' = Count(type, n)
  BY DEF Count
<1>2. \A n : Level(n)' = Level(n)
  BY <1>1 DEF Level
<1>3. \A j, k : Encloses(j, k)' <=> Encloses(j, k)
  BY <1>2 DEF Encloses
<1>4. \A j, k : Innermost(j, k)' <=> Innermost(j, k)
  BY <1>3 DEF Innermost
<1>5. \A k : ClosedBy(k)' = ClosedBy(k)
  <2> SUFFICES ASSUME NEW j PROVE ClosedBy(j)' = ClosedBy(j)
    OBVIOUS
  <2>1. \A k : (Level(k) < Level(j) /\ \A m \in j .. k - 1 : Level(m) >= Level(j))'
                 <=> Level(k) < Level(j) /\ \A m \in j .. k - 1 : Level(m) >= Level(j)
    BY <1>2
  <2> QED BY <1>2, <2>1 DEF ClosedBy
<1>6. \A k : NodeOf(k)' = NodeOf(k)
  BY <1>1, <1>5 DEF NodeOf
<1>7. \A j : BlockOf(j)' = BlockOf(j) /\ OpenedBy(j)' = OpenedBy(j)
  BY <1>1 DEF BlockOf, OpenedBy
<1>8. \A s, j, q, k : Inside(s, j, q, k)' <=> Inside(s, j, q, k)
  BY <1>4 DEF Inside, Item
<1>9. \A h, s, q : Tree(h, s, q)' <=> Tree(h, s, q)
  BY <1>2, <1>6, <1>7, <1>8 DEF Tree
<1>10. \A s, q : Nest(s, q)' <=> Nest(s, q)
  BY <1>2, <1>7 DEF Nest
<1>11. \A s : Waits(s)' <=> Waits(s)
  BY DEF Waits
<1>12. \A s, p : Quotes(s, p)' <=> Quotes(s, p)
  BY DEF Quotes
<1>13. \A p : Here(p)' = Here(p)
  BY DEF Here
<1>14. \A h, s, p : Track(h, s, p)' <=> Track(h, s, p)
  BY <1>9, <1>10, <1>11, <1>12, <1>13 DEF Track
<1>15. Balanced' <=> Balanced
  BY <1>2 DEF Balanced
<1>16. Spaced' <=> Spaced
  BY DEF Spaced
<1> QED BY <1>9, <1>14, <1>15, <1>16

LEMMA StillTracks ==
    ASSUME NEW g, NEW r, NEW p, Track(g, r, p),
           heap' = g, stack' = r, pos' = p, tokens' = tokens, outcome' = "run"
    PROVE  MInv'
<1>1. \A h, s, n : Track(h, s, n)' <=> Track(h, s, n)
  BY TokensStay
<1>2. Track(heap, stack, pos)'
  BY <1>1
<1> QED BY <1>2 DEF MInv

LEMMA AtFacts ==
    ASSUME PInv, outcome = "run", Track(heap, stack, pos), Spaced, pos < Len(tokens)
    PROVE  /\ pos \in Nat /\ Len(tokens) \in Nat /\ pos + 1 \in 1 .. Len(tokens)
           /\ Here(pos) = pos /\ Here(pos + 1) = pos + 1
           /\ Nest(stack, pos) /\ Tree(heap, stack, pos) /\ Waits(stack)
           /\ Len(stack) \in Nat \ {0} /\ Len(stack) \in 1 .. Len(stack)
           /\ Len(heap) \in Nat /\ Len(Emitted) = Len(heap)
           /\ Top.quoted = (pos \in 1 .. Len(tokens) /\ tokens[pos].type = "quote")
           /\ Top.quoted => tokens[pos + 1].type = "word"
<1>1. pos \in Nat /\ Len(tokens) \in Nat
  BY DEF PInv
<1>2. pos + 1 \in 1 .. Len(tokens) /\ Here(pos) = pos /\ Here(pos + 1) = pos + 1
  BY <1>1 DEF Here
<1>3. Nest(stack, pos) /\ Tree(heap, stack, pos) /\ Waits(stack)
  BY <1>2 DEF Track
<1>4. Len(stack) \in Nat \ {0} /\ Len(stack) \in 1 .. Len(stack)
  BY StackFacts
<1>5. Top.quoted <=> pos \in 1 .. Len(tokens) /\ tokens[pos].type = "quote"
  BY DEF Track, Quotes, Top
<1>6. Top.quoted \in BOOLEAN
  BY StackFacts
<1>7. Top.quoted => tokens[pos + 1].type = "word"
  <2>1. pos \in 1 .. Len(tokens) => pos \in 1 .. Len(tokens) - 1
    BY <1>1
  <2> QED BY <1>5, <2>1 DEF Spaced
<1>8. Len(heap) \in Nat /\ Len(Emitted) = Len(heap)
  BY Fields, ClearedFacts DEF PInv
<1> QED BY <1>1, <1>2, <1>3, <1>4, <1>5, <1>6, <1>7, <1>8, Zenon

(* The steps that leave the activation running, from its new frame f.      *)
LEMMA LeafTracks ==
    ASSUME PInv, outcome = "run", Track(heap, stack, pos), Spaced, pos < Len(tokens),
           NEW f \in Frame, f.block = Top.block,
           tokens[pos + 1].type \notin {"open", "close"},
           f.quoted <=> tokens[pos + 1].type = "quote",
           NEW g, Len(g) = Len(heap),
           \A b \in 1 .. Len(heap) :
              /\ g[b].depth = heap[b].depth
              /\ \A x : Held(g, WithTop(f), b, x) <=>
                    Held(heap, stack, b, x) \/ (Item(pos + 1) /\ b = Top.block /\ x = NodeOf(pos + 1))
    PROVE  Track(g, WithTop(f), pos + 1)
<1> DEFINE r == WithTop(f)
<1>1. /\ Len(r) = Len(stack) /\ r[Len(stack)] = f /\ \A k \in 1 .. Len(stack) - 1 : r[k] = stack[k]
      /\ Top = stack[Len(stack)]
  BY StackFacts, TopFacts DEF WithTop
<1> HIDE DEF r
<1>2. \A k \in 1 .. Len(stack) : k = Len(stack) \/ k \in 1 .. Len(stack) - 1
  BY StackFacts
<1>3. \A k \in 1 .. Len(stack) : r[k].block = stack[k].block
  BY <1>1, <1>2
<1>4. \A k \in 1 .. Len(stack) : Opener(r, k) = Opener(stack, k)
  <2>1. \A k \in 1 .. Len(stack) - 1 : r[k].node.last = stack[k].node.last
    BY <1>1
  <2>2. Len(stack) \in Nat
    BY AtFacts
  <2> QED BY <2>1, <2>2, OpenersSame
<1>5. Nest(r, pos + 1)
  BY <1>1, <1>3, <1>4, AtFacts, NestOn
<1>6. Tree(g, r, pos + 1)
  <2>1. CASE Item(pos + 1)
    <3>1. tokens[pos + 1].type \in {"word", "number"}
      BY <2>1 DEF Item
    <3>2. \A b \in 1 .. Len(heap) :
              /\ g[b].depth = heap[b].depth
              /\ \A x : Held(g, r, b, x) <=>
                    Held(heap, stack, b, x) \/ (b = stack[Len(stack)].block /\ x = NodeOf(pos + 1))
      BY <1>1, <2>1 DEF r
    <3>3. pos \in Nat /\ Nest(stack, pos) /\ Tree(heap, stack, pos) /\ Len(stack) \in Nat \ {0}
      BY AtFacts
    <3> QED BY <1>1, <1>4, <3>1, <3>2, <3>3, TreeLeaf
  <2>2. CASE ~ Item(pos + 1)
    <3>1. \A b \in 1 .. Len(heap) : /\ g[b].depth = heap[b].depth
                                    /\ \A x : Held(g, r, b, x) <=> Held(heap, stack, b, x)
      BY <2>2 DEF r
    <3>2. pos \in Nat /\ Nest(stack, pos) /\ Tree(heap, stack, pos) /\ Len(stack) \in Nat
      BY AtFacts
    <3> QED BY <1>1, <1>4, <2>2, <3>1, <3>2, TreeOn
  <2> QED BY <2>1, <2>2
<1>7. Waits(r)
  <2>1. \A k \in 1 .. Len(stack) - 1 : k + 1 \in 1 .. Len(stack)
    BY AtFacts
  <2> QED BY <1>1, <1>4, <2>1, AtFacts DEF Waits
<1>8. Quotes(r, pos + 1)
  BY <1>1, AtFacts DEF Quotes
<1> QED BY <1>5, <1>6, <1>7, <1>8, AtFacts DEF Track, r

LEMMA WhitespaceTracks ==
    ASSUME PInv, Spaced, Track(heap, stack, pos), ParseWhitespace PROVE MInv'
<1> DEFINE f == [Top EXCEPT !.has_node = FALSE]
<1>1. outcome = "run" /\ pos < Len(tokens) /\ tokens[pos + 1].type = "ws"
  BY DEF ParseWhitespace, AtToken
<1>2. f = [block |-> Top.block, node |-> Top.node, has_node |-> FALSE, quoted |-> Top.quoted]
  <2>1. Top \in Frame
    BY <1>1, StackFacts
  <2> QED BY <2>1, FrameEdits
<1>3. f \in Frame /\ f.block = Top.block /\ ~ f.has_node /\ f.quoted = Top.quoted
  <2> HIDE DEF f
  <2>1. f \in Frame
    BY <1>1, <1>2, StackFacts, FrameMade
  <2> QED BY <1>2, <2>1
<1>4. /\ heap' = Emitted /\ stack' = WithTop(f) /\ pos' = pos + 1
      /\ tokens' = tokens /\ outcome' = "run"
  BY <1>1 DEF ParseWhitespace
<1> HIDE DEF f
<1>5. ~ Top.quoted
  BY <1>1, AtFacts
<1>6. Cleared = WithTop(f)
  BY DEF Cleared, WithTop, f
<1>7. \A b \in 1 .. Len(heap) :
         /\ Emitted[b].depth = heap[b].depth
         /\ \A x : Held(Emitted, WithTop(f), b, x) <=> Held(heap, stack, b, x)
  BY <1>1, <1>6, ClearedEmission, ClearedFacts, EmitHeld
<1>8. ~ Item(pos + 1)
  BY <1>1 DEF Item
<1>9. Track(Emitted, WithTop(f), pos + 1)
  BY <1>1, <1>3, <1>5, <1>7, <1>8, AtFacts, LeafTracks
<1> QED BY <1>4, <1>9, StillTracks

LEMMA SetNodeTracks ==
    ASSUME PInv, Spaced, Track(heap, stack, pos), outcome = "run", pos < Len(tokens),
           NEW type \in {"word", "number"}, NEW quoted \in BOOLEAN, SetNode(type, quoted),
           tokens[pos + 1].type = type, quoted = (type = "word" /\ Top.quoted)
    PROVE  MInv'
<1> DEFINE x == [type |-> type, src_idx |-> tokens[pos + 1].src_idx,
                 quoted |-> quoted, block |-> 0, last |-> pos]
           q == IF type = "word" THEN FALSE ELSE Top.quoted
           f == WithNode(Top, x, q)
<1>1. tokens[pos + 1].src_idx \in Nat /\ pos \in Nat
  <2>1. tokens \in Seq(Token) /\ pos \in Nat /\ pos + 1 \in 1 .. Len(tokens)
    BY DEF PInv
  <2>2. tokens[pos + 1] \in Token
    BY <2>1
  <2>3. \A u \in Token : u.src_idx \in Nat
    BY DEF Token
  <2> QED BY <2>1, <2>2, <2>3
<1>2. x \in Node
  BY <1>1 DEF Node
<1>3. q = FALSE /\ type # "quote" /\ type # "open" /\ type # "close"
  BY AtFacts
<1>4. x = NodeOf(pos + 1)
  <2>1. (pos + 1 > 1 /\ tokens[(pos + 1) - 1].type = "quote") = Top.quoted
    <3>1. (pos + 1) - 1 = pos /\ (pos + 1 > 1 <=> pos \in 1 .. Len(tokens))
      BY <1>1, AtFacts
    <3> QED BY <3>1, AtFacts
  <2>2. NodeOf(pos + 1) =
           [type |-> type, src_idx |-> tokens[pos + 1].src_idx,
            quoted |-> type = "word" /\ pos + 1 > 1 /\ tokens[(pos + 1) - 1].type = "quote",
            block |-> 0, last |-> (pos + 1) - 1]
    BY <1>3 DEF NodeOf
  <2>3. (type = "word" /\ pos + 1 > 1 /\ tokens[(pos + 1) - 1].type = "quote") = quoted
    BY <2>1
  <2>4. (pos + 1) - 1 = pos
    BY <1>1
  <2> QED BY <2>2, <2>3, <2>4
<1> HIDE DEF x, q
<1>5. f \in Frame /\ f.block = Top.block /\ f.node = x /\ f.has_node /\ f.quoted = q
  <2>1. Top \in Frame /\ q \in BOOLEAN
    BY <1>3, StackFacts
  <2> QED BY <1>2, <2>1, WithNodeFacts, Zenon
<1>6. /\ heap' = Emitted /\ stack' = WithTop(f) /\ pos' = pos + 1
      /\ tokens' = tokens /\ outcome' = "run"
  BY DEF SetNode, WithNode, x, q
<1> HIDE DEF f
<1>7. /\ Len(WithTop(f)) = Len(stack) /\ WithTop(f)[Len(stack)] = f
      /\ \A k \in 1 .. Len(stack) - 1 : WithTop(f)[k] = stack[k]
  BY <1>5, StackFacts, TopFacts DEF WithTop
<1>8. \A b \in 1 .. Len(heap) :
         /\ Emitted[b].depth = heap[b].depth
         /\ \A y : Held(Emitted, WithTop(f), b, y) <=>
               Held(heap, stack, b, y) \/ (b = Top.block /\ y = NodeOf(pos + 1))
  <2> DEFINE r == WithTop(f)
  <2>1. /\ Len(r) = Len(stack) /\ r[Len(stack)] = f /\ f.block = Top.block
        /\ \A k \in 1 .. Len(stack) - 1 : r[k] = stack[k]
    BY <1>5, <1>7
  <2> HIDE DEF r
  <2>2. \A b \in 1 .. Len(heap) :
           /\ Emitted[b].depth = heap[b].depth
           /\ \A y : Held(Emitted, r, b, y) <=>
                 Held(heap, stack, b, y) \/ (f.has_node /\ b = Top.block /\ y = f.node)
    BY <2>1, HeldNext
  <2> QED BY <1>4, <1>5, <2>2 DEF r
<1>9. Item(pos + 1)
  BY DEF Item
<1>10. Track(Emitted, WithTop(f), pos + 1)
  BY <1>3, <1>5, <1>8, <1>9, AtFacts, LeafTracks
<1> QED BY <1>6, <1>10, StillTracks

LEMMA QuoteTracks ==
    ASSUME PInv, Spaced, Track(heap, stack, pos), ParseQuote PROVE MInv'
<1> DEFINE f == [Top EXCEPT !.quoted = TRUE]
<1>1. outcome = "run" /\ pos < Len(tokens) /\ tokens[pos + 1].type = "quote"
  BY DEF ParseQuote, AtToken
<1>2. f = [block |-> Top.block, node |-> Top.node, has_node |-> Top.has_node, quoted |-> TRUE]
  <2>1. Top \in Frame
    BY <1>1, StackFacts
  <2> QED BY <2>1, FrameEdits
<1>3. f \in Frame /\ f.block = Top.block /\ f.node = Top.node /\ f.has_node = Top.has_node
      /\ f.quoted = TRUE
  <2> HIDE DEF f
  <2>1. f \in Frame
    BY <1>1, <1>2, StackFacts, FrameMade
  <2> QED BY <1>2, <2>1
<1>4. /\ heap' = heap /\ stack' = WithTop(f) /\ pos' = pos + 1
      /\ tokens' = tokens /\ outcome' = "run"
  BY <1>1 DEF ParseQuote
<1> HIDE DEF f
<1>5. /\ Len(WithTop(f)) = Len(stack) /\ WithTop(f)[Len(stack)] = f
      /\ \A k \in 1 .. Len(stack) - 1 : WithTop(f)[k] = stack[k]
  BY <1>1, <1>3, StackFacts, TopFacts DEF WithTop
<1>6. \A k \in 1 .. Len(stack) : /\ WithTop(f)[k].block = stack[k].block
                                 /\ WithTop(f)[k].node = stack[k].node
                                 /\ WithTop(f)[k].has_node = stack[k].has_node
  <2>1. \A k \in 1 .. Len(stack) : k = Len(stack) \/ k \in 1 .. Len(stack) - 1
    BY <1>1, StackFacts
  <2> QED BY <1>1, <1>3, <1>5, <2>1, StackFacts
<1>7. \A b, x : Held(heap, WithTop(f), b, x) <=> Held(heap, stack, b, x)
  BY <1>5, <1>6 DEF Held
<1>8. ~ Item(pos + 1)
  BY <1>1 DEF Item
<1>9. Track(heap, WithTop(f), pos + 1)
  BY <1>1, <1>3, <1>7, <1>8, LeafTracks
<1> QED BY <1>4, <1>9, StillTracks

LEMMA EnterTracks ==
    ASSUME PInv, Spaced, Track(heap, stack, pos), EnterBlock PROVE MInv'
<1> DEFINE x == [type |-> "block", src_idx |-> tokens[pos + 1].src_idx,
                 quoted |-> FALSE, block |-> 0, last |-> pos]
           f == [Top EXCEPT !.node = x, !.has_node = FALSE]
           e == NewFrame(Len(heap) + 1)
           y == [seq |-> <<>>, depth |-> heap[Top.block].depth + 1]
           v == [stack EXCEPT ![Len(stack)] = f]
           g == Append(Emitted, y)
           r == Append(v, e)
           N == Len(stack)
<1>1. outcome = "run" /\ pos < Len(tokens) /\ tokens[pos + 1].type = "open"
  BY DEF EnterBlock, AtToken
<1>2. tokens[pos + 1].src_idx \in Nat /\ pos \in Nat
  <2>1. tokens \in Seq(Token) /\ pos \in Nat /\ pos + 1 \in 1 .. Len(tokens)
    BY <1>1 DEF PInv
  <2>2. tokens[pos + 1] \in Token
    BY <2>1
  <2>3. \A u \in Token : u.src_idx \in Nat
    BY DEF Token
  <2> QED BY <2>1, <2>2, <2>3
<1>3. x \in Node /\ x.src_idx = tokens[pos + 1].src_idx /\ ~ x.quoted /\ x.last = pos
  BY <1>2 DEF Node
<1> HIDE DEF x
<1>4. f = [block |-> Top.block, node |-> x, has_node |-> FALSE, quoted |-> Top.quoted]
  <2>1. Top \in Frame
    BY <1>1, StackFacts
  <2>2. f = Opening(Top, x, FALSE)
    BY DEF Opening
  <2> HIDE DEF f
  <2> QED BY <2>1, <2>2, OpeningIs
<1>5. f \in Frame /\ f.block = Top.block /\ f.node = x /\ ~ f.has_node /\ f.quoted = Top.quoted
  <2> HIDE DEF f
  <2>1. f \in Frame
    BY <1>1, <1>3, <1>4, StackFacts, FrameMade
  <2> QED BY <1>4, <2>1
<1>6. Len(heap) \in Nat /\ Top.block \in 1 .. Len(heap)
      /\ heap[Top.block].depth \in Nat /\ heap[Top.block].depth = N - 1
  BY <1>1, StackFacts, Fields DEF PInv, Shape
<1>7. e \in Frame /\ e.block = Len(heap) + 1 /\ ~ e.has_node /\ ~ e.quoted
  BY <1>6 DEF NewFrame, Frame, Node
<1>8. y \in Block
  BY <1>6 DEF Block
<1>9. heap' = g /\ stack' = r /\ pos' = pos + 1 /\ tokens' = tokens /\ outcome' = "run"
  BY <1>1 DEF EnterBlock, WithTop, x
<1> HIDE DEF f, e
<1>10. /\ v \in Seq(Frame) /\ Len(v) = N /\ v[N] = f
       /\ \A k \in 1 .. N - 1 : v[k] = stack[k]
  BY <1>1, <1>5, StackFacts, TopFacts
<1> HIDE DEF v
<1>11. /\ Len(r) = N + 1 /\ r[N + 1] = e /\ \A k \in 1 .. N : r[k] = v[k]
  BY <1>7, <1>10
<1>12. /\ Len(g) = Len(heap) + 1 /\ g[Len(heap) + 1] = y
       /\ \A c \in 1 .. Len(heap) : g[c] = Emitted[c]
  <2> HIDE DEF y
  <2>1. Emitted \in Seq(Block) /\ Len(Emitted) = Len(heap)
    BY <1>1, ClearedFacts
  <2>2. g \in Seq(Block) /\ Len(g) = Len(Emitted) + 1 /\ g[Len(Emitted) + 1] = y
        /\ \A c \in 1 .. Len(Emitted) : g[c] = Emitted[c]
    BY <1>8, <2>1
  <2> HIDE DEF g
  <2> QED BY <2>1, <2>2
<1> HIDE DEF r, g
<1>13. /\ N \in Nat \ {0} /\ N \in Nat /\ N \in 1 .. N /\ Top = stack[N]
       /\ \A k \in 1 .. N : k = N \/ k \in 1 .. N - 1
       /\ \A k \in 1 .. N - 1 : k \in 1 .. N
       /\ N + 1 # 1 /\ (N + 1) - 1 = N
  BY <1>1, StackFacts
<1>14. /\ Nest(stack, pos) /\ Tree(heap, stack, pos) /\ Waits(stack) /\ ~ Top.quoted
       /\ pos + 1 \in 1 .. Len(tokens) /\ Here(pos + 1) = pos + 1
  BY <1>1, AtFacts
<1>15. \A k \in 1 .. N : r[k].block = stack[k].block
  BY <1>5, <1>10, <1>11, <1>13
<1>16. (\A k \in 1 .. N : Opener(r, k) = Opener(stack, k)) /\ Opener(r, N + 1) = pos + 1
  <2>1. \A k \in 1 .. N - 1 : r[k].node.last = stack[k].node.last
    BY <1>10, <1>11, <1>13
  <2>2. \A k \in 1 .. N : Opener(r, k) = Opener(stack, k)
    BY <1>13, <2>1, OpenersSame
  <2>3. r[N].node.last = pos
    BY <1>3, <1>5, <1>10, <1>11, <1>13
  <2> HIDE DEF N
  <2> QED BY <1>13, <2>2, <2>3 DEF Opener
<1>17. Len(heap) = BlockOf(pos) /\ BlockOf(pos + 1) = Len(heap) + 1
       /\ Level(pos) = N - 1
  <2>1. BlockOf(pos + 1) = BlockOf(pos) + 1 /\ Level(pos) \in Int
    BY <1>1, <1>2, BlocksOpened, LevelStep
  <2>2. Len(heap) = BlockOf(pos) /\ N = Level(pos) + 1
    BY <1>14 DEF Tree, Nest
  <2> QED BY <2>1, <2>2
<1>18. Nest(r, pos + 1)
  BY <1>1, <1>2, <1>7, <1>11, <1>13, <1>14, <1>15, <1>16, <1>17, NestCall
<1>26. Quiet(r)
  <2>1. \A k \in 1 .. N - 1 : ~ stack[k].has_node
    BY DEF PInv, Shape
  <2>2. N \in Nat /\ Len(r) = N + 1
    BY <1>11, <1>13
  <2> HIDE DEF N
  <2>3. \A k \in 1 .. Len(r) : k = N + 1 \/ k \in 1 .. N
    BY <2>2
  <2> QED BY <1>5, <1>7, <1>10, <1>11, <1>13, <2>1, <2>3 DEF Quiet
<1>19. \A b \in 1 .. Len(heap) :
          /\ g[b].depth = heap[b].depth
          /\ \A z : Held(g, r, b, z) <=> Held(heap, stack, b, z)
  <2>3. \A b, z : Held(g, r, b, z) <=> \E n \in 1 .. Len(g[b].seq) : g[b].seq[n] = z
    BY <1>26, QuietHeld
  <2>4. Quiet(Cleared)
    BY <1>1, ClearedFacts
  <2>5. \A b, z : Held(Emitted, Cleared, b, z)
                    <=> \E n \in 1 .. Len(Emitted[b].seq) : Emitted[b].seq[n] = z
    BY <2>4, QuietHeld
  <2>6. \A b \in 1 .. Len(heap) : /\ Emitted[b].depth = heap[b].depth
                                  /\ \A z : Held(Emitted, Cleared, b, z) <=> Held(heap, stack, b, z)
    BY <1>1, <2>4, ClearedEmission, EmitHeld
  <2> QED BY <1>12, <2>3, <2>5, <2>6
<1>20. \A z : ~ Held(g, r, Len(heap) + 1, z)
  <2>1. g[Len(heap) + 1].seq = <<>> /\ 1 .. Len(g[Len(heap) + 1].seq) = {}
    <3>1. y.seq = <<>>
      OBVIOUS
    <3>2. g[Len(heap) + 1].seq = <<>>
      BY <1>12, <3>1
    <3> QED BY <3>2
  <2>2. \A k \in 1 .. Len(r) : ~ r[k].has_node
    BY <1>26 DEF Quiet
  <2> QED BY <2>1, <2>2 DEF Held
<1>21. g[Len(heap) + 1].depth = Level(pos) + 1
  <2>1. y.depth = heap[Top.block].depth + 1
    OBVIOUS
  <2> HIDE DEF y
  <2> QED BY <1>6, <1>12, <1>17, <2>1
<1>22. Tree(g, r, pos + 1)
  BY <1>1, <1>2, <1>6, <1>11, <1>12, <1>13, <1>14, <1>16, <1>19, <1>20, <1>21, TreeCall
<1>23. Waits(r)
  <2> SUFFICES ASSUME NEW k \in 1 .. N
               PROVE  /\ r[k].node.src_idx = tokens[Opener(r, k + 1)].src_idx
                      /\ ~ r[k].node.quoted /\ ~ r[k].quoted
    BY <1>11, <1>13 DEF Waits
  <2>1. CASE k = N
    BY <1>3, <1>5, <1>10, <1>11, <1>13, <1>14, <1>16, <2>1
  <2>2. CASE k \in 1 .. N - 1
    <3>1. r[k] = stack[k] /\ k + 1 \in 1 .. N
      BY <1>10, <1>11, <1>13, <2>2
    <3> QED BY <1>14, <1>16, <2>2, <3>1 DEF Waits
  <2> QED BY <1>13, <2>1, <2>2
<1>24. Quotes(r, pos + 1)
  BY <1>1, <1>7, <1>11 DEF Quotes
<1>25. Track(g, r, pos + 1)
  BY <1>14, <1>18, <1>22, <1>23, <1>24 DEF Track
<1> QED BY <1>9, <1>25, StillTracks

(* A bracket is closed by the token that takes the level below its own.    *)
LEMMA ClosesAt ==
    ASSUME NEW o \in Nat, NEW k \in o + 1 .. Len(tokens), Len(tokens) \in Nat,
           Level(k) < Level(o), \A m \in o .. k - 1 : Level(m) >= Level(o)
    PROVE  ClosedBy(o) = k
<1> DEFINE P(n) == Level(n) < Level(o) /\ \A m \in o .. n - 1 : Level(m) >= Level(o)
<1>1. \A m \in Nat : Level(m) \in Int
  BY LevelStep
<1>2. ASSUME NEW n \in o + 1 .. Len(tokens), P(n) PROVE n = k
  <2>1. ~ (n < k)
    <3> SUFFICES ASSUME n < k PROVE FALSE
      OBVIOUS
    <3>1. n \in o .. k - 1 /\ n \in Nat
      OBVIOUS
    <3> QED BY <1>1, <1>2, <3>1
  <2>2. ~ (k < n)
    <3> SUFFICES ASSUME k < n PROVE FALSE
      OBVIOUS
    <3>1. k \in o .. n - 1 /\ k \in Nat
      OBVIOUS
    <3> QED BY <1>1, <1>2, <3>1
  <2> QED BY <2>1, <2>2
<1>3. P(k)
  OBVIOUS
<1>4. ClosedBy(o) = CHOOSE n \in o + 1 .. Len(tokens) : P(n)
  BY DEF ClosedBy
<1> HIDE DEF P
<1> QED BY <1>2, <1>3, <1>4

LEMMA LeaveTracks ==
    ASSUME PInv, Balanced, Spaced, Track(heap, stack, pos), LeaveBlock PROVE MInv'
<1> DEFINE N == Len(stack)  C == N - 1  B == Top.block
           r == Resumed(stack, B, pos)
           o == Opener(stack, N)
<1>1. outcome = "run" /\ pos < Len(tokens) /\ tokens[pos + 1].type = "close"
  BY DEF LeaveBlock, AtToken
<1>2. /\ pos \in Nat /\ Len(tokens) \in Nat /\ pos + 1 \in 1 .. Len(tokens)
      /\ Nest(stack, pos) /\ Tree(heap, stack, pos) /\ Waits(stack)
      /\ N \in Nat \ {0} /\ N \in 1 .. N /\ Top = stack[N] /\ ~ Top.quoted
      /\ Len(Emitted) = Len(heap)
  BY <1>1, AtFacts, StackFacts
<1>3. Level(pos) = N - 1 /\ Level(pos + 1) = N - 2
  <2>1. Level(pos) \in Int /\ Level(pos + 1) = Level(pos) - 1
    BY <1>1, <1>2, LevelStep
  <2>2. N = Level(pos) + 1
    BY <1>2 DEF Nest
  <2> QED BY <2>1, <2>2
<1>4. N > 1
  <2>1. Level(pos + 1) >= 0
    BY <1>2 DEF Balanced
  <2> QED BY <1>2, <1>3, <2>1
<1>5. /\ heap' = Emitted /\ stack' = r /\ pos' = pos + 2 /\ tokens' = tokens /\ outcome' = "run"
  <2>1. Return(pos + 1)
    BY DEF LeaveBlock
  <2>2. (pos + 1) - 1 = pos /\ (pos + 1) + 1 = pos + 2 /\ N # 1
    BY <1>2, <1>4
  <2>3. heap' = Emitted /\ stack' = Resumed(stack, B, (pos + 1) - 1) /\ pos' = (pos + 1) + 1
        /\ tokens' = tokens /\ outcome' = outcome
    BY <2>1, <2>2 DEF Return, Resumed
  <2> QED BY <1>1, <2>2, <2>3
<1>6. IsResumed(stack, r, B, pos, C)
  <2>1. B \in Nat /\ stack \in Seq(Frame)
    BY <1>1, StackFacts
  <2> QED BY <1>2, <1>4, <2>1, CallerFacts
<1> HIDE DEF r
<1>7. /\ C \in Nat /\ C \in 1 .. C /\ C \in 1 .. N /\ C \in 1 .. N - 1 /\ C + 1 = N /\ Len(r) = C
      /\ \A k \in 1 .. C : k \in 1 .. N /\ (k = C \/ k \in 1 .. C - 1)
      /\ \A k \in 1 .. C - 1 : k \in 1 .. N /\ k \in 1 .. N - 1 /\ k + 1 \in 1 .. C
  BY <1>2, <1>4, <1>6 DEF IsResumed
<1>8. \A k \in 1 .. C : r[k].block = stack[k].block
  BY <1>6, <1>7 DEF IsResumed
<1>9. \A k \in 1 .. C : Opener(r, k) = Opener(stack, k)
  <2>1. \A k \in 1 .. C - 1 : r[k].node.last = stack[k].node.last
    BY <1>6 DEF IsResumed
  <2> QED BY <1>7, <2>1, OpenersSame
<1>10. o \in OpenedBy(pos) /\ B = BlockOf(o) /\ Level(o) = N - 1
       /\ \A x \in o .. pos : Level(x) >= N - 1
  BY <1>2 DEF Nest
<1>11. o \in 1 .. pos /\ tokens[o].type = "open"
  <2>1. Opener(stack, C) < Opener(stack, C + 1)
    BY <1>2, <1>7, CallPlace
  <2>2. Opener(stack, C) \in OpenedBy(pos)
    BY <1>2, <1>7 DEF Nest
  <2>3. Opener(stack, C) \in Nat
    BY <2>2 DEF OpenedBy
  <2>4. o # 0
    <3>1. Opener(stack, C + 1) = o /\ o \in Nat
      <4>1. o \in Nat
        BY <1>10 DEF OpenedBy
      <4>2. C + 1 = N
        BY <1>7
      <4> HIDE DEF C, N
      <4>3. Opener(stack, C + 1) = Opener(stack, N)
        BY <4>2
      <4> QED BY <4>1, <4>3
    <3> DEFINE c == Opener(stack, C)
    <3>2. c \in Nat /\ c < o
      BY <2>1, <2>3, <3>1
    <3> HIDE DEF c, o
    <3> QED BY <3>1, <3>2
  <2> QED BY <1>10, <2>4 DEF OpenedBy
<1>12. ClosedBy(o) = pos + 1
  <2>1. o \in Nat /\ pos + 1 \in o + 1 .. Len(tokens) /\ (pos + 1) - 1 = pos
    BY <1>2, <1>11
  <2>2. Level(pos + 1) < Level(o)
    BY <1>2, <1>3, <1>10
  <2>3. \A m \in o .. (pos + 1) - 1 : Level(m) >= Level(o)
    BY <1>10, <2>1
  <2> QED BY <1>2, <2>1, <2>2, <2>3, ClosesAt
<1>13. r[C].node = NodeOf(o)
  <2>1. NodeOf(o) = [type |-> "block", src_idx |-> tokens[o].src_idx, quoted |-> FALSE,
                     block |-> B, last |-> pos]
    <3>1. (pos + 1) - 1 = pos
      BY <1>2
    <3>2. NodeOf(o) = [type |-> "block", src_idx |-> tokens[o].src_idx, quoted |-> FALSE,
                       block |-> 1 + Count("open", o), last |-> ClosedBy(o) - 1]
      BY <1>11 DEF NodeOf
    <3> QED BY <1>10, <1>12, <3>1, <3>2 DEF BlockOf
  <2>2. /\ r[C].node.type = "block" /\ r[C].node.src_idx = tokens[o].src_idx
        /\ r[C].node.quoted = FALSE /\ r[C].node.block = B /\ r[C].node.last = pos
    <3>1. stack[C].node.type = "block"
      BY <1>7 DEF PInv, Shape
    <3>2. stack[C].node.src_idx = tokens[o].src_idx /\ ~ stack[C].node.quoted
      BY <1>2, <1>7 DEF Waits
    <3>3. stack[C].node.quoted \in BOOLEAN
      <4>1. stack[C].node \in Node
        BY <1>7, Fields DEF PInv
      <4> QED BY <4>1 DEF Node
    <3> QED BY <1>6, <3>1, <3>2, <3>3 DEF IsResumed
  <2>3. r[C].node \in Node
    <3>1. r[C] \in Frame
      BY <1>6, <1>7 DEF IsResumed
    <3> QED BY <3>1 DEF Frame
  <2>4. \A x \in Node : x = [type |-> x.type, src_idx |-> x.src_idx, quoted |-> x.quoted,
                             block |-> x.block, last |-> x.last]
    BY DEF Node
  <2> QED BY <2>1, <2>2, <2>3, <2>4
<1>14. \A b \in 1 .. Len(heap) :
          /\ Emitted[b].depth = heap[b].depth
          /\ \A x : Held(Emitted, r, b, x) <=>
                Held(heap, stack, b, x) \/ (b = stack[N - 1].block /\ x = NodeOf(o))
  <2>1. Quiet(Cleared)
    BY <1>1, ClearedFacts
  <2>2. \A b \in 1 .. Len(heap) : /\ Emitted[b].depth = heap[b].depth
                                  /\ \A x : Held(Emitted, Cleared, b, x) <=> Held(heap, stack, b, x)
    BY <1>1, <2>1, ClearedEmission, EmitHeld
  <2>3. \A b, x : Held(Emitted, Cleared, b, x)
                    <=> \E n \in 1 .. Len(Emitted[b].seq) : Emitted[b].seq[n] = x
    BY <2>1, QuietHeld
  <2>4. /\ r[C].has_node /\ r[C].block = stack[C].block
        /\ \A k \in 1 .. C - 1 : ~ r[k].has_node
    <3>1. \A k \in 1 .. C - 1 : ~ stack[k].has_node
      BY <1>7 DEF PInv, Shape
    <3> QED BY <1>6, <3>1 DEF IsResumed
  <2>5. \A b, x : Held(Emitted, r, b, x)
                    <=> \/ \E n \in 1 .. Len(Emitted[b].seq) : Emitted[b].seq[n] = x
                        \/ b = stack[C].block /\ x = NodeOf(o)
    <3> HIDE DEF C, o
    <3> QED BY <1>7, <1>13, <2>4 DEF Held
  <2> QED BY <2>2, <2>3, <2>5
<1>15. Nest(r, pos + 1)
  BY <1>1, <1>2, <1>4, <1>7, <1>8, <1>9, NestReturn
<1>16. Tree(Emitted, r, pos + 1)
  BY <1>1, <1>2, <1>4, <1>7, <1>9, <1>14, TreeReturn
<1>17. Waits(r)
  <2> SUFFICES ASSUME NEW k \in 1 .. C - 1
               PROVE  /\ r[k].node.src_idx = tokens[Opener(r, k + 1)].src_idx
                      /\ ~ r[k].node.quoted /\ ~ r[k].quoted
    BY <1>7 DEF Waits
  <2>1. r[k] = stack[k] /\ k \in 1 .. N - 1 /\ Opener(r, k + 1) = Opener(stack, k + 1)
    BY <1>6, <1>7, <1>9 DEF IsResumed
  <2> QED BY <1>2, <2>1 DEF Waits
<1>18. ~ r[C].quoted
  BY <1>2, <1>6, <1>7 DEF Waits, IsResumed
<1>19. CASE pos + 2 \in 1 .. Len(tokens)
  <2>1. tokens[pos + 2].type = "ws" /\ pos + 2 = (pos + 1) + 1 /\ pos + 1 \in Nat
        /\ Here(pos + 2) = pos + 2
    <3>1. pos + 1 \in 1 .. Len(tokens) - 1 /\ (pos + 1) + 1 = pos + 2
      BY <1>2, <1>19
    <3> QED BY <1>1, <1>2, <1>19, <3>1 DEF Spaced, Here
  <2>2. Len(r) \in Nat /\ Len(Emitted) = Len(Emitted)
    BY <1>7
  <2>3. Nest(r, pos + 2)
    BY <1>15, <2>1, <2>2, NestOn
  <2>4. Tree(Emitted, r, pos + 2)
    <3>1. ~ Item(pos + 2)
      BY <2>1 DEF Item
    <3> QED BY <1>15, <1>16, <2>1, <2>2, <3>1, TreeOn
  <2>5. Quotes(r, pos + 2)
    BY <1>7, <1>18, <2>1 DEF Quotes
  <2>6. Track(Emitted, r, pos + 2)
    BY <1>17, <2>1, <2>3, <2>4, <2>5 DEF Track
  <2> QED BY <1>5, <2>6, StillTracks
<1>20. CASE pos + 2 \notin 1 .. Len(tokens)
  <2>1. Here(pos + 2) = pos + 1
    BY <1>2, <1>20 DEF Here
  <2>2. Quotes(r, pos + 2)
    BY <1>7, <1>18, <1>20 DEF Quotes
  <2>3. Track(Emitted, r, pos + 2)
    BY <1>15, <1>16, <1>17, <2>1, <2>2 DEF Track
  <2> QED BY <1>5, <2>3, StillTracks
<1> QED BY <1>19, <1>20

LEMMA EndTracks ==
    ASSUME PInv, Balanced, Track(heap, stack, pos), EndOfTokens PROVE MInv'
<1>1. outcome = "run" /\ pos >= Len(tokens) /\ Return(pos)
      /\ pos \in Nat /\ Len(tokens) \in Nat
  BY DEF EndOfTokens, PInv
<1>2. Here(pos) = Len(tokens)
  BY <1>1 DEF Here
<1>3. Nest(stack, Len(tokens)) /\ Tree(heap, stack, Len(tokens))
  BY <1>2 DEF Track
<1>4. Len(stack) = 1
  BY <1>3 DEF Nest, Balanced
<1>5. heap' = Emitted /\ stack' = <<>> /\ outcome' = "ok" /\ tokens' = tokens
  BY <1>1, <1>4 DEF Return
<1>6. \A b \in 1 .. Len(heap) :
         /\ Emitted[b].depth = heap[b].depth
         /\ \A x : Held(Emitted, <<>>, b, x) <=> Held(heap, stack, b, x)
  <2>1. Quiet(Cleared) /\ Quiet(<<>>)
    BY <1>1, ClearedFacts DEF Quiet
  <2>2. \A b \in 1 .. Len(heap) : /\ Emitted[b].depth = heap[b].depth
                                  /\ \A x : Held(Emitted, Cleared, b, x) <=> Held(heap, stack, b, x)
    BY <1>1, <2>1, ClearedEmission, EmitHeld
  <2>3. \A b, x : Held(Emitted, Cleared, b, x) <=> Held(Emitted, <<>>, b, x)
    BY <2>1, QuietHeld
  <2> QED BY <2>2, <2>3
<1>7. Tree(Emitted, <<>>, Len(tokens))
  <2> DEFINE q == Len(tokens)
  <2>1. \A j, k : Inside(<<>>, j, q, k) <=> Inside(stack, j, q, k)
    <3>1. 2 .. Len(stack) = {} /\ 2 .. Len(<<>>) = {}
      BY <1>4
    <3> QED BY <3>1 DEF Inside
  <2>2. \A j \in OpenedBy(q) : BlockOf(j) \in 1 .. Len(heap)
    BY <1>1, <1>3, BlocksOpened DEF Tree
  <2>3. Len(Emitted) = Len(heap)
    BY <1>1, ClearedFacts
  <2> QED BY <1>3, <1>6, <2>1, <2>2, <2>3 DEF Tree
<1>8. Tree(heap, stack, Len(tokens))'
  <2>1. \A h, s, q : Tree(h, s, q)' <=> Tree(h, s, q)
    BY <1>5, TokensStay
  <2> QED BY <1>5, <1>7, <2>1
<1> QED BY <1>5, <1>8 DEF MInv

LEMMA MInvInit == Init => MInv
<1> SUFFICES ASSUME Init PROVE MInv
  OBVIOUS
<1> DEFINE f == NewFrame(1)
           y == [seq |-> <<>>, depth |-> 0]
<1>1. /\ tokens \in Seq(Token) /\ pos = 0 /\ outcome = "run" /\ stack = <<f>> /\ heap = <<y>>
  BY TokenStreamsAssumption DEF Init
<1>2. f.block = 1 /\ ~ f.has_node /\ ~ f.quoted
  BY DEF NewFrame
<1>3. y.depth = 0 /\ y.seq = <<>> /\ 1 .. Len(y.seq) = {}
  OBVIOUS
<1> HIDE DEF f, y
<1>4. /\ Len(stack) = 1 /\ stack[1] = f /\ Len(heap) = 1 /\ heap[1] = y /\ Len(tokens) \in Nat
      /\ 1 .. Len(stack) = {1} /\ 1 .. Len(stack) - 1 = {}
  BY <1>1
<1>5. Level(0) = 0 /\ OpenedBy(0) = {0} /\ BlockOf(0) = 1 /\ Here(0) = 0
  BY <1>4, CountNone, BlocksOpened DEF Level, Here
<1>6. Nest(stack, 0)
  BY <1>2, <1>4, <1>5 DEF Nest, Opener
<1>7. Tree(heap, stack, 0)
  <2>1. \A j, k : ~ Inside(stack, j, 0, k)
    BY DEF Inside
  <2>2. \A x : ~ Held(heap, stack, 1, x)
    BY <1>2, <1>3, <1>4 DEF Held
  <2> QED BY <1>3, <1>4, <1>5, <2>1, <2>2 DEF Tree
<1>8. Waits(stack) /\ Quotes(stack, 0)
  BY <1>2, <1>4 DEF Waits, Quotes
<1> QED BY <1>1, <1>5, <1>6, <1>7, <1>8 DEF MInv, Track

LEMMA MInvStep == PInv /\ MInv /\ [Next]_vars => MInv'
<1> SUFFICES ASSUME PInv, MInv, [Next]_vars PROVE MInv'
  OBVIOUS
<1>t. tokens' = tokens
  BY DEF Next, vars, ParseWhitespace, ParseQuote, ParseWord, ParseNumber, SetNode, RejectNumber,
         EnterBlock, LeaveBlock, EndOfTokens, Return, Returned
<1>1. CASE ~ (Balanced /\ Spaced)
  <2>1. ~ (Balanced /\ Spaced)'
    BY <1>t, <1>1, TokensStay
  <2> QED BY <2>1 DEF MInv
<1>2. CASE Balanced /\ Spaced
  <2>1. outcome = "run" => Track(heap, stack, pos)
    BY <1>2 DEF MInv
  <2>2. CASE ParseWhitespace
    BY <1>2, <2>1, <2>2, WhitespaceTracks DEF ParseWhitespace, AtToken
  <2>3. CASE ParseQuote
    BY <1>2, <2>1, <2>3, QuoteTracks DEF ParseQuote, AtToken
  <2>4. CASE ParseWord
    <3>1. /\ outcome = "run" /\ pos < Len(tokens) /\ SetNode("word", Top.quoted)
          /\ tokens[pos + 1].type = "word"
      BY <2>4 DEF ParseWord, AtToken
    <3>2. Top.quoted \in BOOLEAN
      BY <3>1, StackFacts
    <3>3. Top.quoted = ("word" = "word" /\ Top.quoted)
      BY <3>2
    <3> QED BY <1>2, <2>1, <3>1, <3>2, <3>3, SetNodeTracks
  <2>5. CASE ParseNumber
    <3>1. /\ outcome = "run" /\ pos < Len(tokens) /\ SetNode("number", FALSE)
          /\ tokens[pos + 1].type = "number"
      BY <2>5 DEF ParseNumber, AtToken
    <3>2. FALSE = ("number" = "word" /\ Top.quoted)
      OBVIOUS
    <3> QED BY <1>2, <2>1, <3>1, <3>2, SetNodeTracks
  <2>6. CASE RejectNumber
    BY <2>6 DEF RejectNumber, MInv
  <2>7. CASE EnterBlock
    BY <1>2, <2>1, <2>7, EnterTracks DEF EnterBlock, AtToken
  <2>8. CASE LeaveBlock
    BY <1>2, <2>1, <2>8, LeaveTracks DEF LeaveBlock, AtToken
  <2>9. CASE EndOfTokens
    BY <1>2, <2>1, <2>9, EndTracks DEF EndOfTokens
  <2>10. CASE UNCHANGED vars
    <3>1. heap' = heap /\ stack' = stack /\ pos' = pos /\ outcome' = outcome
      BY <2>10 DEF vars
    <3>2. (\A h, s, p : Track(h, s, p)' <=> Track(h, s, p))
          /\ (\A h, s, q : Tree(h, s, q)' <=> Tree(h, s, q))
      BY <1>t, TokensStay
    <3>3. outcome = "ok" => Tree(heap, stack, Len(tokens))
      BY <1>2 DEF MInv
    <3> QED BY <1>t, <2>1, <3>1, <3>2, <3>3 DEF MInv
  <2> QED BY <2>2, <2>3, <2>4, <2>5, <2>6, <2>7, <2>8, <2>9, <2>10 DEF Next, Returned
<1> QED BY <1>1, <1>2

(* The nodes of a finished tree.                                           *)
LEMMA TreeMirrors ==
    ASSUME PInv, outcome = "ok", Tree(heap, stack, Len(tokens))
    PROVE  Len(heap) = Cardinality(Opened) /\ \A j \in Opened : Mirrors(j)
<1> DEFINE q == Len(tokens)
<1>1. q \in Nat /\ stack = <<>> /\ 1 .. Len(stack) = {} /\ 2 .. Len(stack) = {} /\ Sorted(heap)
  BY DEF PInv, Order
<1>2. Opened = OpenedBy(q)
  BY DEF Opened, OpenedBy
<1>3. Len(heap) = Cardinality(Opened)
  BY <1>1, <1>2, OpenedCount DEF Tree
<1>4. ASSUME NEW j \in Opened PROVE Mirrors(j)
  <2> DEFINE b == BlockOf(j)
  <2>1. b \in 1 .. Len(heap) /\ heap[b].depth = Level(j)
        /\ \A x : Held(heap, stack, b, x) <=> \E k : Inside(stack, j, q, k) /\ x = NodeOf(k)
    BY <1>1, <1>2, BlocksOpened DEF Tree
  <2>2. \A x : Held(heap, stack, b, x) <=> \E n \in 1 .. Len(heap[b].seq) : heap[b].seq[n] = x
    BY <1>1 DEF Held
  <2>3. \A k : Inside(stack, j, q, k) <=> k \in Children(j)
    BY <1>1 DEF Inside, Children, Item
  <2>4. {heap[b].seq[n] : n \in 1 .. Len(heap[b].seq)} = {NodeOf(k) : k \in Children(j)}
    BY <2>1, <2>2, <2>3
  <2>5. \A m, n \in 1 .. Len(heap[b].seq) : m < n => heap[b].seq[m].src_idx < heap[b].seq[n].src_idx
    BY <1>1, <2>1 DEF Sorted
  <2> QED BY <2>1, <2>4, <2>5 DEF Mirrors, BlockOf
<1> QED BY <1>3, <1>4

LEMMA Mirrored == PInv /\ MInv => SpacedParseMirrorsSource
BY TreeMirrors DEF MInv, SpacedParseMirrorsSource, ParseMirrorsSource

(* Whatever the nesting and the length of a source that spaces its         *)
(* brackets and quotes words only, parse_tokens() returns the tree that    *)
(* the source describes: a node for each word, number and bracket pair, in *)
(* the block of the bracket that encloses it, quoted where the source is.  *)
THEOREM MirrorsProved == Spec => []SpacedParseMirrorsSource
<1>1. Spec => [](PInv /\ MInv)
  BY PInvInit, PInvStep, MInvInit, MInvStep, PTL DEF Spec
<1> QED BY <1>1, Mirrored, PTL

-----------------------------------------------------------------------------
(* Which tokens a block is made of, for what is said of the tree in terms  *)
(* of them: its items, one after the other, with blanks and quotes between. *)
Visible(k) == tokens[k].type \notin {"ws", "quote"}

EndOfItem(k) == IF tokens[k].type = "open" THEN ClosedBy(k) ELSE k
EndOfBlock(j) == IF j = 0 THEN Len(tokens) + 1 ELSE ClosedBy(j)

(* At the level of the innermost bracket still open.                       *)
LEMMA InnermostLevel ==
    ASSUME NEW j \in Nat, NEW k \in Nat, Innermost(j, k)
    PROVE  Level(k - 1) = Level(j)
<1>1. j < k /\ k - 1 \in Nat /\ k - 1 \in j .. k - 1
  BY DEF Innermost, Encloses
<1>2. \A n \in Nat : Level(n) \in Int
  BY LevelStep
<1>3. \A m \in j .. k - 1 : Level(m) >= Level(j)
  BY DEF Innermost, Encloses
<1>4. ASSUME Level(k - 1) > Level(j) PROVE FALSE
  <2> DEFINE T == {n \in Nat : n <= k - 1 - j /\ Level(k - 1 - n) < Level(k - 1)}
  <2>1. k - 1 - j \in Nat /\ k - 1 - (k - 1 - j) = j
    BY <1>1
  <2>2. k - 1 - j \in T
    BY <1>4, <2>1
  <2>3. PICK n \in T : \A m \in T : n <= m
    BY <2>2, NatLeast
  <2>4. n \in Nat /\ n <= k - 1 - j /\ Level(k - 1 - n) < Level(k - 1)
    OBVIOUS
  <2>5. \A x \in k - n .. k - 1 : Level(x) >= Level(k - 1)
    <3> SUFFICES ASSUME NEW x \in k - n .. k - 1, Level(x) < Level(k - 1) PROVE FALSE
      BY <1>1, <1>2, <2>4
    <3>1. k - 1 - x \in Nat /\ k - 1 - x < n /\ k - 1 - (k - 1 - x) = x
      BY <1>1, <2>4
    <3>2. k - 1 - x \in T
      BY <2>4, <3>1
    <3> QED BY <2>3, <2>4, <3>1, <3>2
  <2> HIDE DEF T
  <2>6. n # 0
    BY <1>2, <1>1, <2>4
  <2>7. PICK m \in Nat : m = k - n
    BY <1>1, <2>4
  <2>8. m - 1 \in Nat /\ (m - 1) + 1 = m /\ m - 1 = k - 1 - n /\ m \in k - n .. k - 1 /\ m \in j + 1 .. k - 1
    BY <1>1, <2>4, <2>6, <2>7
  <2>9. Level(m) >= Level(k - 1) /\ Level(m - 1) < Level(k - 1)
    BY <2>4, <2>5, <2>8
  <2>10. tokens[m].type = "open" /\ Level(m) = Level(m - 1) + 1
    BY <1>1, <1>2, <2>8, <2>9, LevelStep
  <2>11. Level(m) = Level(k - 1)
    BY <1>1, <1>2, <2>8, <2>9, <2>10
  <2>12. Encloses(m, k)
    BY <1>1, <2>5, <2>7, <2>8, <2>10, <2>11 DEF Encloses
  <2> QED BY <2>8, <2>12 DEF Innermost
<1> QED BY <1>1, <1>2, <1>3, <1>4

(* Where a bracket is closed.                                              *)
LEMMA ClosedByFacts ==
    ASSUME Balanced, Len(tokens) \in Nat, NEW k \in 1 .. Len(tokens), tokens[k].type = "open"
    PROVE  /\ ClosedBy(k) \in k + 1 .. Len(tokens) /\ tokens[ClosedBy(k)].type = "close"
           /\ Level(ClosedBy(k)) = Level(k) - 1
           /\ \A m \in k .. ClosedBy(k) - 1 : Level(m) >= Level(k)
<1>1. k \in Nat /\ k - 1 \in Nat /\ (k - 1) + 1 = k
  OBVIOUS
<1>2. \A n \in Nat : Level(n) \in Int
  BY LevelStep
<1>3. Level(k) >= 1
  <2>1. Level(k) = Level(k - 1) + 1
    BY <1>1, LevelStep
  <2>2. Level(k - 1) >= 0
    <3>1. CASE k = 1
      BY <3>1, CountNone DEF Level
    <3>2. CASE k > 1
      BY <1>1, <3>2 DEF Balanced
    <3> QED BY <3>1, <3>2
  <2> QED BY <1>1, <1>2, <2>1, <2>2
<1> DEFINE T == {n \in Nat : n \in k + 1 .. Len(tokens) /\ Level(n) < Level(k)}
<1>4. Len(tokens) \in T
  <2>1. Level(Len(tokens)) = 0
    BY DEF Balanced
  <2>2. k # Len(tokens)
    BY <1>3, <2>1
  <2> QED BY <1>2, <1>3, <2>1, <2>2
<1>5. PICK n \in T : \A m \in T : n <= m
  BY <1>4, NatLeast
<1>6. n \in k + 1 .. Len(tokens) /\ n \in Nat /\ Level(n) < Level(k)
  OBVIOUS
<1>7. \A m \in k .. n - 1 : Level(m) >= Level(k)
  <2> SUFFICES ASSUME NEW m \in k .. n - 1, Level(m) < Level(k) PROVE FALSE
    BY <1>2, <1>6
  <2>1. m # k /\ m \in Nat /\ m \in k + 1 .. Len(tokens) /\ m < n
    BY <1>2, <1>6
  <2>2. m \in T
    BY <2>1
  <2> QED BY <1>5, <1>6, <2>1, <2>2
<1> HIDE DEF T
<1>8. ClosedBy(k) = n
  BY <1>6, <1>7, ClosesAt
<1>9. n - 1 \in Nat /\ (n - 1) + 1 = n /\ n - 1 \in k .. n - 1
  BY <1>6
<1>10. Level(n - 1) >= Level(k)
  BY <1>7, <1>9
<1>11. tokens[n].type = "close" /\ Level(n) = Level(n - 1) - 1
  BY <1>2, <1>6, <1>9, <1>10, LevelStep
<1>12. Level(n) = Level(k) - 1
  BY <1>2, <1>6, <1>9, <1>10, <1>11
<1> QED BY <1>6, <1>7, <1>8, <1>11, <1>12

(* An item ends where it began, in its block.                              *)
LEMMA ItemEnds ==
    ASSUME Balanced, Len(tokens) \in Nat, NEW j \in Opened, NEW k \in Children(j)
    PROVE  /\ j \in Nat /\ j < k /\ k \in 1 .. Len(tokens)
           /\ EndOfItem(k) \in k .. Len(tokens) /\ EndOfItem(k) < EndOfBlock(j)
           /\ EndOfBlock(j) \in Nat
           /\ Level(k - 1) = Level(j) /\ Level(EndOfItem(k)) = Level(j)
           /\ \A x \in j .. EndOfItem(k) : Level(x) >= Level(j)
           /\ Visible(EndOfItem(k)) /\ tokens[EndOfItem(k)].type # "open"
<1> DEFINE e == EndOfItem(k)
<1>1. /\ j \in Nat /\ k \in Nat /\ k \in 1 .. Len(tokens) /\ Innermost(j, k)
      /\ tokens[k].type \in {"word", "number", "open"}
      /\ j # 0 => j \in 1 .. Len(tokens) /\ tokens[j].type = "open"
  BY DEF Opened, Children
<1>2. j < k /\ k - 1 \in Nat /\ (k - 1) + 1 = k /\ k - 1 \in j .. k - 1
  BY <1>1 DEF Innermost, Encloses
<1>3. \A n \in Nat : Level(n) \in Int
  BY LevelStep
<1>4. Level(k - 1) = Level(j) /\ \A x \in j .. k - 1 : Level(x) >= Level(j)
  BY <1>1, InnermostLevel DEF Innermost, Encloses
<1>5. /\ e \in k .. Len(tokens) /\ Level(e) = Level(j)
      /\ \A x \in j .. e : Level(x) >= Level(j)
      /\ Visible(e) /\ tokens[e].type # "open"
  <2>1. CASE tokens[k].type # "open"
    <3>1. e = k /\ Level(k) = Level(k - 1)
      BY <1>1, <1>2, <2>1, LevelStep DEF EndOfItem
    <3>2. \A x \in j .. k : x \in j .. k - 1 \/ x = k
      BY <1>1, <1>2
    <3> QED BY <1>1, <1>2, <1>3, <1>4, <2>1, <3>1, <3>2 DEF Visible
  <2>2. CASE tokens[k].type = "open"
    <3>1. Level(k) = Level(j) + 1
      BY <1>2, <1>4, <2>2, LevelStep
    <3>2. /\ e \in k + 1 .. Len(tokens) /\ tokens[e].type = "close" /\ Level(e) = Level(k) - 1
          /\ \A m \in k .. e - 1 : Level(m) >= Level(k)
      BY <1>1, <2>2, ClosedByFacts DEF EndOfItem
    <3>3. Level(e) = Level(j) /\ Level(j) \in Int
      BY <1>1, <1>3, <3>1, <3>2
    <3>4. \A x \in j .. e : x \in j .. k - 1 \/ x \in k .. e - 1 \/ x = e
      BY <1>1, <1>2, <3>2
    <3>5. ASSUME NEW x \in j .. e PROVE Level(x) >= Level(j)
      <4>1. x \in Nat /\ Level(x) \in Int
        BY <1>1, <1>3, <3>2
      <4>2. CASE x \in j .. k - 1
        BY <1>4, <4>2
      <4>3. CASE x \in k .. e - 1
        <5>1. Level(x) >= Level(k)
          BY <3>2, <4>3
        <5> QED BY <3>1, <3>3, <4>1, <5>1
      <4>4. CASE x = e
        BY <3>3, <4>4
      <4> QED BY <3>4, <4>2, <4>3, <4>4
    <3>6. e \in k .. Len(tokens)
      BY <1>1, <3>2
    <3>7. Visible(e) /\ tokens[e].type # "open"
      BY <3>2 DEF Visible
    <3> HIDE DEF e
    <3> QED BY <3>3, <3>5, <3>6, <3>7
  <2> QED BY <2>1, <2>2
<1> HIDE DEF e
<1>6. e < EndOfBlock(j) /\ EndOfBlock(j) \in Nat
  <2>1. CASE j = 0
    BY <1>5, <2>1 DEF EndOfBlock
  <2>2. CASE j # 0
    <3>1. /\ EndOfBlock(j) \in j + 1 .. Len(tokens)
          /\ Level(EndOfBlock(j)) = Level(j) - 1
      BY <1>1, <2>2, ClosedByFacts DEF EndOfBlock
    <3>2. ASSUME EndOfBlock(j) <= e PROVE FALSE
      <4>1. EndOfBlock(j) \in j .. e
        BY <1>1, <1>5, <3>1, <3>2
      <4> QED BY <1>1, <1>3, <1>5, <3>1, <4>1
    <3> QED BY <1>1, <1>5, <3>1, <3>2
  <2> QED BY <2>1, <2>2
<1> QED BY <1>1, <1>2, <1>4, <1>5, <1>6 DEF e

(* Between two items, and before the first and behind the last of a block, *)
(* there are blanks and quotes only.                                       *)
LEMMA GapInvisible ==
    ASSUME Balanced, tokens \in Seq(Token), NEW j \in Opened,
           NEW p \in Nat, j <= p, Level(p) = Level(j), \A x \in j .. p : Level(x) >= Level(j),
           NEW q \in Nat, q <= Len(tokens), q < EndOfBlock(j),
           \A k \in p + 1 .. q : k \notin Children(j)
    PROVE  \A m \in p + 1 .. q : ~ Visible(m)
<1>1. /\ j \in Nat /\ Len(tokens) \in Nat
      /\ j # 0 => j \in 1 .. Len(tokens) /\ tokens[j].type = "open"
  BY DEF Opened
<1>2. \A n \in Nat : Level(n) \in Int
  BY LevelStep
<1> SUFFICES ASSUME \E m \in p + 1 .. q : Visible(m) PROVE FALSE
  OBVIOUS
<1> DEFINE T == {n \in Nat : n \in p + 1 .. q /\ Visible(n)}
<1>3. T # {}
  OBVIOUS
<1>4. PICK m \in T : \A n \in T : m <= n
  <2> HIDE DEF T
  <2> QED BY <1>3, NatLeast DEF T
<1>5. m \in Nat /\ m \in p + 1 .. q /\ Visible(m) /\ m - 1 \in Nat /\ (m - 1) + 1 = m
  OBVIOUS
<1>6. ASSUME NEW x \in p + 1 .. m - 1 PROVE ~ Visible(x)
  <2>1. x \in Nat /\ x \in p + 1 .. q /\ x < m
    BY <1>5
  <2> QED BY <1>4, <1>5, <2>1
<1> HIDE DEF T
<1>7. ASSUME NEW x \in p .. m - 1 PROVE Level(x) = Level(p)
  <2> DEFINE D == {n \in Nat : n \in p .. m - 1 /\ Level(n) # Level(p)}
  <2> SUFFICES ASSUME D # {} PROVE FALSE
    BY <1>5
  <2>1. PICK n \in D : \A y \in D : n <= y
    BY NatLeast
  <2>2. n \in Nat /\ n \in p .. m - 1 /\ Level(n) # Level(p)
    OBVIOUS
  <2>3. n # p /\ n - 1 \in Nat /\ (n - 1) + 1 = n /\ n - 1 \in p .. m - 1 /\ n - 1 < n /\ n \in p + 1 .. m - 1
    BY <1>5, <2>2
  <2>4. Level(n - 1) = Level(p)
    <3>1. n - 1 \notin D
      BY <2>1, <2>2, <2>3
    <3> QED BY <2>3, <3>1
  <2> HIDE DEF D
  <2>5. tokens[n].type \notin {"open", "close"}
    BY <1>6, <2>3 DEF Visible
  <2> QED BY <2>2, <2>3, <2>4, <2>5, LevelStep
<1>8. Level(m - 1) = Level(j)
  BY <1>5, <1>7
<1>9. \A x \in j .. m - 1 : Level(x) >= Level(j)
  <2>1. \A x \in j .. m - 1 : x \in j .. p \/ x \in p .. m - 1
    BY <1>1, <1>5
  <2> QED BY <1>1, <1>2, <1>7, <2>1
<1>10. m \in 1 .. Len(tokens) /\ j < m
  BY <1>1, <1>5
<1>11. tokens[m].type \in TokenType
  <2>1. tokens[m] \in Token
    BY <1>10
  <2> QED BY <2>1 DEF Token
<1>12. CASE tokens[m].type \in {"word", "number", "open"}
  <2>1. Innermost(j, m)
    BY <1>1, <1>5, <1>8, <1>9, <1>10, InnermostAt
  <2> QED BY <1>5, <1>10, <1>12, <2>1 DEF Children
<1>13. CASE tokens[m].type = "close"
  <2>1. Level(m) = Level(j) - 1 /\ Level(j) \in Int
    BY <1>1, <1>2, <1>5, <1>8, <1>13, LevelStep
  <2>2. CASE j = 0
    <3>1. Level(m) >= 0 /\ Level(0) = 0
      BY <1>10, CountNone DEF Balanced, Level
    <3> QED BY <2>1, <2>2, <3>1
  <2>3. CASE j # 0
    <3>1. \A x \in j .. ClosedBy(j) - 1 : Level(x) >= Level(j)
      BY <1>1, <2>3, ClosedByFacts
    <3>2. ClosedBy(j) \in j + 1 .. Len(tokens)
      BY <1>1, <2>3, ClosedByFacts
    <3>3. m \in j .. ClosedBy(j) - 1
      BY <1>1, <1>5, <1>10, <2>3, <3>2 DEF EndOfBlock
    <3> QED BY <2>1, <3>1, <3>3
  <2> QED BY <2>2, <2>3
<1> QED BY <1>5, <1>11, <1>12, <1>13 DEF Visible, TokenType

(* Every block is the one of an open bracket, or of the whole source.      *)
LEMMA BlocksReached ==
    ASSUME Len(tokens) \in Nat, Len(heap) = Cardinality(Opened)
    PROVE  /\ \A b \in 1 .. Len(heap) : \E j \in Opened : BlockOf(j) = b
           /\ \A j \in Opened : BlockOf(j) \in 1 .. Len(heap)
           /\ \A j, k \in Opened : BlockOf(j) = BlockOf(k) => j = k
<1>1. PICK q \in Nat : q = Len(tokens)
  OBVIOUS
<1>2. Opened = OpenedBy(q)
  BY <1>1 DEF Opened, OpenedBy
<1>3. Len(heap) = BlockOf(q) /\ BlockOf(q) \in Nat
  BY <1>2, OpenedCount, BlocksOpened
<1>4. \A n \in Nat : /\ BlockOf(n) \in Nat
                     /\ tokens[n + 1].type = "open" => BlockOf(n + 1) = BlockOf(n) + 1
                     /\ tokens[n + 1].type # "open" => BlockOf(n + 1) = BlockOf(n)
  BY BlocksOpened
<1>5. ASSUME NEW b \in 1 .. BlockOf(q) PROVE \E j \in Opened : BlockOf(j) = b
  <2> DEFINE D == {n \in Nat : n <= q /\ b <= BlockOf(n)}
  <2>1. q \in D /\ b \in Nat
    BY <1>3
  <2>2. PICK n \in D : \A m \in D : n <= m
    BY <2>1, NatLeast
  <2>3. n \in Nat /\ n <= q /\ b <= BlockOf(n)
    OBVIOUS
  <2>4. CASE n = 0
    <3>1. BlockOf(0) = 1
      BY BlocksOpened
    <3> QED BY <2>1, <2>3, <2>4, <3>1 DEF Opened
  <2>5. CASE n # 0
    <3>1. PICK p \in Nat : p + 1 = n /\ p <= q /\ p < n /\ n \in 1 .. q
      <4>1. n - 1 \in Nat /\ (n - 1) + 1 = n /\ n - 1 <= q /\ n - 1 < n /\ n \in 1 .. q
        BY <2>3, <2>5
      <4> QED BY <4>1
    <3>2. BlockOf(p) \in Nat /\ BlockOf(p) < b
      <4>1. p \notin D
        BY <2>2, <2>3, <3>1
      <4> QED BY <1>4, <2>1, <3>1, <4>1
    <3> HIDE DEF D
    <3>3. tokens[n].type = "open" /\ BlockOf(n) = BlockOf(p) + 1
      <4>1. CASE tokens[p + 1].type = "open"
        BY <1>4, <3>1, <4>1
      <4>2. CASE tokens[p + 1].type # "open"
        <5>1. BlockOf(n) = BlockOf(p)
          BY <1>4, <3>1, <4>2
        <5> QED BY <2>1, <2>3, <3>2, <5>1
      <4> QED BY <4>1, <4>2
    <3>4. BlockOf(n) = b
      <4>1. BlockOf(p) + 1 <= b /\ b <= BlockOf(p) + 1
        BY <2>1, <2>3, <3>2, <3>3
      <4> QED BY <2>1, <3>2, <3>3, <4>1
    <3> QED BY <1>1, <3>1, <3>3, <3>4 DEF Opened
  <2> QED BY <2>4, <2>5
<1> QED BY <1>2, <1>3, <1>5, BlocksOpened

(* An item ends before the next one of its block begins.                   *)
LEMMA ItemsApart ==
    ASSUME Balanced, Len(tokens) \in Nat, NEW j \in Opened,
           NEW k \in Children(j), NEW m \in Children(j), k < m
    PROVE  EndOfItem(k) < m
<1>1. /\ k \in 1 .. Len(tokens) /\ m \in 1 .. Len(tokens) /\ j < k /\ j \in Nat
      /\ k \in Nat /\ m \in Nat
  BY ItemEnds
<1>2. CASE tokens[k].type # "open"
  BY <1>2 DEF EndOfItem
<1>3. CASE tokens[k].type = "open"
  <2>1. /\ ClosedBy(k) \in k + 1 .. Len(tokens) /\ tokens[ClosedBy(k)].type = "close"
        /\ \A x \in k .. ClosedBy(k) - 1 : Level(x) >= Level(k)
    BY <1>1, <1>3, ClosedByFacts
  <2>2. tokens[m].type # "close" /\ Innermost(j, m)
    BY DEF Children
  <2>3. ASSUME m <= ClosedBy(k) PROVE FALSE
    <3>1. m < ClosedBy(k)
      BY <1>1, <2>1, <2>2, <2>3
    <3>2. \A x \in k .. m - 1 : Level(x) >= Level(k)
      BY <1>1, <2>1, <3>1
    <3>3. Encloses(k, m) /\ k \in j + 1 .. m - 1
      BY <1>1, <1>3, <3>2 DEF Encloses
    <3> QED BY <2>2, <3>3 DEF Innermost
  <2> QED BY <1>1, <1>3, <2>1, <2>3 DEF EndOfItem
<1> QED BY <1>2, <1>3

(* The nodes of a block, one for each item, in order.                      *)
LEMMA ChildrenInOrder ==
    ASSUME tokens \in Seq(Token), InSourceOrder(tokens), NEW j \in Opened, Mirrors(j),
           Len(heap[BlockOf(j)].seq) \in Nat
    PROVE  \E c : /\ \A n \in 1 .. Len(heap[BlockOf(j)].seq) :
                        c[n] \in Children(j) /\ heap[BlockOf(j)].seq[n] = NodeOf(c[n])
                  /\ \A m, n \in 1 .. Len(heap[BlockOf(j)].seq) : m < n => c[m] < c[n]
                  /\ \A k \in Children(j) : \E n \in 1 .. Len(heap[BlockOf(j)].seq) : k = c[n]
<1> DEFINE seq == heap[BlockOf(j)].seq
           count == Len(seq)
<1>1. /\ {seq[n] : n \in 1 .. count} = {NodeOf(k) : k \in Children(j)}
      /\ \A m, n \in 1 .. count : m < n => seq[m].src_idx < seq[n].src_idx
  BY DEF Mirrors, BlockOf
<1> DEFINE c == [n \in 1 .. count |-> CHOOSE k \in Children(j) : seq[n] = NodeOf(k)]
<1>2. ASSUME NEW n \in 1 .. count PROVE c[n] \in Children(j) /\ seq[n] = NodeOf(c[n])
  <2>1. \E k \in Children(j) : seq[n] = NodeOf(k)
    BY <1>1
  <2> QED BY <2>1
<1> HIDE DEF c
<1>3. PICK l \in Nat : l = Len(tokens)
  OBVIOUS
<1>4. \A k \in Children(j) : k \in 1 .. l /\ NodeOf(k).src_idx = tokens[k].src_idx
  BY <1>3 DEF Children, NodeOf
<1>5. \A k \in 1 .. l : tokens[k].src_idx \in Nat
  <2>1. \A k \in 1 .. l : tokens[k] \in Token
    BY <1>3
  <2> QED BY <2>1 DEF Token
<1>6. \A k, m \in 1 .. l : k < m => tokens[k].src_idx < tokens[m].src_idx
  BY <1>3 DEF InSourceOrder
<1>7. ASSUME NEW m \in 1 .. count, NEW n \in 1 .. count, m < n PROVE c[m] < c[n]
  <2>1. PICK x \in 1 .. l, y \in 1 .. l : x = c[m] /\ y = c[n]
    BY <1>2, <1>4
  <2>2. tokens[x].src_idx < tokens[y].src_idx
    BY <1>1, <1>2, <1>4, <1>7, <2>1
  <2>3. x = y \/ y < x \/ x < y
    OBVIOUS
  <2> QED BY <1>5, <1>6, <2>1, <2>2, <2>3
<1>8. ASSUME NEW k \in Children(j) PROVE \E n \in 1 .. count : k = c[n]
  <2>1. PICK n \in 1 .. count : seq[n] = NodeOf(k)
    BY <1>1
  <2>2. PICK x \in 1 .. l, y \in 1 .. l : x = k /\ y = c[n]
    BY <1>2, <1>4
  <2>3. tokens[x].src_idx = tokens[y].src_idx
    BY <1>2, <1>4, <2>1, <2>2
  <2>4. x = y \/ y < x \/ x < y
    OBVIOUS
  <2>5. x = y
    BY <1>5, <1>6, <2>3, <2>4
  <2> QED BY <2>2, <2>5
<1> QED BY <1>2, <1>7, <1>8

=============================================================================
