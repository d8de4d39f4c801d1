-------------------------- MODULE EnvironmentProofs --------------------------
(***************************************************************************)
(* Proofs about Strings and Environment, for strings and bindings of any   *)
(* length: an array that grows keeps what it holds, wherever realloc()     *)
(* leaves it; from that, that a String is text appended to, that a view    *)
(* stays true, and that the bindings are a map, for which strv_cmp() must  *)
(* tell any two words apart; and that a chain of slices shows a message.   *)
(***************************************************************************)
EXTENDS Environment, FiniteSetTheorems, SequenceTheorems, TLAPS

(* An array with elements of S, of which those in use are in D.            *)
Array(S) == [id : Nat, len : Nat, data : Seq(S)]

Holds(a, S, D) ==
    /\ a \in Array(S) /\ a.len <= Len(a.data)
    /\ \A k \in 1 .. a.len : a.data[k] \in D

(* b is an array with all that a has in use.                               *)
Keeps(a, b, S) ==
    /\ b \in Array(S) /\ b.len <= Len(b.data) /\ b.id >= a.id /\ b.len >= a.len
    /\ \A k \in 1 .. a.len : b.data[k] = a.data[k]

LEMMA ArrayFields ==
    ASSUME NEW S, NEW a \in Array(S)
    PROVE  /\ a = [id |-> a.id, len |-> a.len, data |-> a.data]
           /\ a.id \in Nat /\ a.len \in Nat /\ a.data \in Seq(S) /\ Len(a.data) \in Nat
<1>1. /\ a = [id |-> a.id, len |-> a.len, data |-> a.data]
      /\ a.id \in Nat /\ a.len \in Nat /\ a.data \in Seq(S)
  BY DEF Array
<1> QED BY <1>1

LEMMA ArrayMade ==
    ASSUME NEW S, NEW id \in Nat, NEW len \in Nat, NEW data \in Seq(S)
    PROVE  /\ [id |-> id, len |-> len, data |-> data] \in Array(S)
           /\ [id |-> id, len |-> len, data |-> data].id = id
           /\ [id |-> id, len |-> len, data |-> data].len = len
           /\ [id |-> id, len |-> len, data |-> data].data = data
BY DEF Array

(* What the assignments of the code make of an array.                      *)
WithMemory(a, i, d) == [a EXCEPT !.id = i, !.data = d]
WithLength(a, n)    == [a EXCEPT !.len = n]
WithElement(a, d, n) == [a EXCEPT !.data = d, !.len = n]
WithText(a, n, d)   == [a EXCEPT !.len = n, !.data = d]

LEMMA ArrayEdits ==
    ASSUME NEW S, NEW a \in Array(S), NEW i, NEW n, NEW d
    PROVE  /\ WithMemory(a, i, d) = [id |-> i, len |-> a.len, data |-> d]
           /\ WithLength(a, n) = [id |-> a.id, len |-> n, data |-> a.data]
           /\ WithElement(a, d, n) = [id |-> a.id, len |-> n, data |-> d]
           /\ WithText(a, n, d) = [id |-> a.id, len |-> n, data |-> d]
<1> DEFINE e == [a EXCEPT !.id = i]
           f == [a EXCEPT !.data = d]
           g == [a EXCEPT !.len = n]
<1>1. e = [id |-> i, len |-> a.len, data |-> a.data]
  BY DEF Array
<1>2. f = [id |-> a.id, len |-> a.len, data |-> d]
  BY DEF Array
<1>3. g = [id |-> a.id, len |-> n, data |-> a.data]
  BY DEF Array
<1>4. WithMemory(a, i, d) = [id |-> i, len |-> a.len, data |-> d]
  <2>1. WithMemory(a, i, d) = [e EXCEPT !.data = d]
    BY DEF WithMemory
  <2> HIDE DEF e
  <2> QED BY <1>1, <2>1
<1>5. WithElement(a, d, n) = [id |-> a.id, len |-> n, data |-> d]
  <2>1. WithElement(a, d, n) = [f EXCEPT !.len = n]
    BY DEF WithElement
  <2> HIDE DEF f
  <2> QED BY <1>2, <2>1
<1>6. WithText(a, n, d) = [id |-> a.id, len |-> n, data |-> d]
  <2>1. WithText(a, n, d) = [g EXCEPT !.data = d]
    BY DEF WithText
  <2> HIDE DEF g
  <2> QED BY <1>3, <2>1
<1>7. WithLength(a, n) = [id |-> a.id, len |-> n, data |-> a.data]
  BY <1>3 DEF WithLength
<1> QED BY <1>4, <1>5, <1>6, <1>7

(* realloc() to a larger capacity.                                         *)
LEMMA ReallocFacts ==
    ASSUME NEW S, Junk \in S, NEW a \in Array(S), a.len <= Len(a.data),
           NEW cap \in Nat, cap >= Len(a.data), NEW b \in Realloc(a, cap)
    PROVE  Keeps(a, b, S) /\ b.len = a.len /\ Len(b.data) = cap
<1>1. a.id \in Nat /\ a.len \in Nat /\ a.data \in Seq(S) /\ Len(a.data) \in Nat
  BY ArrayFields
<1> DEFINE z == [k \in 1 .. cap - Len(a.data) |-> Junk]
           d == a.data \o z
<1>2. PICK i \in {a.id, a.id + 1} : b = WithMemory(a, i, d)
  BY DEF Realloc, WithMemory
<1>3. b = [id |-> i, len |-> a.len, data |-> d] /\ i \in Nat /\ i >= a.id
  <2>1. i \in Nat /\ i >= a.id
    BY <1>1
  <2> HIDE DEF d
  <2> QED BY <1>2, <2>1, ArrayEdits
<1>4. z \in Seq(S) /\ Len(z) = cap - Len(a.data)
  <2>1. PICK n \in Nat : n = cap - Len(a.data)
    BY <1>1
  <2>2. z = [k \in 1 .. n |-> Junk]
    BY <2>1
  <2> HIDE DEF z
  <2>3. z \in Seq(S) /\ Len(z) = n
    BY <2>2
  <2> QED BY <2>1, <2>3
<1> HIDE DEF z
<1>5. d \in Seq(S) /\ Len(d) = cap /\ \A k \in 1 .. Len(a.data) : d[k] = a.data[k]
  <2>1. d \in Seq(S) /\ Len(d) = Len(a.data) + Len(z) /\ \A k \in 1 .. Len(a.data) : d[k] = a.data[k]
    BY <1>1, <1>4
  <2> HIDE DEF d
  <2> QED BY <1>1, <1>4, <2>1
<1> HIDE DEF d
<1>6. b \in Array(S) /\ b.id = i /\ b.len = a.len /\ b.data = d
  BY <1>1, <1>3, <1>5, ArrayMade
<1>7. \A k \in 1 .. a.len : k \in 1 .. Len(a.data)
  BY <1>1
<1> QED BY <1>1, <1>3, <1>5, <1>6, <1>7 DEF Keeps

LEMMA GrownFacts ==
    ASSUME NEW S, Junk \in S, NEW a \in Array(S), a.len <= Len(a.data), NEW b \in Grown(a)
    PROVE  Keeps(a, b, S) /\ b.len = a.len /\ Len(b.data) > a.len
<1>1. a.id \in Nat /\ a.len \in Nat /\ a.data \in Seq(S) /\ Len(a.data) \in Nat
  BY ArrayFields
<1>2. CASE a.len < Len(a.data)
  <2>1. b = a
    BY <1>2 DEF Grown, Capacity
  <2> QED BY <1>1, <1>2, <2>1 DEF Keeps
<1>3. CASE ~ (a.len < Len(a.data))
  <2> DEFINE cap == IF Len(a.data) > 0 THEN 2 * Len(a.data) ELSE DefaultSize
  <2>1. b \in Realloc(a, cap)
    BY <1>3 DEF Grown, Capacity
  <2>2. cap \in Nat /\ cap >= Len(a.data) /\ cap > a.len
    <3>1. PICK n \in Nat : n = Len(a.data)
      BY <1>1
    <3> QED BY <1>1, <1>3, <3>1, SizeAssumption
  <2> HIDE DEF cap
  <2> QED BY <2>1, <2>2, ReallocFacts
<1> QED BY <1>2, <1>3

(* A push keeps what was there and puts the element behind it.             *)
LEMMA PushedFacts ==
    ASSUME NEW S, Junk \in S, NEW a \in Array(S), a.len <= Len(a.data),
           NEW x \in S, NEW b \in Pushed(a, x)
    PROVE  Keeps(a, b, S) /\ b.len = a.len + 1 /\ b.data[a.len + 1] = x
<1>1. a.id \in Nat /\ a.len \in Nat /\ a.data \in Seq(S) /\ Len(a.data) \in Nat
  BY ArrayFields
<1>2. PICK c \in Grown(a) : b = Put(c, x)
  BY DEF Pushed
<1>3. Keeps(a, c, S) /\ c.len = a.len /\ Len(c.data) > a.len
  BY <1>2, GrownFacts
<1>4. c \in Array(S)
  BY <1>3 DEF Keeps
<1>5. c.id \in Nat /\ c.data \in Seq(S) /\ Len(c.data) \in Nat
  BY <1>4, ArrayFields
<1> DEFINE d == [c.data EXCEPT ![c.len + 1] = x]
<1>6. b = [id |-> c.id, len |-> c.len + 1, data |-> d]
  <2>1. Put(c, x) = WithElement(c, d, c.len + 1)
    <3>1. [c EXCEPT !.data = d].len = c.len
      BY <1>4 DEF Array
    <3> QED BY <3>1 DEF Put, WithElement
  <2> HIDE DEF d
  <2> QED BY <1>2, <1>4, <2>1, ArrayEdits
<1>7. a.len + 1 \in 1 .. Len(c.data) /\ a.len + 1 \in Nat
  BY <1>1, <1>3, <1>5
<1>8. /\ d \in Seq(S) /\ Len(d) = Len(c.data) /\ d[a.len + 1] = x
      /\ \A k \in 1 .. Len(c.data) : k # a.len + 1 => d[k] = c.data[k]
  BY <1>3, <1>5, <1>7
<1> HIDE DEF d
<1>9. b \in Array(S) /\ b.id = c.id /\ b.len = a.len + 1 /\ b.data = d
  BY <1>3, <1>5, <1>6, <1>7, <1>8, ArrayMade
<1>10. \A k \in 1 .. a.len : k \in 1 .. Len(c.data) /\ k # a.len + 1
  BY <1>1, <1>3, <1>5
<1>11. \A k \in 1 .. a.len : b.data[k] = a.data[k]
  BY <1>3, <1>8, <1>9, <1>10 DEF Keeps
<1>12. b.len <= Len(b.data) /\ b.id >= a.id /\ b.len >= a.len
  <2>1. c.id >= a.id
    BY <1>3 DEF Keeps
  <2> QED BY <1>1, <1>3, <1>5, <1>8, <1>9, <2>1
<1> QED BY <1>3, <1>8, <1>9, <1>11, <1>12 DEF Keeps

(* What an array holds, as a sequence.                                     *)
LEMMA ContentFacts ==
    ASSUME NEW S, NEW D, NEW a, Holds(a, S, D)
    PROVE  /\ Content(a) \in Seq(D) /\ Len(Content(a)) = a.len /\ a.len \in Nat
           /\ \A k \in 1 .. a.len : Content(a)[k] = a.data[k]
<1>1. a \in Array(S) /\ a.len <= Len(a.data) /\ \A k \in 1 .. a.len : a.data[k] \in D
  BY DEF Holds
<1>2. a.len \in Nat /\ a.data \in Seq(S) /\ Len(a.data) \in Nat
  BY <1>1, ArrayFields
<1>3. PICK n \in Nat, s \in Seq(S) : n = a.len /\ s = a.data
  BY <1>2
<1>4. \A k \in 1 .. n : s[k] \in D
  BY <1>1, <1>3
<1> DEFINE u == SubSeq(s, 1, n)
<1>5. /\ u \in Seq(D)
      /\ Len(u) = IF 1 <= n THEN n - 1 + 1 ELSE 0
      /\ \A k \in 1 .. n - 1 + 1 : u[k] = s[1 + k - 1]
  BY <1>4, SubSeqProperties
<1> HIDE DEF u
<1>6. Len(u) = n /\ \A k \in 1 .. n : u[k] = s[k]
  BY <1>5
<1>7. Content(a) = u
  BY <1>3 DEF Content, u
<1> QED BY <1>2, <1>3, <1>5, <1>6, <1>7

----------------------------------------------------------------------------
(* The order of strings.  Characters are natural numbers here.             *)
LEMMA NatLeast ==
    ASSUME NEW T, T \subseteq Nat, T # {}
    PROVE  \E n \in T : \A m \in T : n <= m
<1> DEFINE Below(n) == 0 .. n
           F == {Below(n) : n \in T}
           R == StrictSubsetOrdering(Nat)
<1>1. F \subseteq FiniteSubsetsOf(Nat)
  <2> SUFFICES ASSUME NEW n \in T PROVE Below(n) \in FiniteSubsetsOf(Nat)
    OBVIOUS
  <2>1. IsFiniteSet(Below(n)) /\ Below(n) \subseteq Nat
    BY FS_Interval
  <2> QED BY <2>1 DEF FiniteSubsetsOf
<1>2. PICK x \in F : \A y \in F : <<y, x>> \notin R
  <2>1. IsWellFoundedOn(R, FiniteSubsetsOf(Nat)) BY FS_StrictSubsetOrderingWellFounded
  <2>2. F # {} OBVIOUS
  <2> QED BY <2>1, <2>2, <1>1, WFMin
<1>3. PICK n \in T : x = Below(n) BY <1>2
<1>4. ASSUME NEW m \in T, m < n PROVE FALSE
  <2>1. Below(m) \subseteq Below(n) /\ Below(m) # Below(n)
    BY <1>4
  <2>2. <<Below(m), Below(n)>> \in R
    BY <2>1 DEF StrictSubsetOrdering
  <2> QED BY <2>2, <1>2, <1>3
<1> QED BY <1>4

LEMMA LeastExists ==
    ASSUME NEW T, T \subseteq Nat, T # {}
    PROVE  Least(T) \in T /\ \A k \in T : Least(T) <= k
BY NatLeast DEF Least

LEMMA LeastIs ==
    ASSUME NEW T, T \subseteq Nat, NEW m \in T, \A k \in T : m <= k
    PROVE  Least(T) = m
<1>1. Least(T) \in T /\ Least(T) <= m /\ m <= Least(T)
  BY LeastExists
<1>2. Least(T) \in Nat /\ m \in Nat
  BY <1>1
<1> QED BY <1>1, <1>2

(* Where two strings differ.                                               *)
Differ(a, b) == {k \in 1 .. Len(a) : k <= Len(b) /\ a[k] # b[k]}

LEMMA DifferFacts ==
    ASSUME NEW a \in Seq(Nat), NEW b \in Seq(Nat)
    PROVE  /\ Differ(a, b) = Differ(b, a) /\ Differ(a, b) \subseteq Nat
           /\ Differ(a, b) = {} /\ Len(a) = Len(b) <=> a = b
<1>1. Len(a) \in Nat /\ Len(b) \in Nat
  OBVIOUS
<1>2. \A k : k \in Differ(a, b) <=> k \in Differ(b, a)
  BY <1>1 DEF Differ
<1>3. Differ(a, b) = {} /\ Len(a) = Len(b) => a = b
  <2> SUFFICES ASSUME Differ(a, b) = {}, Len(a) = Len(b) PROVE a = b
    OBVIOUS
  <2>1. \A k \in 1 .. Len(a) : a[k] = b[k]
    BY <1>1 DEF Differ
  <2> QED BY <2>1, SeqEqual
<1>4. a = b => Differ(a, b) = {} /\ Len(a) = Len(b)
  BY DEF Differ
<1>5. Differ(a, b) \subseteq Nat
  BY <1>1 DEF Differ
<1> QED BY <1>2, <1>3, <1>4, <1>5

(* strv_cmp() by cases.                                                    *)
LEMMA CompareCases ==
    ASSUME NEW a \in Seq(Nat), NEW b \in Seq(Nat)
    PROVE  /\ Differ(a, b) # {} =>
                 \E m \in Differ(a, b) : /\ \A k \in Differ(a, b) : m <= k
                                         /\ Least(Differ(a, b)) = m
                                         /\ Compare(a, b) = a[m] - b[m]
           /\ Differ(a, b) = {} /\ Len(a) < Len(b) => Compare(a, b) = -1
           /\ Differ(a, b) = {} /\ Len(a) > Len(b) => Compare(a, b) = 1
           /\ Differ(a, b) = {} /\ Len(a) = Len(b) => Compare(a, b) = 0
<1>1. Len(a) \in Nat /\ Len(b) \in Nat
  OBVIOUS
<1>2. Compare(a, b) = IF Differ(a, b) # {} THEN a[Least(Differ(a, b))] - b[Least(Differ(a, b))]
                      ELSE IF Len(a) < Len(b) THEN -1
                      ELSE IF Len(a) > Len(b) THEN 1
                      ELSE 0
  BY DEF Compare, Differ
<1>3. ASSUME Differ(a, b) # {}
      PROVE  \E m \in Differ(a, b) : /\ \A k \in Differ(a, b) : m <= k
                                     /\ Least(Differ(a, b)) = m
                                     /\ Compare(a, b) = a[m] - b[m]
  <2>1. Least(Differ(a, b)) \in Differ(a, b) /\ \A k \in Differ(a, b) : Least(Differ(a, b)) <= k
    BY <1>3, DifferFacts, LeastExists
  <2>2. Compare(a, b) = a[Least(Differ(a, b))] - b[Least(Differ(a, b))]
    BY <1>2, <1>3
  <2> QED BY <2>1, <2>2
<1>4. Differ(a, b) = {} /\ Len(a) < Len(b) => Compare(a, b) = -1
  BY <1>2
<1>5. Differ(a, b) = {} /\ Len(a) > Len(b) => Compare(a, b) = 1
  BY <1>1, <1>2
<1>6. Differ(a, b) = {} /\ Len(a) = Len(b) => Compare(a, b) = 0
  BY <1>1, <1>2
<1> QED BY <1>3, <1>4, <1>5, <1>6

LEMMA Opposites == \A x, y \in Int : x + y = 0 => x = - y
OBVIOUS

(* It is 0 for equal strings only, and swaps its sign with its arguments.  *)
LEMMA CompareEqual ==
    ASSUME NEW a \in Seq(Nat), NEW b \in Seq(Nat)
    PROVE  (Compare(a, b) = 0 <=> a = b) /\ Compare(a, b) = - Compare(b, a) /\ Compare(a, b) \in Int
<1>1. Len(a) \in Nat /\ Len(b) \in Nat
  OBVIOUS
<1>2. CASE Differ(a, b) # {}
  <2>1. PICK m \in Differ(a, b) : Least(Differ(a, b)) = m /\ Compare(a, b) = a[m] - b[m]
    BY <1>2, CompareCases
  <2>2. Differ(b, a) = Differ(a, b)
    BY DifferFacts
  <2>3. Compare(b, a) = b[m] - a[m]
    BY <1>2, <2>1, <2>2, CompareCases
  <2>4. m \in 1 .. Len(a) /\ m \in 1 .. Len(b) /\ a[m] # b[m]
    BY <1>1 DEF Differ
  <2>5. a[m] \in Nat /\ b[m] \in Nat
    BY <2>4
  <2>6. a # b
    BY <1>2, DifferFacts
  <2> QED BY <2>1, <2>3, <2>4, <2>5, <2>6
<1>3. CASE Differ(a, b) = {}
  <2>1. Differ(b, a) = {} /\ (Len(a) = Len(b) <=> a = b)
    BY <1>3, DifferFacts
  <2>2. CASE Len(a) < Len(b)
    <3>1. Compare(a, b) = -1 /\ Compare(b, a) = 1
      BY <1>1, <1>3, <2>1, <2>2, CompareCases
    <3> QED BY <1>1, <2>1, <2>2, <3>1
  <2>3. CASE Len(a) > Len(b)
    <3>1. Compare(a, b) = 1 /\ Compare(b, a) = -1
      BY <1>1, <1>3, <2>1, <2>3, CompareCases
    <3>2. a # b
      BY <1>1, <2>1, <2>3
    <3>3. Compare(a, b) \in Int /\ Compare(b, a) \in Int /\ Compare(a, b) + Compare(b, a) = 0
      BY <3>1
    <3>4. Compare(a, b) = - Compare(b, a)
      BY <3>3, Opposites
    <3>5. Compare(a, b) # 0
      BY <3>1
    <3> QED BY <3>2, <3>3, <3>4, <3>5
  <2>4. CASE Len(a) = Len(b)
    <3>1. Compare(a, b) = 0 /\ Compare(b, a) = 0
      BY <1>1, <1>3, <2>1, <2>4, CompareCases
    <3>2. a = b
      BY <2>1, <2>4
    <3>3. Compare(a, b) \in Int /\ Compare(b, a) \in Int /\ Compare(a, b) + Compare(b, a) = 0
      BY <3>1
    <3>4. Compare(a, b) = - Compare(b, a)
      BY <3>3, Opposites
    <3> QED BY <3>1, <3>2, <3>3, <3>4
  <2> QED BY <1>1, <2>2, <2>3, <2>4
<1> QED BY <1>2, <1>3

(* Prefixes agree when their characters do.                                *)
LEMMA PrefixAgrees ==
    ASSUME NEW a \in Seq(Nat), NEW b \in Seq(Nat), NEW n \in Nat, n <= Len(a), n <= Len(b)
    PROVE  SubSeq(a, 1, n) = SubSeq(b, 1, n) <=> \A k \in 1 .. n : a[k] = b[k]
<1>1. Len(a) \in Nat /\ Len(b) \in Nat
  OBVIOUS
<1> DEFINE u == SubSeq(a, 1, n)  v == SubSeq(b, 1, n)
<1>2. u \in Seq(Nat) /\ Len(u) = n /\ \A k \in 1 .. n : u[k] = a[k]
  OBVIOUS
<1>3. v \in Seq(Nat) /\ Len(v) = n /\ \A k \in 1 .. n : v[k] = b[k]
  OBVIOUS
<1> HIDE DEF u, v
<1>4. (\A k \in 1 .. n : a[k] = b[k]) => u = v
  BY <1>2, <1>3, SeqEqual
<1>5. u = v => \A k \in 1 .. n : a[k] = b[k]
  BY <1>2, <1>3
<1> QED BY <1>4, <1>5 DEF u, v

LEMMA CompareBefore ==
    ASSUME NEW a \in Seq(Nat), NEW b \in Seq(Nat)
    PROVE  Compare(a, b) < 0 <=> Before(a, b)
<1>1. Len(a) \in Nat /\ Len(b) \in Nat
  OBVIOUS
<1>2. \A k \in 1 .. Len(a) : a[k] \in Nat
  OBVIOUS
<1>3. \A k \in 1 .. Len(b) : b[k] \in Nat
  OBVIOUS
<1>4. ASSUME Compare(a, b) < 0 PROVE Before(a, b)
  <2>1. CASE Differ(a, b) # {}
    <3>1. PICK m \in Differ(a, b) : (\A k \in Differ(a, b) : m <= k) /\ Compare(a, b) = a[m] - b[m]
      BY <2>1, CompareCases
    <3>2. m \in 1 .. Len(a) /\ m \in 1 .. Len(b)
      BY <1>1 DEF Differ
    <3>3. PICK n \in Nat : m = n + 1
      BY <3>2
    <3>4. a[m] < b[m]
      BY <1>2, <1>3, <1>4, <3>1, <3>2
    <3>5. \A k \in 1 .. n : a[k] = b[k]
      <4> SUFFICES ASSUME NEW k \in 1 .. n PROVE a[k] = b[k]
        OBVIOUS
      <4>1. k \in 1 .. Len(a) /\ k <= Len(b) /\ ~ (m <= k)
        BY <1>1, <3>2, <3>3
      <4> QED BY <3>1, <4>1 DEF Differ
    <3>6. n \in 0 .. Len(a) /\ n <= Len(a) /\ n <= Len(b) /\ n < Len(b)
      BY <1>1, <3>2, <3>3
    <3>7. SubSeq(a, 1, n) = SubSeq(b, 1, n)
      BY <3>5, <3>6, PrefixAgrees
    <3> QED BY <3>3, <3>4, <3>6, <3>7 DEF Before
  <2>2. CASE Differ(a, b) = {}
    <3>1. Len(a) < Len(b)
      <4>1. Len(a) > Len(b) => Compare(a, b) = 1
        BY <2>2, CompareCases
      <4>2. Len(a) = Len(b) => Compare(a, b) = 0
        BY <2>2, CompareCases
      <4> QED BY <1>1, <1>4, <4>1, <4>2
    <3>2. \A k \in 1 .. Len(a) : a[k] = b[k]
      <4> SUFFICES ASSUME NEW k \in 1 .. Len(a) PROVE a[k] = b[k]
        OBVIOUS
      <4>1. k <= Len(b)
        BY <1>1, <3>1
      <4>2. k \notin Differ(a, b)
        BY <2>2
      <4> QED BY <4>1, <4>2 DEF Differ
    <3>3. Len(a) <= Len(a) /\ Len(a) <= Len(b) /\ Len(a) \in 0 .. Len(a) /\ ~ (Len(a) < Len(a))
      BY <1>1, <3>1
    <3>4. SubSeq(a, 1, Len(a)) = SubSeq(b, 1, Len(a))
      BY <1>1, <3>2, <3>3, PrefixAgrees
    <3> QED BY <3>1, <3>3, <3>4 DEF Before
  <2> QED BY <2>1, <2>2
<1>5. ASSUME Before(a, b) PROVE Compare(a, b) < 0
  <2>1. PICK n \in 0 .. Len(a) : /\ n <= Len(b) /\ SubSeq(a, 1, n) = SubSeq(b, 1, n)
                                 /\ n < Len(b) /\ (n < Len(a) => a[n + 1] < b[n + 1])
    BY <1>5 DEF Before
  <2>2. n \in Nat /\ n <= Len(a)
    BY <1>1
  <2>3. \A k \in 1 .. n : a[k] = b[k]
    BY <2>1, <2>2, PrefixAgrees
  <2>4. n < Len(a) => n + 1 \in Differ(a, b)
    <3> SUFFICES ASSUME n < Len(a) PROVE n + 1 \in Differ(a, b)
      OBVIOUS
    <3>1. n + 1 \in 1 .. Len(a) /\ n + 1 \in 1 .. Len(b) /\ n + 1 <= Len(b)
      BY <1>1, <2>1, <2>2
    <3>2. a[n + 1] # b[n + 1]
      BY <1>2, <1>3, <2>1, <3>1
    <3> QED BY <3>1, <3>2 DEF Differ
  <2>5. CASE Differ(a, b) = {}
    <3>1. Len(a) < Len(b)
      BY <1>1, <2>1, <2>2, <2>4, <2>5
    <3> QED BY <2>5, <3>1, CompareCases
  <2>6. CASE Differ(a, b) # {}
    <3>1. PICK m \in Differ(a, b) : (\A k \in Differ(a, b) : m <= k) /\ Compare(a, b) = a[m] - b[m]
      BY <2>6, CompareCases
    <3>2. m \in 1 .. Len(a) /\ m \in 1 .. Len(b) /\ a[m] # b[m]
      BY <1>1 DEF Differ
    <3>3. m \notin 1 .. n
      BY <2>3, <3>2
    <3>4. n < Len(a)
      BY <1>1, <2>2, <3>2, <3>3
    <3>5. m <= n + 1
      BY <2>4, <3>1, <3>4
    <3>6. m = n + 1
      BY <1>1, <2>2, <3>2, <3>3, <3>5
    <3>7. a[m] < b[m] /\ a[m] \in Nat /\ b[m] \in Nat
      BY <1>2, <1>3, <2>1, <3>2, <3>4, <3>6
    <3> QED BY <3>1, <3>7
  <2> QED BY <2>5, <2>6
<1> QED BY <1>4, <1>5

(* strv_cmpcstr() is strv_cmp(): the zero behind the literal is smaller    *)
(* than any character, and there is none in front of it.                   *)
LEMMA CompareCstrIsCompare ==
    ASSUME NEW C, C \subseteq Nat \ {0}, NEW a \in Seq(C), NEW b \in Seq(C)
    PROVE  CompareCstr(a, b) = Compare(a, b)
<1> DEFINE c == Append(b, 0)
           T == {k \in 1 .. Len(c) : k > Len(a) \/ c[k] = 0 \/ a[k] # c[k]}
<1>1. Len(a) \in Nat /\ Len(b) \in Nat /\ a \in Seq(Nat) /\ b \in Seq(Nat)
  <2>1. a \in Seq(Nat) /\ b \in Seq(Nat)
    BY SeqMonotonic
  <2> QED BY <2>1
<1>2. /\ Len(c) = Len(b) + 1 /\ c[Len(b) + 1] = 0
      /\ \A k \in 1 .. Len(b) : c[k] = b[k]
  OBVIOUS
<1>3. (\A k \in 1 .. Len(a) : a[k] \in Nat \ {0}) /\ (\A k \in 1 .. Len(b) : b[k] \in Nat \ {0})
  BY ElementOfSeq
<1>4. CompareCstr(a, b) =
        IF Least(T) <= Len(a) /\ c[Least(T)] # 0 THEN a[Least(T)] - c[Least(T)]
        ELSE IF Least(T) > Len(a) /\ c[Least(T)] # 0 THEN -1
        ELSE IF Least(T) <= Len(a) /\ c[Least(T)] = 0 THEN 1
        ELSE 0
  BY DEF CompareCstr
<1> HIDE DEF c
<1>5. T \subseteq Nat
  BY <1>1, <1>2
<1>6. CASE Differ(a, b) # {}
  <2>1. PICK m \in Differ(a, b) : (\A k \in Differ(a, b) : m <= k) /\ Compare(a, b) = a[m] - b[m]
    BY <1>1, <1>6, CompareCases
  <2>2. m \in 1 .. Len(a) /\ m \in 1 .. Len(b) /\ a[m] # b[m]
    BY <1>1 DEF Differ
  <2>3. c[m] = b[m] /\ c[m] # 0
    BY <1>2, <1>3, <2>2
  <2>4. m \in T
    BY <1>1, <1>2, <2>2, <2>3
  <2>5. ASSUME NEW k \in T PROVE m <= k
    <3> SUFFICES ASSUME k < m PROVE FALSE
      BY <1>5, <2>2
    <3>1. k \in 1 .. Len(a) /\ k \in 1 .. Len(b) /\ k <= Len(b)
      BY <1>1, <1>2, <2>2
    <3>2. c[k] = b[k] /\ b[k] # 0
      BY <1>2, <1>3, <3>1
    <3>3. a[k] # b[k]
      BY <1>1, <3>1, <3>2
    <3> QED BY <2>1, <3>1, <3>3, <2>2 DEF Differ
  <2>6. Least(T) = m
    BY <1>5, <2>4, <2>5, LeastIs
  <2> HIDE DEF T
  <2>7. CompareCstr(a, b) = a[m] - b[m]
    BY <1>1, <1>4, <2>2, <2>3, <2>6
  <2> QED BY <2>1, <2>7
<1>7. CASE Differ(a, b) = {}
  <2>1. ASSUME NEW k \in 1 .. Len(a), k \in 1 .. Len(b) PROVE a[k] = b[k]
    <3>1. k <= Len(b) /\ k \notin Differ(a, b)
      BY <1>1, <1>7, <2>1
    <3> QED BY <3>1 DEF Differ
  <2>2. CASE Len(a) < Len(b)
    <3>1. Len(a) + 1 \in T
      BY <1>1, <1>2, <2>2
    <3>2. ASSUME NEW k \in T PROVE Len(a) + 1 <= k
      <4> SUFFICES ASSUME k < Len(a) + 1 PROVE FALSE
        BY <1>1, <1>5
      <4>1. k \in 1 .. Len(a) /\ k \in 1 .. Len(b)
        BY <1>1, <1>2, <2>2
      <4>2. c[k] = b[k] /\ b[k] # 0 /\ a[k] = b[k]
        BY <1>2, <1>3, <2>1, <4>1
      <4> QED BY <1>1, <4>1, <4>2
    <3>3. Least(T) = Len(a) + 1
      BY <1>5, <3>1, <3>2, LeastIs
    <3>4. Len(a) + 1 \in 1 .. Len(b)
      BY <1>1, <2>2
    <3>5. c[Len(a) + 1] # 0
      BY <1>2, <1>3, <3>4
    <3> HIDE DEF T
    <3>6. CompareCstr(a, b) = -1
      BY <1>1, <1>4, <3>3, <3>5
    <3> QED BY <1>1, <1>7, <2>2, <3>6, CompareCases
  <2>3. CASE ~ (Len(a) < Len(b))
    <3>1. Len(b) + 1 \in T
      BY <1>1, <1>2, <2>3
    <3>2. ASSUME NEW k \in T PROVE Len(b) + 1 <= k
      <4> SUFFICES ASSUME k < Len(b) + 1 PROVE FALSE
        BY <1>1, <1>5
      <4>1. k \in 1 .. Len(a) /\ k \in 1 .. Len(b)
        BY <1>1, <1>2, <2>3
      <4>2. c[k] = b[k] /\ b[k] # 0 /\ a[k] = b[k]
        BY <1>2, <1>3, <2>1, <4>1
      <4> QED BY <1>1, <4>1, <4>2
    <3>3. Least(T) = Len(b) + 1
      BY <1>1, <1>5, <3>1, <3>2, LeastIs
    <3> HIDE DEF T
    <3>4. CASE Len(a) > Len(b)
      <4>1. CompareCstr(a, b) = 1
        BY <1>1, <1>2, <1>4, <3>3, <3>4
      <4> QED BY <1>1, <1>7, <3>4, <4>1, CompareCases
    <3>5. CASE Len(a) = Len(b)
      <4>1. CompareCstr(a, b) = 0
        BY <1>1, <1>2, <1>4, <3>3, <3>5
      <4> QED BY <1>1, <1>7, <3>5, <4>1, CompareCases
    <3> QED BY <1>1, <2>3, <3>4, <3>5
  <2> QED BY <2>2, <2>3
<1> QED BY <1>6, <1>7

(* All that ComparesInOrder says of a text and a literal.                  *)
InOrder(a, b) ==
    /\ Compare(a, b) = 0 <=> a = b
    /\ Compare(a, b) < 0 <=> Before(a, b)
    /\ Compare(a, b) > 0 <=> Before(b, a)
    /\ CompareCstr(a, b) = Compare(a, b)
    /\ Compare(b, a) = - Compare(a, b)

LEMMA ComparesFacts ==
    ASSUME NEW C, C \subseteq Nat \ {0}, NEW a \in Seq(C), NEW b \in Seq(C)
    PROVE  InOrder(a, b)
<1>1. a \in Seq(Nat) /\ b \in Seq(Nat)
  BY SeqMonotonic
<1>2. (Compare(a, b) = 0 <=> a = b) /\ Compare(a, b) = - Compare(b, a) /\ Compare(a, b) \in Int
  BY <1>1, CompareEqual
<1>3. Compare(b, a) = - Compare(a, b) /\ Compare(b, a) \in Int
  BY <1>1, CompareEqual
<1>4. Compare(a, b) < 0 <=> Before(a, b)
  BY <1>1, CompareBefore
<1>5. Compare(b, a) < 0 <=> Before(b, a)
  BY <1>1, CompareBefore
<1>6. Compare(b, a) < 0 <=> Compare(a, b) > 0
  BY <1>2, <1>3
<1>7. CompareCstr(a, b) = Compare(a, b)
  BY CompareCstrIsCompare
<1> QED BY <1>2, <1>3, <1>4, <1>5, <1>6, <1>7 DEF InOrder

----------------------------------------------------------------------------
(* The String and its view.                                                *)
Cells == Chars \cup {Junk}

Slice(s, begin, len) == SubSeq(s, begin + 1, begin + len)

LEMMA SliceFacts ==
    ASSUME NEW S, NEW s \in Seq(S), NEW b \in Nat, NEW n \in Nat, b + n <= Len(s)
    PROVE  /\ Slice(s, b, n) \in Seq(S) /\ Len(Slice(s, b, n)) = n
           /\ \A k \in 1 .. n : Slice(s, b, n)[k] = s[b + k]
<1>1. PICK m \in Int, q \in Int : m = b + 1 /\ q = b + n
  OBVIOUS
<1> DEFINE u == SubSeq(s, m, q)
<1>2. \A k \in m .. q : s[k] \in S
  BY <1>1
<1>3. /\ u \in Seq(S)
      /\ Len(u) = IF m <= q THEN q - m + 1 ELSE 0
      /\ \A k \in 1 .. q - m + 1 : u[k] = s[m + k - 1]
  BY <1>2, SubSeqProperties
<1>u. u = Slice(s, b, n)
  BY <1>1 DEF Slice
<1> HIDE DEF u
<1>4. Len(u) = n
  BY <1>1, <1>3
<1>5. ASSUME NEW k \in 1 .. n PROVE u[k] = s[b + k]
  <2>1. k \in 1 .. q - m + 1 /\ m + k - 1 = b + k
    BY <1>1
  <2> QED BY <2>1, <1>3
<1> QED BY <1>3, <1>4, <1>5, <1>u

Views == [id : Nat, begin : Nat, len : Nat, emptied : BOOLEAN, text : Seq(Cells)]

(* A view of the memory that the string is in lies inside of its text, and *)
(* what it showed is still there.                                          *)
ViewOK(v, s) ==
    /\ v \in Views /\ Len(v.text) = v.len /\ v.id <= s.id
    /\ v.id = s.id /\ ~ v.emptied =>
           /\ v.begin + v.len <= s.len
           /\ \A k \in 1 .. v.len : s.data[v.begin + k] = v.text[k]

StringOK(s) == Holds(s, Cells, Chars)

SInv == StringOK(string) /\ rest \in Seq(Chars) /\ ViewOK(view, string)

(* A view survives what keeps the text, or moves it.                       *)
LEMMA ViewKept ==
    ASSUME NEW v, NEW s, NEW t, ViewOK(v, s), StringOK(s), Keeps(s, t, Cells)
    PROVE  ViewOK(v, t)
<1>1. v.id \in Nat /\ v.begin \in Nat /\ v.len \in Nat
  BY DEF ViewOK, Views
<1>2. s \in Array(Cells) /\ t \in Array(Cells) /\ t.id >= s.id /\ t.len >= s.len
  BY DEF StringOK, Holds, Keeps
<1>3. s.id \in Nat /\ t.id \in Nat /\ s.len \in Nat /\ t.len \in Nat
  BY <1>2, ArrayFields
<1>4. v.id <= t.id
  BY <1>1, <1>2, <1>3 DEF ViewOK
<1>5. ASSUME v.id = t.id, ~ v.emptied
      PROVE  /\ v.begin + v.len <= t.len
             /\ \A k \in 1 .. v.len : t.data[v.begin + k] = v.text[k]
  <2>1. v.id = s.id
    BY <1>1, <1>2, <1>3, <1>5 DEF ViewOK
  <2>2. v.begin + v.len <= s.len /\ \A k \in 1 .. v.len : s.data[v.begin + k] = v.text[k]
    BY <1>5, <2>1 DEF ViewOK
  <2>3. v.begin + v.len <= t.len
    BY <1>1, <1>2, <1>3, <2>2
  <2>4. ASSUME NEW k \in 1 .. v.len PROVE t.data[v.begin + k] = v.text[k]
    <3>1. v.begin + k \in 1 .. s.len
      BY <1>1, <1>3, <2>2
    <3> QED BY <2>2, <3>1 DEF Keeps
  <2> QED BY <2>3, <2>4
<1> QED BY <1>4, <1>5 DEF ViewOK

(* str_popall(): nothing is said of a view from before.                    *)
LEMMA ViewEmptied ==
    ASSUME NEW v, NEW s, NEW t, ViewOK(v, s), t.id = s.id
    PROVE  ViewOK([v EXCEPT !.emptied = TRUE], t)
<1> DEFINE w == [v EXCEPT !.emptied = TRUE]
<1>1. v \in Views /\ Len(v.text) = v.len /\ v.id <= s.id
  BY DEF ViewOK
<1>2. \A b \in BOOLEAN : [v EXCEPT !.emptied = b] \in Views
  BY <1>1 DEF Views
<1>3. \A b \in BOOLEAN : [v EXCEPT !.emptied = b].id = v.id /\ [v EXCEPT !.emptied = b].len = v.len
         /\ [v EXCEPT !.emptied = b].text = v.text /\ [v EXCEPT !.emptied = b].emptied = b
  BY <1>1 DEF Views
<1>4. TRUE \in BOOLEAN
  OBVIOUS
<1>5. w \in Views /\ w.id = v.id /\ w.len = v.len /\ w.text = v.text /\ w.emptied = TRUE
  BY <1>2, <1>3, <1>4, Zenon
<1> HIDE DEF w
<1>6. ViewOK(w, t)
  BY <1>1, <1>5 DEF ViewOK
<1> QED BY <1>6 DEF w

(* A new string, and what each operation does to the text in one.          *)
LEMMA AllocFacts ==
    ASSUME NEW n \in Nat, NEW D
    PROVE  Alloc(n).id = 1 /\ Alloc(n).len = 0 /\ Holds(Alloc(n), D \cup {Junk}, D)
<1> DEFINE d == [k \in 1 .. n |-> Junk]
           S == D \cup {Junk}
<1>1. d \in Seq(S) /\ Len(d) = n
  OBVIOUS
<1>2. Alloc(n) = [id |-> 1, len |-> 0, data |-> d] /\ 1 \in Nat /\ 0 \in Nat
  BY DEF Alloc
<1> HIDE DEF d, S
<1>3. Alloc(n) \in Array(S) /\ Alloc(n).id = 1 /\ Alloc(n).len = 0 /\ Alloc(n).data = d
  <2>1. [id |-> 1, len |-> 0, data |-> d] \in Array(S)
    BY <1>1 DEF Array
  <2> QED BY <1>2, <2>1
<1>4. Holds(Alloc(n), S, D)
  BY <1>1, <1>3 DEF Holds
<1> QED BY <1>3, <1>4 DEF S

LEMMA EmptyContent ==
    ASSUME NEW a, NEW S, NEW D, Holds(a, S, D), a.len = 0
    PROVE  Content(a) = <<>>
<1>1. Content(a) \in Seq(D) /\ Len(Content(a)) = 0
  BY ContentFacts
<1> QED BY <1>1

(* The same content, by its elements.                                      *)
LEMMA SameContent ==
    ASSUME NEW S, NEW D, NEW a, NEW b, Holds(a, S, D), Holds(b, S, D), a.len = b.len,
           \A k \in 1 .. a.len : b.data[k] = a.data[k]
    PROVE  Content(b) = Content(a)
<1>1. /\ Content(a) \in Seq(D) /\ Len(Content(a)) = a.len /\ a.len \in Nat
      /\ \A k \in 1 .. a.len : Content(a)[k] = a.data[k]
  BY ContentFacts
<1>2. /\ Content(b) \in Seq(D) /\ Len(Content(b)) = a.len
      /\ \A k \in 1 .. a.len : Content(b)[k] = b.data[k]
  BY ContentFacts
<1>3. \A k \in 1 .. a.len : Content(a)[k] = Content(b)[k]
  BY <1>1, <1>2
<1> QED BY <1>1, <1>2, <1>3, SeqEqual

(* b is a with t written behind its content.                               *)
Behind(a, b, t) ==
    /\ b.len = a.len + Len(t)
    /\ \A k \in 1 .. a.len : b.data[k] = a.data[k]
    /\ \A k \in 1 .. Len(t) : b.data[a.len + k] = t[k]

LEMMA LongerContent ==
    ASSUME NEW S, NEW D, NEW a, NEW b, Holds(a, S, D), Holds(b, S, D), NEW t \in Seq(D),
           Behind(a, b, t)
    PROVE  Content(b) = Content(a) \o t
<1>1. /\ Content(a) \in Seq(D) /\ Len(Content(a)) = a.len /\ a.len \in Nat
      /\ \A k \in 1 .. a.len : Content(a)[k] = a.data[k]
  BY ContentFacts
<1>2. /\ Content(b) \in Seq(D) /\ Len(Content(b)) = b.len /\ b.len \in Nat
      /\ \A k \in 1 .. b.len : Content(b)[k] = b.data[k]
  BY ContentFacts
<1> DEFINE u == Content(a) \o t
<1>3. /\ u \in Seq(D) /\ Len(u) = a.len + Len(t)
      /\ \A k \in 1 .. a.len : u[k] = Content(a)[k]
      /\ \A k \in 1 .. Len(t) : u[a.len + k] = t[k]
  BY <1>1
<1> HIDE DEF u
<1>4. /\ Len(t) \in Nat /\ b.len = a.len + Len(t)
      /\ \A k \in 1 .. a.len : b.data[k] = a.data[k]
      /\ \A k \in 1 .. Len(t) : b.data[a.len + k] = t[k]
  BY DEF Behind
<1>5. ASSUME NEW k \in 1 .. b.len PROVE Content(b)[k] = u[k]
  <2>1. CASE k <= a.len
    <3>1. k \in 1 .. a.len
      BY <1>1, <1>2, <2>1
    <3> QED BY <1>1, <1>2, <1>3, <1>4, <3>1
  <2>2. CASE ~ (k <= a.len)
    <3>1. PICK j \in 1 .. Len(t) : k = a.len + j
      <4>1. k - a.len \in 1 .. Len(t) /\ k = a.len + (k - a.len)
        BY <1>1, <1>2, <1>4, <2>2
      <4> QED BY <4>1
    <3>2. Content(b)[k] = t[j] /\ u[k] = t[j]
      BY <1>2, <1>3, <1>4, <3>1
    <3> QED BY <3>2
  <2> QED BY <2>1, <2>2
<1>6. Content(b) = u
  BY <1>2, <1>3, <1>4, <1>5, SeqEqual
<1> QED BY <1>6 DEF u

(* ..._push()                                                              *)
Single(x) == <<x>>

PushResult(S, D, a, x, b) ==
    /\ Holds(b, S, D) /\ Keeps(a, b, S)
    /\ b.len = a.len + 1 /\ b.data[a.len + 1] = x
    /\ Content(b) = Content(a) \o Single(x)

LEMMA PushedContent ==
    ASSUME NEW S, NEW D, S = D \cup {Junk}, NEW a, Holds(a, S, D), NEW x \in D, NEW b \in Pushed(a, x)
    PROVE  PushResult(S, D, a, x, b)
<1>1. Junk \in S /\ x \in S
  OBVIOUS
<1>3. a \in Array(S) /\ a.len <= Len(a.data) /\ \A k \in 1 .. a.len : a.data[k] \in D
  BY DEF Holds
<1>4. a.len \in Nat
  BY <1>3, ArrayFields
<1>5. Keeps(a, b, S) /\ b.len = a.len + 1 /\ b.data[a.len + 1] = x
  BY <1>1, <1>3, PushedFacts
<1>6. \A k \in 1 .. b.len : k \in 1 .. a.len \/ k = a.len + 1
  BY <1>4, <1>5
<1>7. Holds(b, S, D)
  BY <1>3, <1>5, <1>6 DEF Holds, Keeps
<1> DEFINE t == <<x>>
<1>8. t \in Seq(D) /\ Len(t) = 1 /\ t[1] = x
  OBVIOUS
<1> HIDE DEF t
<1>9. \A k \in 1 .. Len(t) : b.data[a.len + k] = t[k]
  BY <1>5, <1>8
<1>10. \A k \in 1 .. a.len : b.data[k] = a.data[k]
  BY <1>5 DEF Keeps
<1>11. Behind(a, b, t)
  BY <1>5, <1>8, <1>9, <1>10 DEF Behind
<1>12. Content(b) = Content(a) \o t
  BY <1>7, <1>8, <1>11, LongerContent
<1> QED BY <1>5, <1>7, <1>12 DEF t, Single, PushResult

(* str_pushstr(): memcpy() of t into s, the string a with room for it.     *)
Joined(s, t) ==
    [k \in 1 .. Len(s.data) |-> IF k \in s.len + 1 .. s.len + Len(t) THEN t[k - s.len] ELSE s.data[k]]

WithJoined(s, t) == WithText(s, s.len + Len(t), Joined(s, t))

JoinResult(S, D, a, t, b) ==
    Holds(b, S, D) /\ Keeps(a, b, S) /\ Content(b) = Content(a) \o t

LEMMA JoinedContent ==
    ASSUME NEW S, NEW D, D \subseteq S, NEW a, NEW s, NEW t \in Seq(D), Holds(a, S, D), Keeps(a, s, S),
           s.len = a.len, a.len + Len(t) <= Len(s.data)
    PROVE  JoinResult(S, D, a, t, WithJoined(s, t))
<1>1. a \in Array(S) /\ s \in Array(S) /\ s.id >= a.id
  BY DEF Holds, Keeps
<1>2. a.id \in Nat /\ a.len \in Nat /\ s.id \in Nat /\ s.data \in Seq(S) /\ Len(s.data) \in Nat /\ Len(t) \in Nat
  BY <1>1, ArrayFields
<1>3. \A k \in 1 .. Len(t) : t[k] \in D /\ t[k] \in S
  BY ElementOfSeq
<1> DEFINE d == Joined(s, t)
           b == WithText(s, s.len + Len(t), d)
<1>4. \A k \in 1 .. Len(s.data) : s.data[k] \in S
  BY <1>2, ElementOfSeq
<1>5. \A k \in 1 .. Len(s.data) :
         (IF k \in s.len + 1 .. s.len + Len(t) THEN t[k - s.len] ELSE s.data[k]) \in S
  <2> SUFFICES ASSUME NEW k \in 1 .. Len(s.data)
               PROVE (IF k \in s.len + 1 .. s.len + Len(t) THEN t[k - s.len] ELSE s.data[k]) \in S
    OBVIOUS
  <2>1. k \in s.len + 1 .. s.len + Len(t) => k - s.len \in 1 .. Len(t)
    BY <1>2
  <2>2. k \in s.len + 1 .. s.len + Len(t) => t[k - s.len] \in S
    BY <1>3, <2>1
  <2> QED BY <1>4, <2>2
<1>6. d \in Seq(S) /\ Len(d) = Len(s.data)
  <2>1. PICK n \in Nat : n = Len(s.data)
    BY <1>2
  <2>2. d = [k \in 1 .. n |-> IF k \in s.len + 1 .. s.len + Len(t) THEN t[k - s.len] ELSE s.data[k]]
    BY <2>1 DEF Joined
  <2>3. d \in [1 .. n -> S]
    BY <1>5, <2>1, <2>2
  <2> HIDE DEF d
  <2> QED BY <2>1, <2>3
<1>7. \A k \in 1 .. a.len : d[k] = s.data[k]
  <2> SUFFICES ASSUME NEW k \in 1 .. a.len PROVE d[k] = s.data[k]
    OBVIOUS
  <2>1. k \in 1 .. Len(s.data) /\ k \notin s.len + 1 .. s.len + Len(t)
    BY <1>2
  <2> QED BY <2>1 DEF Joined
<1>8. \A k \in 1 .. Len(t) : d[a.len + k] = t[k]
  <2> SUFFICES ASSUME NEW k \in 1 .. Len(t) PROVE d[a.len + k] = t[k]
    OBVIOUS
  <2>1. a.len + k \in 1 .. Len(s.data) /\ a.len + k \in s.len + 1 .. s.len + Len(t) /\ a.len + k - s.len = k
    BY <1>2
  <2>2. \A i \in s.len + 1 .. s.len + Len(t) : i \in 1 .. Len(s.data) => d[i] = t[i - s.len]
    BY DEF Joined
  <2>3. PICK i \in Int : i = a.len + k
    BY <1>2
  <2>4. i \in s.len + 1 .. s.len + Len(t) /\ i \in 1 .. Len(s.data) /\ i - s.len = k
    BY <1>2, <2>1, <2>3
  <2> HIDE DEF d
  <2> QED BY <2>2, <2>3, <2>4
<1> HIDE DEF d
<1>9. b \in Array(S) /\ b.id = s.id /\ b.len = a.len + Len(t) /\ b.data = d
  <2>1. b = [id |-> s.id, len |-> s.len + Len(t), data |-> d]
    BY <1>1, ArrayEdits
  <2>2. s.len + Len(t) \in Nat
    BY <1>2
  <2> HIDE DEF b
  <2> QED BY <1>2, <1>6, <2>1, <2>2, ArrayMade
<1> HIDE DEF b
<1>10. \A k \in 1 .. b.len : k \in 1 .. a.len \/ \E j \in 1 .. Len(t) : k = a.len + j
  <2> SUFFICES ASSUME NEW k \in 1 .. b.len, k \notin 1 .. a.len
               PROVE  \E j \in 1 .. Len(t) : k = a.len + j
    OBVIOUS
  <2>1. k - a.len \in 1 .. Len(t) /\ k = a.len + (k - a.len)
    BY <1>2, <1>9
  <2> QED BY <2>1
<1>11. \A k \in 1 .. a.len : d[k] = a.data[k] /\ a.data[k] \in D
  BY <1>7 DEF Keeps, Holds
<1>12. \A k \in 1 .. b.len : b.data[k] \in D
  BY <1>3, <1>8, <1>9, <1>10, <1>11
<1>13. Holds(b, S, D)
  BY <1>2, <1>6, <1>9, <1>12 DEF Holds
<1>14. Keeps(a, b, S)
  BY <1>1, <1>2, <1>6, <1>9, <1>11 DEF Keeps
<1>15. Content(b) = Content(a) \o t
  <2>1. b.len = a.len + Len(t) /\ \A k \in 1 .. a.len : b.data[k] = a.data[k]
    BY <1>9, <1>11
  <2>2. \A k \in 1 .. Len(t) : b.data[a.len + k] = t[k]
    BY <1>8, <1>9
  <2>3. Behind(a, b, t)
    BY <2>1, <2>2 DEF Behind
  <2> QED BY <1>13, <2>3, LongerContent
<1> QED BY <1>13, <1>14, <1>15 DEF b, d, WithJoined, JoinResult

(* alloc_str_clone(): the characters, in memory of the same capacity.      *)
Copied(a) == [k \in 1 .. Len(a.data) |-> IF k <= a.len THEN a.data[k] ELSE Junk]

LEMMA CopiedContent ==
    ASSUME NEW S, NEW D, Junk \in S, D \subseteq S, NEW a, Holds(a, S, D)
    PROVE  /\ Holds(WithMemory(a, a.id + 1, Copied(a)), S, D)
           /\ WithMemory(a, a.id + 1, Copied(a)).id = a.id + 1
           /\ Content(WithMemory(a, a.id + 1, Copied(a))) = Content(a)
<1>1. a \in Array(S) /\ a.len <= Len(a.data) /\ \A k \in 1 .. a.len : a.data[k] \in D
  BY DEF Holds
<1>2. a.id \in Nat /\ a.len \in Nat /\ a.data \in Seq(S) /\ Len(a.data) \in Nat
  BY <1>1, ArrayFields
<1> DEFINE d == Copied(a)
           b == WithMemory(a, a.id + 1, d)
<1>3. d \in Seq(S) /\ Len(d) = Len(a.data)
  <2>1. PICK n \in Nat : n = Len(a.data)
    BY <1>2
  <2>2. \A k \in 1 .. n : (IF k <= a.len THEN a.data[k] ELSE Junk) \in S
    BY <1>2, <2>1, ElementOfSeq
  <2>3. d = [k \in 1 .. n |-> IF k <= a.len THEN a.data[k] ELSE Junk]
    BY <2>1 DEF Copied
  <2>4. d \in [1 .. n -> S]
    BY <2>2, <2>3
  <2> HIDE DEF d
  <2> QED BY <2>1, <2>4
<1>4. \A k \in 1 .. a.len : d[k] = a.data[k]
  <2> SUFFICES ASSUME NEW k \in 1 .. a.len PROVE d[k] = a.data[k]
    OBVIOUS
  <2>1. k \in 1 .. Len(a.data) /\ k <= a.len
    BY <1>1, <1>2
  <2> QED BY <2>1 DEF Copied
<1> HIDE DEF d
<1>5. b \in Array(S) /\ b.id = a.id + 1 /\ b.len = a.len /\ b.data = d
  <2>1. b = [id |-> a.id + 1, len |-> a.len, data |-> d] /\ a.id + 1 \in Nat
    BY <1>1, <1>2, ArrayEdits
  <2> HIDE DEF b
  <2> QED BY <1>2, <1>3, <2>1, ArrayMade
<1> HIDE DEF b
<1>6. Holds(b, S, D)
  BY <1>1, <1>3, <1>4, <1>5 DEF Holds
<1>7. Content(b) = Content(a)
  BY <1>4, <1>5, <1>6, SameContent
<1> QED BY <1>5, <1>6, <1>7 DEF b, d

LEMMA ShortenedContent ==
    ASSUME NEW S, NEW D, NEW a, Holds(a, S, D)
    PROVE  /\ Holds(WithLength(a, 0), S, D) /\ WithLength(a, 0).id = a.id
           /\ Content(WithLength(a, 0)) = <<>>
<1> DEFINE b == WithLength(a, 0)
<1>1. a \in Array(S) /\ a.id \in Nat /\ a.data \in Seq(S) /\ Len(a.data) \in Nat
  BY ArrayFields DEF Holds
<1>2. b \in Array(S) /\ b.id = a.id /\ b.len = 0 /\ b.data = a.data
  <2>1. b = [id |-> a.id, len |-> 0, data |-> a.data]
    BY <1>1, ArrayEdits
  <2> HIDE DEF b
  <2>2. [id |-> a.id, len |-> 0, data |-> a.data] \in Array(S)
    BY <1>1 DEF Array
  <2> QED BY <2>1, <2>2
<1> HIDE DEF b
<1>3. Holds(b, S, D)
  BY <1>1, <1>2 DEF Holds
<1>4. Content(b) = <<>>
  BY <1>2, <1>3, EmptyContent
<1> QED BY <1>2, <1>3, <1>4 DEF b

LEMMA ConcatFacts ==
    ASSUME NEW S, NEW s \in Seq(S), NEW t \in Seq(S)
    PROVE  /\ s \o t \in Seq(S) /\ Len(s \o t) = Len(s) + Len(t)
           /\ \A k \in 1 .. Len(s) : (s \o t)[k] = s[k]
           /\ \A k \in 1 .. Len(t) : (s \o t)[Len(s) + k] = t[k]
OBVIOUS

(* The first of what is left moves to the end of what is there.            *)
LEMMA HeadMoves ==
    ASSUME NEW S, NEW a \in Seq(S), NEW r \in Seq(S), r # <<>>
    PROVE  /\ Head(r) \in S /\ Tail(r) \in Seq(S)
           /\ (a \o <<Head(r)>>) \o Tail(r) = a \o r
<1>1. Head(r) \in S /\ Tail(r) \in Seq(S)
  BY HeadTailProperties
<1> DEFINE h == <<Head(r)>>
           t == Tail(r)
<1>2. h \in Seq(S) /\ t \in Seq(S)
  BY <1>1
<1>3. h \o t = r
  <2>1. /\ Len(h) = 1 /\ h[1] = Head(r) /\ Head(r) = r[1]
        /\ Len(t) = Len(r) - 1 /\ \A k \in 1 .. Len(r) - 1 : t[k] = r[k + 1]
    OBVIOUS
  <2>0. Len(r) \in Nat /\ Len(t) \in Nat
    BY <1>2, LenProperties
  <2> HIDE DEF h, t
  <2>c. /\ h \o t \in Seq(S) /\ Len(h \o t) = 1 + Len(t) /\ (h \o t)[1] = h[1]
        /\ \A k \in 1 .. Len(t) : (h \o t)[1 + k] = t[k]
    <3>1. /\ h \o t \in Seq(S) /\ Len(h \o t) = Len(h) + Len(t)
          /\ \A k \in 1 .. Len(h) : (h \o t)[k] = h[k]
          /\ \A k \in 1 .. Len(t) : (h \o t)[Len(h) + k] = t[k]
      BY <1>2, ConcatFacts
    <3> QED BY <2>1, <3>1
  <2>2. h \o t \in Seq(S) /\ Len(h \o t) = Len(r)
    BY <2>0, <2>1, <2>c
  <2>3. \A k \in 1 .. Len(r) : (h \o t)[k] = r[k]
    <3> SUFFICES ASSUME NEW k \in 1 .. Len(r) PROVE (h \o t)[k] = r[k]
      OBVIOUS
    <3>1. CASE k = 1
      BY <2>1, <2>c, <3>1
    <3>2. CASE k # 1
      <4>1. PICK j \in 1 .. Len(t) : k = 1 + j
        <5>1. k - 1 \in 1 .. Len(t) /\ k = 1 + (k - 1)
          BY <2>0, <2>1, <3>2
        <5> QED BY <5>1
      <4>2. (h \o t)[1 + j] = t[j] /\ t[j] = r[j + 1] /\ j + 1 = k
        BY <2>0, <2>1, <2>c, <4>1
      <4> QED BY <4>1, <4>2
    <3> QED BY <3>1, <3>2
  <2> QED BY <2>2, <2>3, SeqEqual
<1> HIDE DEF h, t
<1>4. (a \o h) \o t = a \o (h \o t)
  BY <1>2, ConcatAssociative
<1>5. (a \o h) \o t = a \o r
  BY <1>3, <1>4
<1> QED BY <1>1, <1>5 DEF h, t

----------------------------------------------------------------------------
(* The steps.                                                              *)
TextOf == Content(string) \o rest
Pieces == Literals \cup {<<c>> : c \in Chars}

(* What AppendOnly allows of a step: to append, to empty, or to stutter.   *)
TextStep ==
    \/ \E piece \in Pieces : TextOf' = TextOf \o piece
    \/ TextOf' = <<>>
    \/ TextOf' = TextOf

LEMMA StringFacts ==
    ASSUME SInv
    PROVE  /\ Holds(string, Cells, Chars) /\ string \in Array(Cells)
           /\ string.id \in Nat /\ string.len \in Nat /\ Len(string.data) \in Nat
           /\ string.data \in Seq(Cells) /\ string.len <= Len(string.data)
           /\ Content(string) \in Seq(Chars) /\ Len(Content(string)) = string.len
           /\ rest \in Seq(Chars) /\ ViewOK(view, string)
           /\ Junk \in Cells /\ Chars \subseteq Cells
           /\ rest = <<>> => TextOf = Content(string)
<1>1. Holds(string, Cells, Chars) /\ rest \in Seq(Chars) /\ ViewOK(view, string)
  BY DEF SInv, StringOK
<1>2. Content(string) \in Seq(Chars) /\ Len(Content(string)) = string.len
  BY <1>1, ContentFacts
<1>3. string \in Array(Cells) /\ string.len <= Len(string.data)
  BY <1>1 DEF Holds
<1>4. /\ string.id \in Nat /\ string.len \in Nat /\ Len(string.data) \in Nat
      /\ string.data \in Seq(Cells)
  BY <1>3, ArrayFields
<1>5. Junk \in Cells /\ Chars \subseteq Cells
  BY DEF Cells
<1>6. rest = <<>> => TextOf = Content(string)
  BY <1>2, ConcatEmptySeq DEF TextOf
<1> QED BY <1>1, <1>2, <1>3, <1>4, <1>5, <1>6

LEMMA StringPushed ==
    ASSUME NEW s, Holds(s, Cells, Chars), NEW c \in Chars, NEW b \in Pushed(s, c)
    PROVE  /\ Holds(b, Cells, Chars) /\ Keeps(s, b, Cells)
           /\ Content(b) = Content(s) \o Single(c)
<1>1. Cells = Chars \cup {Junk}
  BY DEF Cells
<1>2. PushResult(Cells, Chars, s, c, b)
  BY <1>1, PushedContent
<1> QED BY <1>2 DEF PushResult

LEMMA PushSteps ==
    ASSUME SInv, NEW c \in Chars, Push(c)
    PROVE  SInv' /\ TextStep
<1>1. rest = <<>> /\ string' \in Pushed(string, c) /\ rest' = rest /\ view' = view
  BY DEF Push, OnString
<1>2. /\ Holds(string', Cells, Chars) /\ Keeps(string, string', Cells)
      /\ Content(string') = Content(string) \o Single(c)
  BY <1>1, StringFacts, StringPushed
<1>3. ViewOK(view, string')
  BY <1>2, StringFacts, ViewKept DEF StringOK
<1>4. SInv'
  BY <1>1, <1>2, <1>3, StringFacts DEF SInv, StringOK
<1>5. Content(string') \in Seq(Chars)
  BY <1>2, ContentFacts
<1>6. TextOf' = TextOf \o Single(c)
  BY <1>1, <1>2, <1>5, StringFacts, ConcatEmptySeq DEF TextOf
<1>7. Single(c) \in Pieces
  BY DEF Pieces, Single
<1> QED BY <1>4, <1>6, <1>7 DEF TextStep

LEMMA PushCstrSteps ==
    ASSUME SInv, NEW t \in Literals, PushCstr(t)
    PROVE  SInv' /\ TextStep
<1>1. rest = <<>> /\ string' = string /\ rest' = t /\ view' = view
  BY DEF PushCstr, OnString
<1>2. t \in Seq(Chars)
  BY CharAssumption
<1>3. SInv'
  BY <1>1, <1>2 DEF SInv
<1>4. TextOf' = TextOf \o t
  BY <1>1, StringFacts DEF TextOf
<1>5. t \in Pieces
  BY DEF Pieces
<1> QED BY <1>3, <1>4, <1>5 DEF TextStep

LEMMA PushNextSteps ==
    ASSUME SInv, PushNext
    PROVE  SInv' /\ TextStep
<1>1. rest # <<>> /\ string' \in Pushed(string, Head(rest)) /\ rest' = Tail(rest) /\ view' = view
  BY DEF PushNext
<1>2. rest \in Seq(Chars) /\ Content(string) \in Seq(Chars)
  BY StringFacts
<1>3. /\ Head(rest) \in Chars /\ Tail(rest) \in Seq(Chars)
      /\ (Content(string) \o <<Head(rest)>>) \o Tail(rest) = Content(string) \o rest
  BY <1>1, <1>2, HeadMoves
<1>4. /\ Holds(string', Cells, Chars) /\ Keeps(string, string', Cells)
      /\ Content(string') = Content(string) \o Single(Head(rest))
  BY <1>1, <1>3, StringFacts, StringPushed
<1>5. ViewOK(view, string')
  BY <1>4, StringFacts, ViewKept DEF StringOK
<1>6. SInv'
  BY <1>1, <1>3, <1>4, <1>5 DEF SInv, StringOK
<1>7. TextOf' = TextOf
  BY <1>1, <1>3, <1>4 DEF TextOf, Single
<1> QED BY <1>6, <1>7 DEF TextStep

LEMMA PushStrSteps ==
    ASSUME SInv, NEW t \in Literals, PushStr(t)
    PROVE  SInv' /\ TextStep
<1>1. rest = <<>> /\ rest' = rest /\ view' = view
  BY DEF PushStr, OnString
<1>2. PICK s \in Accomodated(string.len + Len(t)) :
         string' = WithJoined(s, t)
  BY DEF PushStr, WithJoined, WithText, Joined
<1>3. t \in Seq(Chars) /\ Len(t) \in Nat
  BY CharAssumption
<1>4. Keeps(string, s, Cells) /\ s.len = string.len /\ string.len + Len(t) <= Len(s.data)
  <2>1. CASE Len(string.data) < string.len + Len(t)
    <3>1. s \in Realloc(string, string.len + Len(t))
      BY <1>2, <2>1 DEF Accomodated, Capacity
    <3>2. string.len + Len(t) \in Nat /\ string.len + Len(t) >= Len(string.data)
      BY <1>3, <2>1, StringFacts
    <3>3. Keeps(string, s, Cells) /\ s.len = string.len /\ Len(s.data) = string.len + Len(t)
      BY <3>1, <3>2, StringFacts, ReallocFacts
    <3> QED BY <3>2, <3>3
  <2>2. CASE ~ (Len(string.data) < string.len + Len(t))
    <3>1. s = string
      BY <1>2, <2>2 DEF Accomodated, Capacity
    <3>2. Keeps(string, string, Cells)
      BY StringFacts DEF Keeps
    <3>3. string.len + Len(t) <= Len(string.data)
      BY <1>3, <2>2, StringFacts
    <3> QED BY <3>1, <3>2, <3>3
  <2> QED BY <2>1, <2>2
<1>5. /\ Holds(string', Cells, Chars) /\ Keeps(string, string', Cells)
      /\ Content(string') = Content(string) \o t
  <2>1. JoinResult(Cells, Chars, string, t, WithJoined(s, t))
    BY <1>3, <1>4, StringFacts, JoinedContent
  <2> QED BY <1>2, <2>1 DEF JoinResult
<1>6. ViewOK(view, string')
  BY <1>5, StringFacts, ViewKept DEF StringOK
<1>7. SInv'
  BY <1>1, <1>5, <1>6, StringFacts DEF SInv, StringOK
<1>8. Content(string') \in Seq(Chars)
  BY <1>5, ContentFacts
<1>9. TextOf' = TextOf \o t
  BY <1>1, <1>5, <1>8, StringFacts, ConcatEmptySeq DEF TextOf
<1>10. t \in Pieces
  BY DEF Pieces
<1> QED BY <1>7, <1>9, <1>10 DEF TextStep

LEMMA PopAllSteps ==
    ASSUME SInv, PopAll
    PROVE  SInv' /\ TextStep
<1>1. /\ rest = <<>> /\ rest' = rest /\ string' = WithLength(string, 0)
      /\ view' = [view EXCEPT !.emptied = TRUE]
  BY DEF PopAll, OnString, WithLength
<1>2. Holds(string', Cells, Chars) /\ string'.id = string.id /\ Content(string') = <<>>
  BY <1>1, StringFacts, ShortenedContent
<1>3. ViewOK(view', string')
  BY <1>1, <1>2, StringFacts, ViewEmptied
<1>4. SInv'
  BY <1>1, <1>2, <1>3, StringFacts DEF SInv, StringOK
<1>5. TextOf' = <<>>
  BY <1>1, <1>2 DEF TextOf
<1> QED BY <1>4, <1>5 DEF TextStep

(* The clone is elsewhere: a view of the freed memory says nothing.        *)
LEMMA CloneSteps ==
    ASSUME SInv, CloneAndFree
    PROVE  SInv' /\ TextStep
<1>1. rest' = rest /\ view' = view /\ string' = WithMemory(string, string.id + 1, Copied(string))
  BY DEF CloneAndFree, OnString, WithMemory, Copied
<1>2. /\ Holds(string', Cells, Chars) /\ string'.id = string.id + 1
      /\ Content(string') = Content(string)
  BY <1>1, StringFacts, CopiedContent
<1>3. ViewOK(view, string')
  <2>1. view \in Views /\ Len(view.text) = view.len /\ view.id <= string.id /\ view.id \in Nat
    BY StringFacts DEF ViewOK, Views
  <2>2. view.id <= string.id + 1 /\ view.id # string.id + 1
    BY <2>1, StringFacts
  <2> QED BY <1>2, <2>1, <2>2 DEF ViewOK
<1>4. SInv'
  BY <1>1, <1>2, <1>3, StringFacts DEF SInv, StringOK
<1>5. TextOf' = TextOf
  BY <1>1, <1>2 DEF TextOf
<1> QED BY <1>4, <1>5 DEF TextStep

LEMMA TakeViewSteps ==
    ASSUME SInv, NEW begin \in 0 .. MaxLength, NEW len \in 0 .. MaxLength, TakeView(begin, len)
    PROVE  SInv' /\ TextStep
<1> DEFINE w == [id |-> string.id, begin |-> begin, len |-> len, emptied |-> FALSE,
                 text |-> Slice(string.data, begin, len)]
<1>1. rest' = rest /\ string' = string /\ begin + len <= string.len /\ view' = w
  BY DEF TakeView, OnString, Slice
<1>2. begin \in Nat /\ len \in Nat /\ begin + len <= Len(string.data)
  BY <1>1, StringFacts, BoundsAssumption
<1> DEFINE t == Slice(string.data, begin, len)
<1>3. /\ t \in Seq(Cells) /\ Len(t) = len
      /\ \A k \in 1 .. len : t[k] = string.data[begin + k]
  BY <1>2, StringFacts, SliceFacts
<1> HIDE DEF t
<1>4. w = [id |-> string.id, begin |-> begin, len |-> len, emptied |-> FALSE, text |-> t]
  BY DEF t
<1> HIDE DEF w
<1>5. /\ w.id = string.id /\ w.begin = begin /\ w.len = len /\ w.text = t /\ w \in Views
  BY <1>2, <1>3, <1>4, StringFacts DEF Views
<1>6. string.id <= string.id
  BY StringFacts
<1>7. ViewOK(w, string)
  BY <1>1, <1>3, <1>5, <1>6 DEF ViewOK
<1>8. SInv'
  BY <1>1, <1>7, StringFacts DEF SInv, StringOK
<1>9. TextOf' = TextOf
  BY <1>1 DEF TextOf
<1> QED BY <1>8, <1>9 DEF TextStep

LEMMA OtherSteps ==
    ASSUME SInv, UNCHANGED <<string, rest, view>>
    PROVE  SInv' /\ TextStep
<1>1. SInv'
  BY DEF SInv
<1>2. TextOf' = TextOf
  BY DEF TextOf
<1> QED BY <1>1, <1>2 DEF TextStep

LEMMA StringsSteps ==
    ASSUME SInv, [Next]_vars
    PROVE  SInv' /\ TextStep
<1>1. CASE UNCHANGED vars
  BY <1>1, OtherSteps DEF vars, stringvars
<1>2. CASE \E key \in Literals, v \in Values : Rebind(key, v) \/ BindNew(key, v)
  <2>1. UNCHANGED <<string, rest, view>>
    BY <1>2 DEF Rebind, BindNew, stringvars
  <2> QED BY <2>1, OtherSteps
<1>3. CASE StringsNext
  <2>1. CASE \E c \in Chars : Push(c)
    BY <2>1, PushSteps
  <2>2. CASE \E t \in Literals : PushCstr(t)
    BY <2>2, PushCstrSteps
  <2>3. CASE \E t \in Literals : PushStr(t)
    BY <2>3, PushStrSteps
  <2>4. CASE \E t \in Literals : PushLink(t) \/ PushLinkFull(t)
    <3>1. UNCHANGED <<string, rest, view>>
      BY <2>4 DEF PushLink, PushLinkFull
    <3> QED BY <3>1, OtherSteps
  <2>5. CASE PushNext
    BY <2>5, PushNextSteps
  <2>6. CASE PopAll
    BY <2>6, PopAllSteps
  <2>7. CASE CloneAndFree
    BY <2>7, CloneSteps
  <2>8. CASE NewMessage \/ Aborted
    <3>1. UNCHANGED <<string, rest, view>>
      BY <2>8 DEF NewMessage, Aborted, stringvars
    <3> QED BY <3>1, OtherSteps
  <2>9. CASE \E begin, len \in 0 .. MaxLength : TakeView(begin, len)
    BY <2>9, TakeViewSteps
  <2> QED BY <1>3, <2>1, <2>2, <2>3, <2>4, <2>5, <2>6, <2>7, <2>8, <2>9 DEF StringsNext
<1> QED BY <1>1, <1>2, <1>3 DEF Next

LEMMA StringsStart ==
    ASSUME Init
    PROVE  SInv /\ TextOf = <<>>
<1>1. PICK n \in Nat : string = Alloc(n)
  <2>1. 0 \in Nat /\ DefaultSize \in Nat
    BY SizeAssumption
  <2> QED BY <2>1 DEF Init, StringsInit
<1>2. string.id = 1 /\ string.len = 0 /\ Holds(string, Cells, Chars)
  BY <1>1, AllocFacts DEF Cells
<1>3. rest = <<>> /\ view = [id |-> 1, begin |-> 0, len |-> 0, text |-> <<>>, emptied |-> FALSE]
  BY DEF Init, StringsInit
<1> DEFINE t == <<>>
<1>4. t \in Seq(Cells) /\ t \in Seq(Chars) /\ Len(t) = 0
  OBVIOUS
<1>5. view = [id |-> 1, begin |-> 0, len |-> 0, text |-> t, emptied |-> FALSE] /\ rest = t
  BY <1>3
<1> HIDE DEF t
<1>6. view.id = 1 /\ view.begin = 0 /\ view.len = 0 /\ view.text = t /\ view \in Views
  BY <1>4, <1>5 DEF Views
<1>7. ViewOK(view, string)
  BY <1>2, <1>4, <1>6 DEF ViewOK
<1>8. SInv
  BY <1>2, <1>4, <1>5, <1>7 DEF SInv, StringOK
<1>9. Content(string) = <<>>
  BY <1>2, EmptyContent
<1>10. TextOf = <<>>
  BY <1>3, <1>9 DEF TextOf
<1> QED BY <1>8, <1>10

(* The invariant: the text, what is left to append, and the view.          *)
THEOREM StringsInvariant == Spec => []SInv
<1>1. Init => SInv
  BY StringsStart
<1>2. SInv /\ [Next]_vars => SInv'
  BY StringsSteps
<1> QED BY <1>1, <1>2, PTL DEF Spec

(* A String is text that its owner appends to and empties, however its     *)
(* memory grows and wherever realloc() leaves it: ImplementsAppendOnly.    *)
THEOREM AppendOnlyProved == Spec => ImplementsAppendOnly
<1>1. Init => TextOf = <<>>
  BY StringsStart
<1>2. SInv /\ [Next]_vars => [Text!AppendPiece \/ Text!Empty]_TextOf
  BY StringsSteps DEF TextStep, Text!AppendPiece, Text!Empty, TextOf, Pieces
<1>3. ImplementsAppendOnly <=> TextOf = <<>> /\ [][Text!AppendPiece \/ Text!Empty]_TextOf
  BY DEF ImplementsAppendOnly, Text!Spec, TextOf
<1> QED BY <1>1, <1>2, <1>3, StringsInvariant, PTL DEF Spec

(* A view shows what it showed, until the string is emptied or moved, of   *)
(* every string and every view: ViewKeepsText.                             *)
THEOREM ViewProved == Spec => []ViewKeepsText
<1>1. SInv => ViewKeepsText
  <2> SUFFICES ASSUME SInv, view.id = string.id, ~ view.emptied
               PROVE  SubSeq(string.data, view.begin + 1, view.begin + view.len) = view.text
    BY DEF ViewKeepsText
  <2>1. /\ view.begin + view.len <= string.len
        /\ \A k \in 1 .. view.len : string.data[view.begin + k] = view.text[k]
        /\ view \in Views /\ Len(view.text) = view.len
    BY StringFacts DEF ViewOK
  <2>2. view.begin \in Nat /\ view.len \in Nat /\ view.text \in Seq(Cells)
    BY <2>1 DEF Views
  <2>3. view.begin + view.len <= Len(string.data)
    BY <2>1, <2>2, StringFacts
  <2> DEFINE t == Slice(string.data, view.begin, view.len)
  <2>4. /\ t \in Seq(Cells) /\ Len(t) = view.len
        /\ \A k \in 1 .. view.len : t[k] = string.data[view.begin + k]
    <3>1. PICK s \in Seq(Cells), b \in Nat, n \in Nat :
             s = string.data /\ b = view.begin /\ n = view.len
      BY <2>2, StringFacts
    <3>2. /\ Slice(s, b, n) \in Seq(Cells) /\ Len(Slice(s, b, n)) = n
          /\ \A k \in 1 .. n : Slice(s, b, n)[k] = s[b + k]
      <4>1. b + n <= Len(s)
        BY <2>3, <3>1
      <4> QED BY <4>1, SliceFacts
    <3> QED BY <3>1, <3>2
  <2> HIDE DEF t
  <2>5. \A k \in 1 .. Len(t) : t[k] = view.text[k]
    BY <2>1, <2>4
  <2>6. t = view.text
    BY <2>1, <2>2, <2>4, <2>5, SeqEqual
  <2> QED BY <2>6 DEF t, Slice
<1> QED BY <1>1, StringsInvariant, PTL

(* strv_cmp() and strv_cmpcstr() order every text and every literal:       *)
(* ComparesInOrder.                                                        *)
THEOREM ComparesProved == Spec => []ComparesInOrder
<1>1. SInv => ComparesInOrder
  <2> SUFFICES ASSUME SInv, NEW literal \in Literals
               PROVE  LET text == Content(string)
                          order == Compare(text, literal)
                      IN  /\ order = 0 <=> text = literal
                          /\ order < 0 <=> Before(text, literal)
                          /\ order > 0 <=> Before(literal, text)
                          /\ CompareCstr(text, literal) = order
                          /\ Compare(literal, text) = - order
    BY DEF ComparesInOrder
  <2>1. PICK s \in Seq(Chars) : s = Content(string)
    BY StringFacts
  <2>2. literal \in Seq(Chars) /\ Chars \subseteq Nat \ {0}
    BY CharAssumption
  <2>3. InOrder(s, literal)
    BY <2>2, ComparesFacts
  <2> QED BY <2>1, <2>3 DEF InOrder
<1> QED BY <1>1, StringsInvariant, PTL

----------------------------------------------------------------------------
(* The bindings.                                                           *)
Entries == [word : Literals, value : Values]
Slots == Entries \cup {Junk}

EInv == Holds(bindings, Slots, Entries)

(* The entries of a word, and what is found of it, in any array.           *)
MatchesIn(a, key) == {k \in 1 .. a.len : a.data[k].word = key}

Bound(v) == [is_bound |-> TRUE, value |-> v]
Unbound == [is_bound |-> FALSE, value |-> Junk]

FoundIn(a, key) ==
    IF MatchesIn(a, key) # {} THEN Bound(a.data[Least(MatchesIn(a, key))].value) ELSE Unbound

(* Words are compared: strv_cmp() is 0 for the entries of the word only.   *)
LEMMA WordsMatch ==
    ASSUME NEW a, Holds(a, Slots, Entries), NEW key \in Literals
    PROVE  {k \in 1 .. a.len : Compare(a.data[k].word, key) = 0} = MatchesIn(a, key)
<1>1. \A k \in 1 .. a.len : a.data[k].word \in Literals
  BY DEF Holds, Entries
<1>2. Literals \subseteq Seq(Nat)
  <2> SUFFICES ASSUME NEW t \in Literals PROVE t \in Seq(Nat)
    OBVIOUS
  <2>1. t \in Seq(Chars) /\ Chars \subseteq Nat
    BY CharAssumption
  <2> QED BY <2>1, SeqMonotonic
<1>3. \A s \in Literals : Compare(s, key) = 0 <=> s = key
  BY <1>2, CompareEqual
<1>4. \A k \in 1 .. a.len : Compare(a.data[k].word, key) = 0 <=> a.data[k].word = key
  BY <1>1, <1>3
<1> QED BY <1>4 DEF MatchesIn

LEMMA FirstMatch ==
    ASSUME NEW a, NEW key, a.len \in Nat, MatchesIn(a, key) # {}
    PROVE  /\ Least(MatchesIn(a, key)) \in 1 .. a.len
           /\ a.data[Least(MatchesIn(a, key))].word = key
<1>1. MatchesIn(a, key) \subseteq Nat
  BY DEF MatchesIn
<1>2. Least(MatchesIn(a, key)) \in MatchesIn(a, key)
  BY <1>1, LeastExists
<1> QED BY <1>2 DEF MatchesIn

(* The value of a binding, replaced where it is.                           *)
WithValue(a, i, v) == [a EXCEPT !.data[i].value = v]

LEMMA WithValueFacts ==
    ASSUME NEW a, Holds(a, Slots, Entries), NEW i \in 1 .. a.len, NEW v \in Values
    PROVE  /\ Holds(WithValue(a, i, v), Slots, Entries)
           /\ WithValue(a, i, v).len = a.len
           /\ WithValue(a, i, v).data[i] = [word |-> a.data[i].word, value |-> v]
           /\ \A k \in 1 .. a.len : k # i => WithValue(a, i, v).data[k] = a.data[k]
<1>1. a \in Array(Slots) /\ a.len <= Len(a.data) /\ \A k \in 1 .. a.len : a.data[k] \in Entries
  BY DEF Holds
<1>2. a.len \in Nat /\ a.data \in Seq(Slots) /\ Len(a.data) \in Nat /\ a.id \in Nat
  BY <1>1, ArrayFields
<1> DEFINE e == [a.data[i] EXCEPT !.value = v]
           d == [a.data EXCEPT ![i] = e]
           b == WithValue(a, i, v)
<1>3. e = [word |-> a.data[i].word, value |-> v] /\ e \in Entries
  BY <1>1 DEF Entries
<1>4. b = [a EXCEPT !.data = d]
  BY DEF WithValue
<1> HIDE DEF e
<1>5. i \in 1 .. Len(a.data) /\ e \in Slots
  BY <1>1, <1>2, <1>3 DEF Slots
<1>6. /\ d \in Seq(Slots) /\ Len(d) = Len(a.data) /\ d[i] = e
      /\ \A k \in 1 .. Len(a.data) : k # i => d[k] = a.data[k]
  BY <1>2, <1>5
<1> HIDE DEF d, b
<1>7. b = [id |-> a.id, len |-> a.len, data |-> d]
  BY <1>1, <1>4 DEF Array
<1>8. b \in Array(Slots) /\ b.len = a.len /\ b.data = d
  BY <1>2, <1>6, <1>7, ArrayMade
<1>9. \A k \in 1 .. a.len : k \in 1 .. Len(a.data)
  BY <1>1, <1>2
<1>10. \A k \in 1 .. a.len : k # i => b.data[k] = a.data[k]
  BY <1>6, <1>8, <1>9
<1>11. Holds(b, Slots, Entries)
  <2>1. \A k \in 1 .. b.len : b.data[k] \in Entries
    BY <1>1, <1>3, <1>6, <1>8, <1>10
  <2> QED BY <1>1, <1>6, <1>8, <2>1 DEF Holds
<1> QED BY <1>3, <1>6, <1>8, <1>10, <1>11 DEF b

(* bind() of a word that is bound: nothing else is found of other words.   *)
LEMMA RebindFinds ==
    ASSUME NEW a, Holds(a, Slots, Entries), NEW key, MatchesIn(a, key) # {}, NEW v \in Values, NEW w
    PROVE  FoundIn(WithValue(a, Least(MatchesIn(a, key)), v), w) =
               IF w = key THEN Bound(v) ELSE FoundIn(a, w)
<1> DEFINE i == Least(MatchesIn(a, key))
           b == WithValue(a, i, v)
<1>1. a.len \in Nat
  BY ContentFacts
<1>2. i \in 1 .. a.len /\ a.data[i].word = key
  BY <1>1, FirstMatch
<1> HIDE DEF i
<1>3. /\ b.len = a.len /\ b.data[i] = [word |-> a.data[i].word, value |-> v]
      /\ \A k \in 1 .. a.len : k # i => b.data[k] = a.data[k]
  BY <1>2, WithValueFacts
<1> HIDE DEF b
<1>4. b.data[i].word = key /\ b.data[i].value = v
  BY <1>2, <1>3
<1>5. \A k \in 1 .. a.len : b.data[k].word = a.data[k].word
  BY <1>2, <1>3, <1>4
<1>6. MatchesIn(b, w) = MatchesIn(a, w)
  BY <1>3, <1>5 DEF MatchesIn
<1>7. CASE w = key
  <2>1. Least(MatchesIn(b, w)) = i /\ MatchesIn(b, w) # {}
    BY <1>6, <1>7 DEF i
  <2>2. FoundIn(b, w) = Bound(v)
    BY <1>4, <2>1 DEF FoundIn
  <2> QED BY <1>7, <2>2 DEF b, i
<1>8. CASE w # key
  <2>1. CASE MatchesIn(a, w) = {}
    <3>1. FoundIn(b, w) = Unbound /\ FoundIn(a, w) = Unbound
      BY <1>6, <2>1 DEF FoundIn
    <3> QED BY <1>8, <3>1 DEF b, i
  <2>2. CASE MatchesIn(a, w) # {}
    <3>1. PICK j : j = Least(MatchesIn(a, w))
      OBVIOUS
    <3>2. j \in 1 .. a.len /\ a.data[j].word = w
      BY <1>1, <2>2, <3>1, FirstMatch
    <3>3. b.data[j] = a.data[j]
      BY <1>2, <1>3, <1>8, <3>2
    <3>4. FoundIn(b, w) = FoundIn(a, w)
      BY <1>6, <2>2, <3>1, <3>3 DEF FoundIn
    <3> QED BY <1>8, <3>4 DEF b, i
  <2> QED BY <2>1, <2>2
<1> QED BY <1>7, <1>8

Entry(key, v) == [word |-> key, value |-> v]

(* bind() of a new word: it is found, at the end, and only it is new.      *)
LEMMA BindFinds ==
    ASSUME NEW a, Holds(a, Slots, Entries), NEW key, MatchesIn(a, key) = {}, NEW v, NEW b, NEW w,
           PushResult(Slots, Entries, a, Entry(key, v), b)
    PROVE  FoundIn(b, w) = IF w = key THEN Bound(v) ELSE FoundIn(a, w)
<1>1. PICK n \in Nat : n = a.len
  BY ContentFacts
<1>2. b.data[n + 1].word = key /\ b.data[n + 1].value = v /\ b.len = n + 1
  BY <1>1 DEF PushResult, Entry
<1>3. \A k \in 1 .. n : b.data[k] = a.data[k]
  BY <1>1 DEF Keeps, PushResult
<1>4. \A k : k \in 1 .. b.len <=> k \in 1 .. n \/ k = n + 1
  BY <1>2
<1>5. \A k \in 1 .. n : a.data[k].word # key
  BY <1>1 DEF MatchesIn
<1>6. CASE w = key
  <2>1. MatchesIn(b, w) = {n + 1}
    BY <1>2, <1>3, <1>4, <1>5, <1>6 DEF MatchesIn
  <2>2. \A k \in {n + 1} : n + 1 <= k
    OBVIOUS
  <2>3. Least({n + 1}) = n + 1
    BY <2>2, LeastIs
  <2>4. FoundIn(b, w) = Bound(v)
    BY <1>2, <2>1, <2>3 DEF FoundIn
  <2> QED BY <1>6, <2>4
<1>7. CASE w # key
  <2>1. MatchesIn(b, w) = MatchesIn(a, w)
    BY <1>1, <1>2, <1>3, <1>4, <1>7 DEF MatchesIn
  <2>2. CASE MatchesIn(a, w) = {}
    BY <1>7, <2>1, <2>2 DEF FoundIn
  <2>3. CASE MatchesIn(a, w) # {}
    <3>1. PICK j : j = Least(MatchesIn(a, w))
      OBVIOUS
    <3>2. j \in 1 .. n
      BY <1>1, <2>3, <3>1, FirstMatch
    <3>3. b.data[j] = a.data[j]
      BY <1>3, <3>2
    <3> QED BY <1>7, <2>1, <2>3, <3>1, <3>3 DEF FoundIn
  <2> QED BY <2>2, <2>3
<1> QED BY <1>6, <1>7

MapIn(a) == [w \in Literals |-> FoundIn(a, w)]
MapOf == [w \in Literals |-> LookupBindings(w)]

LEMMA LookupFinds ==
    ASSUME EInv
    PROVE  MapOf = MapIn(bindings) /\ \A key \in Literals : Matches(key) = MatchesIn(bindings, key)
<1>1. ASSUME NEW key \in Literals PROVE Matches(key) = MatchesIn(bindings, key)
  BY WordsMatch DEF EInv, Matches
<1>2. \A key \in Literals : LookupBindings(key) = FoundIn(bindings, key)
  BY <1>1 DEF LookupBindings, FoundIn, Bound, Unbound
<1> QED BY <1>1, <1>2 DEF MapOf, MapIn

LEMMA LookupFindsNext ==
    ASSUME EInv'
    PROVE  MapOf' = MapIn(bindings')
<1>1. ASSUME NEW key \in Literals PROVE Matches(key)' = MatchesIn(bindings', key)
  BY WordsMatch DEF EInv, Matches
<1>2. \A key \in Literals : LookupBindings(key)' = FoundIn(bindings', key)
  BY <1>1 DEF LookupBindings, FoundIn, Bound, Unbound
<1> QED BY <1>2 DEF MapOf, MapIn

LEMMA BindingsSteps ==
    ASSUME EInv, [Next]_vars
    PROVE  EInv' /\ [Dictionary!Next]_MapOf
<1>1. CASE bindings' = bindings
  <2>1. EInv'
    BY <1>1 DEF EInv
  <2>2. MapOf' = MapOf
    BY <1>1, <2>1, LookupFinds, LookupFindsNext
  <2> QED BY <2>1, <2>2
<1>2. ASSUME NEW key \in Literals, NEW v \in Values, Rebind(key, v)
      PROVE  EInv' /\ [Dictionary!Next]_MapOf
  <2>1. MatchesIn(bindings, key) # {} /\ Matches(key) = MatchesIn(bindings, key)
    BY <1>2, LookupFinds DEF Rebind
  <2>2. bindings' = WithValue(bindings, Least(MatchesIn(bindings, key)), v)
    BY <1>2, <2>1 DEF Rebind, WithValue
  <2>3. bindings.len \in Nat
    BY ContentFacts DEF EInv
  <2>4. Least(MatchesIn(bindings, key)) \in 1 .. bindings.len
    BY <2>1, <2>3, FirstMatch
  <2>5. EInv'
    BY <2>2, <2>4, WithValueFacts DEF EInv
  <2>6. \A w \in Literals : FoundIn(bindings', w) = IF w = key THEN Bound(v) ELSE FoundIn(bindings, w)
    BY <2>1, <2>2, RebindFinds DEF EInv
  <2>7. MapIn(bindings') = [MapIn(bindings) EXCEPT ![key] = Bound(v)]
    BY <2>6 DEF MapIn
  <2>8. Dictionary!Bind(key, v) <=> MapOf' = [MapOf EXCEPT ![key] = Bound(v)]
    BY DEF Dictionary!Bind, MapOf, Bound
  <2>9. Dictionary!Next
    BY <2>5, <2>7, <2>8, LookupFinds, LookupFindsNext DEF Dictionary!Next
  <2> QED BY <2>5, <2>9
<1>3. ASSUME NEW key \in Literals, NEW v \in Values, BindNew(key, v)
      PROVE  EInv' /\ [Dictionary!Next]_MapOf
  <2> DEFINE x == Entry(key, v)
  <2>1. MatchesIn(bindings, key) = {}
    BY <1>3, LookupFinds DEF BindNew
  <2>2. x \in Entries /\ Slots = Entries \cup {Junk}
    BY DEF Entries, Slots, Entry
  <2>3. bindings' \in Pushed(bindings, x)
    BY <1>3 DEF BindNew, Entry
  <2> HIDE DEF x
  <2>4. PushResult(Slots, Entries, bindings, x, bindings')
    BY <2>2, <2>3, PushedContent DEF EInv
  <2>5. EInv'
    BY <2>4 DEF EInv, PushResult
  <2>6. \A w \in Literals : FoundIn(bindings', w) = IF w = key THEN Bound(v) ELSE FoundIn(bindings, w)
    BY <2>1, <2>4, BindFinds DEF EInv, x
  <2>7. MapIn(bindings') = [MapIn(bindings) EXCEPT ![key] = Bound(v)]
    BY <2>6 DEF MapIn
  <2>8. Dictionary!Bind(key, v) <=> MapOf' = [MapOf EXCEPT ![key] = Bound(v)]
    BY DEF Dictionary!Bind, MapOf, Bound
  <2>9. Dictionary!Next
    BY <2>5, <2>7, <2>8, LookupFinds, LookupFindsNext DEF Dictionary!Next
  <2> QED BY <2>5, <2>9
<1>4. \/ bindings' = bindings
      \/ \E key \in Literals, v \in Values : Rebind(key, v) \/ BindNew(key, v)
  BY DEF Next, vars
<1> QED BY <1>1, <1>2, <1>3, <1>4

LEMMA BindingsStart ==
    ASSUME Init
    PROVE  EInv /\ \A w \in Literals : MapOf[w] = Unbound
<1>1. bindings = Alloc(DefaultSize) /\ DefaultSize \in Nat
  BY SizeAssumption DEF Init
<1>2. bindings.len = 0 /\ Holds(bindings, Slots, Entries)
  BY <1>1, AllocFacts DEF Slots
<1>3. EInv
  BY <1>2 DEF EInv
<1>4. \A w : FoundIn(bindings, w) = Unbound
  BY <1>2 DEF FoundIn, MatchesIn
<1> QED BY <1>3, <1>4, LookupFinds DEF MapIn

(* The invariant of the bindings: entries only, in an array with room.     *)
THEOREM BindingsInvariant == Spec => []EInv
<1>1. Init => EInv
  BY BindingsStart
<1>2. EInv /\ [Next]_vars => EInv'
  BY BindingsSteps
<1> QED BY <1>1, <1>2, PTL DEF Spec

(* bind() and lookup_bindings() are a map, for any words, values and sizes *)
(* of the array: ImplementsDictionary.                                     *)
THEOREM DictionaryProved == Spec => ImplementsDictionary
<1>1. Init => Dictionary!Init
  BY BindingsStart DEF Dictionary!Init, MapOf, Unbound
<1>2. EInv /\ [Next]_vars => [Dictionary!Next]_MapOf
  BY BindingsSteps
<1>3. ImplementsDictionary <=> Dictionary!Init /\ [][Dictionary!Next]_MapOf
  BY DEF ImplementsDictionary, Dictionary!Spec, MapOf
<1> QED BY <1>1, <1>2, <1>3, BindingsInvariant, PTL DEF Spec

----------------------------------------------------------------------------
(* The chain.  The links, and the parts of a message, one after another.   *)
Total(g, n) ==
    LET upto[k \in 0 .. n] == IF k = 0 THEN <<>> ELSE upto[k - 1] \o g[k]
    IN  upto[n]

Gathers(f, g, n) == f = [k \in 0 .. n |-> IF k = 0 THEN <<>> ELSE f[k - 1] \o g[k]]

LEMMA GathersFacts ==
    ASSUME NEW f, NEW g, NEW n \in Nat, Gathers(f, g, n)
    PROVE  f[0] = <<>> /\ \A k \in 1 .. n : f[k] = f[k - 1] \o g[k]
<1> DEFINE Part(k) == IF k = 0 THEN <<>> ELSE f[k - 1] \o g[k]
<1>1. \A k \in 0 .. n : f[k] = Part(k)
  <2>1. f = [k \in 0 .. n |-> Part(k)]
    BY DEF Gathers
  <2> HIDE DEF Part
  <2> QED BY <2>1
<1>2. f[0] = Part(0)
  BY <1>1
<1>3. ASSUME NEW k \in 1 .. n PROVE f[k] = f[k - 1] \o g[k]
  <2>1. k \in 0 .. n /\ k # 0
    OBVIOUS
  <2>2. f[k] = Part(k)
    BY <1>1, <2>1
  <2> QED BY <2>1, <2>2
<1> QED BY <1>2, <1>3

LEMMA GathersExists ==
    ASSUME NEW g, NEW n \in Nat
    PROVE  \E f : Gathers(f, g, n)
<1> SUFFICES ASSUME ~ \E f : Gathers(f, g, n) PROVE FALSE
  OBVIOUS
<1> DEFINE T == {m \in Nat : ~ \E f : Gathers(f, g, m)}
<1>1. PICK m \in T : \A k \in T : m <= k
  <2>1. T \subseteq Nat /\ n \in T
    OBVIOUS
  <2> HIDE DEF T
  <2> QED BY <2>1, NatLeast
<1>2. CASE m = 0
  <2> DEFINE f == [k \in 0 .. 0 |-> <<>>]
  <2>1. f = [k \in 0 .. 0 |-> IF k = 0 THEN <<>> ELSE f[k - 1] \o g[k]]
    OBVIOUS
  <2>2. Gathers(f, g, 0)
    BY <2>1 DEF Gathers
  <2> QED BY <1>2, <2>2
<1>3. CASE m # 0
  <2>1. m - 1 \in Nat /\ m - 1 \notin T /\ m \in Nat
    BY <1>1, <1>3
  <2>2. PICK f : Gathers(f, g, m - 1)
    BY <2>1
  <2> DEFINE h == [k \in 0 .. m |-> IF k = m THEN f[m - 1] \o g[m] ELSE f[k]]
             Part(k) == IF k = 0 THEN <<>> ELSE h[k - 1] \o g[k]
  <2>3. f[0] = <<>> /\ \A k \in 1 .. m - 1 : f[k] = f[k - 1] \o g[k]
    BY <2>1, <2>2, GathersFacts
  <2>4. h[m] = f[m - 1] \o g[m] /\ \A k \in 0 .. m - 1 : h[k] = f[k]
    <3>1. m \in 0 .. m /\ \A k \in 0 .. m - 1 : k \in 0 .. m /\ k # m
      BY <2>1
    <3>2. h[m] = f[m - 1] \o g[m]
      BY <3>1
    <3>3. \A k \in 0 .. m - 1 : h[k] = f[k]
      BY <3>1
    <3> QED BY <3>2, <3>3
  <2>5. ASSUME NEW k \in 0 .. m PROVE h[k] = Part(k)
    <3> HIDE DEF h
    <3>1. CASE k = 0
      <4>1. h[0] = <<>>
        BY <2>1, <2>3, <2>4
      <4> QED BY <3>1, <4>1
    <3>2. CASE k = m
      <4>1. h[m - 1] = f[m - 1]
        BY <2>1, <2>4
      <4> QED BY <1>3, <2>4, <3>2, <4>1
    <3>3. CASE k # 0 /\ k # m
      <4>1. k \in 1 .. m - 1 /\ k \in 0 .. m - 1 /\ k - 1 \in 0 .. m - 1
        BY <2>1, <3>3
      <4>2. h[k] = f[k] /\ h[k - 1] = f[k - 1] /\ f[k] = f[k - 1] \o g[k]
        BY <2>3, <2>4, <4>1
      <4> QED BY <3>3, <4>2
    <3> QED BY <3>1, <3>2, <3>3
  <2>6. h = [k \in 0 .. m |-> Part(k)]
    <3> DEFINE e == [k \in 0 .. m |-> Part(k)]
    <3>1. \A k \in 0 .. m : e[k] = Part(k)
      <4> HIDE DEF Part
      <4> QED OBVIOUS
    <3>2. \A k \in 0 .. m : h[k] = e[k]
      BY <2>5, <3>1
    <3> HIDE DEF Part
    <3> QED BY <3>2
  <2>7. Gathers(h, g, m)
    <3> HIDE DEF h
    <3> QED BY <2>6 DEF Gathers
  <2> QED BY <2>7
<1> QED BY <1>2, <1>3

LEMMA GathersAgree ==
    ASSUME NEW g, NEW e, NEW h, NEW m \in Nat, NEW n \in Nat, m <= n, Gathers(e, g, m), Gathers(h, g, n)
    PROVE  \A k \in 0 .. m : e[k] = h[k]
<1> SUFFICES ASSUME NEW j \in 0 .. m, e[j] # h[j] PROVE FALSE
  OBVIOUS
<1> DEFINE T == {k \in 0 .. m : e[k] # h[k]}
<1>1. PICK k \in T : \A i \in T : k <= i
  <2>1. T \subseteq Nat /\ j \in T
    OBVIOUS
  <2> HIDE DEF T
  <2> QED BY <2>1, NatLeast
<1>2. e[0] = <<>> /\ \A i \in 1 .. m : e[i] = e[i - 1] \o g[i]
  BY GathersFacts
<1>3. h[0] = <<>> /\ \A i \in 1 .. n : h[i] = h[i - 1] \o g[i]
  BY GathersFacts
<1>4. k # 0
  BY <1>2, <1>3
<1>5. k \in 1 .. m /\ k \in 1 .. n /\ k - 1 \in 0 .. m /\ ~ (k <= k - 1)
  BY <1>4
<1>6. e[k - 1] = h[k - 1]
  BY <1>1, <1>5
<1>7. e[k] = h[k]
  BY <1>2, <1>3, <1>5, <1>6
<1> QED BY <1>7

LEMMA TotalGathers ==
    ASSUME NEW g, NEW n \in Nat
    PROVE  \E f : Gathers(f, g, n) /\ Total(g, n) = f[n]
<1> DEFINE h == CHOOSE f : Gathers(f, g, n)
<1>1. Gathers(h, g, n)
  BY GathersExists
<1>2. Total(g, n) = h[n]
  BY DEF Total, Gathers
<1> QED BY <1>1, <1>2

LEMMA TotalFacts ==
    ASSUME NEW g
    PROVE  Total(g, 0) = <<>> /\ \A n \in Nat : Total(g, n + 1) = Total(g, n) \o g[n + 1]
<1>1. Total(g, 0) = <<>>
  <2>1. PICK f : Gathers(f, g, 0) /\ Total(g, 0) = f[0]
    BY TotalGathers
  <2> QED BY <2>1, GathersFacts
<1>2. ASSUME NEW n \in Nat PROVE Total(g, n + 1) = Total(g, n) \o g[n + 1]
  <2>0. n + 1 \in Nat /\ n <= n + 1 /\ n + 1 \in 1 .. n + 1 /\ n \in 0 .. n /\ n + 1 - 1 = n
    OBVIOUS
  <2>1. PICK f : Gathers(f, g, n) /\ Total(g, n) = f[n]
    BY TotalGathers
  <2>2. PICK h : Gathers(h, g, n + 1) /\ Total(g, n + 1) = h[n + 1]
    BY <2>0, TotalGathers
  <2>3. f[n] = h[n]
    BY <2>0, <2>1, <2>2, GathersAgree
  <2>4. \A k \in 1 .. n + 1 : h[k] = h[k - 1] \o g[k]
    BY <2>0, <2>2, GathersFacts
  <2>5. PICK q \in Nat : q = n + 1 /\ q - 1 = n /\ q \in 1 .. n + 1
    BY <2>0
  <2>6. h[q] = h[n] \o g[q]
    BY <2>4, <2>5
  <2> QED BY <2>1, <2>2, <2>3, <2>5, <2>6
<1> QED BY <1>1, <1>2

(* It depends on the parts that are gathered only, ...                     *)
LEMMA TotalSame ==
    ASSUME NEW g, NEW e, NEW n \in Nat, \A k \in 1 .. n : g[k] = e[k]
    PROVE  Total(g, n) = Total(e, n)
<1> SUFFICES ASSUME Total(g, n) # Total(e, n) PROVE FALSE
  OBVIOUS
<1> DEFINE T == {k \in 0 .. n : Total(g, k) # Total(e, k)}
<1>1. PICK k \in T : \A i \in T : k <= i
  <2>1. T \subseteq Nat /\ n \in T
    OBVIOUS
  <2> HIDE DEF T
  <2> QED BY <2>1, NatLeast
<1>2. k # 0
  BY TotalFacts
<1>3. PICK j \in Nat : k = j + 1
  BY <1>2
<1>4. j \in 0 .. n /\ ~ (k <= j) /\ j + 1 \in 1 .. n
  BY <1>3
<1>5. Total(g, j) = Total(e, j)
  BY <1>1, <1>4
<1>6. Total(g, j + 1) = Total(g, j) \o g[j + 1] /\ Total(e, j + 1) = Total(e, j) \o e[j + 1]
  BY TotalFacts
<1> QED BY <1>3, <1>4, <1>5, <1>6

(* ... and is a sequence when they are; ...                                *)
LEMMA TotalType ==
    ASSUME NEW S, NEW g, NEW n \in Nat, \A k \in 1 .. n : g[k] \in Seq(S)
    PROVE  Total(g, n) \in Seq(S)
<1> SUFFICES ASSUME Total(g, n) \notin Seq(S) PROVE FALSE
  OBVIOUS
<1> DEFINE T == {k \in 0 .. n : Total(g, k) \notin Seq(S)}
<1>1. PICK k \in T : \A i \in T : k <= i
  <2>1. T \subseteq Nat /\ n \in T
    OBVIOUS
  <2> HIDE DEF T
  <2> QED BY <2>1, NatLeast
<1>2. k # 0
  <2>1. Total(g, 0) = <<>> /\ <<>> \in Seq(S)
    BY TotalFacts
  <2>2. Total(g, 0) \in Seq(S)
    BY <2>1
  <2> QED BY <2>2
<1>3. PICK j \in Nat : k = j + 1
  BY <1>2
<1>4. j \in 0 .. n /\ ~ (k <= j) /\ j + 1 \in 1 .. n
  BY <1>3
<1>5. Total(g, j) \in Seq(S) /\ g[j + 1] \in Seq(S)
  BY <1>1, <1>4
<1>6. Total(g, j + 1) = Total(g, j) \o g[j + 1]
  BY TotalFacts
<1>7. Total(g, j + 1) \in Seq(S)
  BY <1>5, <1>6, ConcatProperties
<1> QED BY <1>3, <1>7

(* ... empty parts at its end change nothing.                              *)
LEMMA TotalRest ==
    ASSUME NEW S, NEW g, NEW m \in Nat, NEW n \in Nat, m <= n,
           Total(g, m) \in Seq(S), \A k \in m + 1 .. n : g[k] = <<>>
    PROVE  Total(g, n) = Total(g, m)
<1> SUFFICES ASSUME Total(g, n) # Total(g, m) PROVE FALSE
  OBVIOUS
<1> DEFINE T == {k \in m .. n : Total(g, k) # Total(g, m)}
<1>1. PICK k \in T : \A i \in T : k <= i
  <2>1. T \subseteq Nat /\ n \in T
    OBVIOUS
  <2> HIDE DEF T
  <2> QED BY <2>1, NatLeast
<1>2. k # m
  OBVIOUS
<1>3. PICK j \in Nat : k = j + 1
  BY <1>2
<1>4. j \in m .. n /\ ~ (k <= j) /\ j + 1 \in m + 1 .. n
  BY <1>2, <1>3
<1>5. Total(g, j) = Total(g, m) /\ g[j + 1] = <<>>
  BY <1>1, <1>4
<1>6. Total(g, j + 1) = Total(g, j) \o g[j + 1]
  BY TotalFacts
<1>7. Total(g, j + 1) = Total(g, m)
  BY <1>5, <1>6, ConcatEmptySeq
<1> QED BY <1>3, <1>7

(* The links in use are the first ones, m of them, and as long as no part  *)
(* was lost they show all parts.                                           *)
Links == 1 .. MAX_STRCHAIN_SIZE
Shown(p) == {n \in 1 .. Len(p) : p[n] # <<>>}

Filled(c, m) == \A n \in Links : c[n] # <<>> <=> n <= m

Complete(c, p, m) ==
    Cardinality(Shown(p)) <= MAX_STRCHAIN_SIZE =>
        /\ Cardinality(Shown(p)) = m
        /\ Total(c, MAX_STRCHAIN_SIZE) = Total(p, Len(p))

ChainOK(c, p) ==
    /\ c \in [Links -> Seq(Chars)] /\ p \in Seq(Seq(Chars))
    /\ \E m \in 0 .. MAX_STRCHAIN_SIZE : Filled(c, m) /\ Complete(c, p, m)

CInv == ChainOK(chain, pushed)

LEMMA ShownFinite ==
    ASSUME NEW p \in Seq(Seq(Chars))
    PROVE  IsFiniteSet(Shown(p)) /\ Cardinality(Shown(p)) \in Nat
<1>1. Len(p) \in Nat
  OBVIOUS
<1>2. IsFiniteSet(1 .. Len(p))
  BY <1>1, FS_Interval
<1>3. Shown(p) \subseteq 1 .. Len(p)
  BY DEF Shown
<1>4. IsFiniteSet(Shown(p))
  BY <1>2, <1>3, FS_Subset
<1> QED BY <1>4, FS_CardinalityType

(* One part more.                                                          *)
LEMMA PartAdded ==
    ASSUME NEW p \in Seq(Seq(Chars)), NEW t \in Seq(Chars)
    PROVE  /\ Append(p, t) \in Seq(Seq(Chars))
           /\ Total(Append(p, t), Len(Append(p, t))) = Total(p, Len(p)) \o t
           /\ Total(p, Len(p)) \in Seq(Chars)
           /\ t = <<>> => Shown(Append(p, t)) = Shown(p)
           /\ t # <<>> => Cardinality(Shown(Append(p, t))) = Cardinality(Shown(p)) + 1
<1> DEFINE q == Append(p, t)
<1>1. PICK n \in Nat : n = Len(p)
  OBVIOUS
<1>2. /\ q \in Seq(Seq(Chars)) /\ Len(q) = n + 1 /\ q[n + 1] = t
      /\ \A k \in 1 .. n : q[k] = p[k]
  BY <1>1
<1> HIDE DEF q
<1>3. Total(q, n + 1) = Total(q, n) \o q[n + 1]
  BY TotalFacts
<1>4. Total(q, n) = Total(p, n)
  BY <1>2, TotalSame
<1>5. Total(q, Len(q)) = Total(p, Len(p)) \o t
  BY <1>1, <1>2, <1>3, <1>4
<1>6. \A k \in 1 .. n : p[k] \in Seq(Chars)
  BY <1>1, ElementOfSeq
<1>7. Total(p, n) \in Seq(Chars)
  BY <1>6, TotalType
<1>8. \A k : k \in 1 .. n + 1 <=> k \in 1 .. n \/ k = n + 1
  OBVIOUS
<1>9. ASSUME t = <<>> PROVE Shown(q) = Shown(p)
  BY <1>1, <1>2, <1>8, <1>9 DEF Shown
<1>10. ASSUME t # <<>> PROVE Cardinality(Shown(q)) = Cardinality(Shown(p)) + 1
  <2>1. Shown(q) = Shown(p) \cup {n + 1}
    BY <1>1, <1>2, <1>8, <1>10 DEF Shown
  <2>2. n + 1 \notin Shown(p)
    BY <1>1 DEF Shown
  <2> QED BY <2>1, <2>2, ShownFinite, FS_AddElement
<1> QED BY <1>1, <1>2, <1>5, <1>7, <1>9, <1>10 DEF q

LEMMA ChainEmpty ==
    ASSUME NEW c, NEW p, c = [n \in Links |-> <<>>], p = <<>>
    PROVE  ChainOK(c, p)
<1>1. <<>> \in Seq(Chars) /\ p \in Seq(Seq(Chars)) /\ Len(p) = 0 /\ MAX_STRCHAIN_SIZE \in Nat
  BY BoundsAssumption
<1>2. c \in [Links -> Seq(Chars)] /\ \A n \in Links : c[n] = <<>>
  BY <1>1
<1>3. Filled(c, 0)
  BY <1>1, <1>2 DEF Filled, Links
<1>4. Shown(p) = {}
  BY <1>1 DEF Shown
<1>5. Cardinality(Shown(p)) = 0
  BY <1>4, FS_EmptySet
<1>6. Total(c, 0) = <<>> /\ Total(p, 0) = <<>>
  BY TotalFacts
<1>7. Total(c, MAX_STRCHAIN_SIZE) = Total(c, 0)
  <2>1. 0 \in Nat /\ 0 <= MAX_STRCHAIN_SIZE /\ \A k \in 0 + 1 .. MAX_STRCHAIN_SIZE : c[k] = <<>>
    BY <1>1, <1>2 DEF Links
  <2>2. Total(c, 0) \in Seq(Chars)
    BY <1>1, <1>6
  <2> QED BY <1>1, <2>1, <2>2, TotalRest
<1>8. Complete(c, p, 0)
  BY <1>1, <1>5, <1>6, <1>7 DEF Complete
<1> QED BY <1>1, <1>2, <1>3, <1>8 DEF ChainOK

(* strvc_push() of a part that is empty, or for which there is a link.     *)
LEMMA EmptyPartAdded ==
    ASSUME NEW c, NEW p, ChainOK(c, p), NEW t, t = <<>>
    PROVE  ChainOK(c, Append(p, t))
<1>1. c \in [Links -> Seq(Chars)] /\ p \in Seq(Seq(Chars)) /\ t \in Seq(Chars)
  BY DEF ChainOK
<1>2. PICK m \in 0 .. MAX_STRCHAIN_SIZE : Filled(c, m) /\ Complete(c, p, m)
  BY DEF ChainOK
<1> DEFINE q == Append(p, t)
<1>3. /\ q \in Seq(Seq(Chars)) /\ Shown(q) = Shown(p)
      /\ Total(q, Len(q)) = Total(p, Len(p)) \o t /\ Total(p, Len(p)) \in Seq(Chars)
  BY <1>1, PartAdded
<1> HIDE DEF q
<1>4. Total(q, Len(q)) = Total(p, Len(p))
  BY <1>3, ConcatEmptySeq
<1>5. Complete(c, q, m)
  BY <1>2, <1>3, <1>4 DEF Complete
<1> QED BY <1>1, <1>2, <1>3, <1>5 DEF ChainOK, q

LEMMA PartLinked ==
    ASSUME NEW c, NEW p, ChainOK(c, p), NEW t \in Seq(Chars), t # <<>>,
           NEW i \in Links, c[i] = <<>>, \A n \in Links : c[n] = <<>> => i <= n
    PROVE  ChainOK([c EXCEPT ![i] = t], Append(p, t))
<1>1. c \in [Links -> Seq(Chars)] /\ p \in Seq(Seq(Chars)) /\ MAX_STRCHAIN_SIZE \in Nat
  BY BoundsAssumption DEF ChainOK
<1>2. PICK m \in 0 .. MAX_STRCHAIN_SIZE : Filled(c, m) /\ Complete(c, p, m)
  BY DEF ChainOK
<1> DEFINE q == Append(p, t)
           d == [c EXCEPT ![i] = t]
<1>3. i = m + 1 /\ m + 1 \in Links /\ m \in Nat
  <2>1. m \in Nat /\ i \in Nat /\ i <= MAX_STRCHAIN_SIZE
    BY <1>1 DEF Links
  <2>2. ~ (i <= m)
    BY <1>2 DEF Filled
  <2>3. m + 1 \in Links
    BY <1>1, <2>1, <2>2 DEF Links
  <2>4. c[m + 1] = <<>>
    BY <1>2, <2>1, <2>3 DEF Filled
  <2>5. i <= m + 1
    BY <2>3, <2>4
  <2> QED BY <2>1, <2>2, <2>3, <2>5
<1>4. /\ q \in Seq(Seq(Chars)) /\ Cardinality(Shown(q)) = Cardinality(Shown(p)) + 1
      /\ Total(q, Len(q)) = Total(p, Len(p)) \o t /\ Total(p, Len(p)) \in Seq(Chars)
  BY <1>1, PartAdded
<1>5. Cardinality(Shown(p)) \in Nat
  BY <1>1, ShownFinite
<1> HIDE DEF q
<1>6. d \in [Links -> Seq(Chars)] /\ d[i] = t /\ \A n \in Links : n # i => d[n] = c[n]
  BY <1>1
<1> HIDE DEF d
<1>7. Filled(d, m + 1)
  <2> SUFFICES ASSUME NEW n \in Links PROVE d[n] # <<>> <=> n <= m + 1
    BY DEF Filled
  <2>1. CASE n = i
    BY <1>3, <1>6, <2>1
  <2>2. CASE n # i
    <3>1. n \in Nat /\ (n <= m + 1 <=> n <= m)
      BY <1>3, <2>2 DEF Links
    <3> QED BY <1>2, <1>6, <2>2, <3>1 DEF Filled
  <2> QED BY <2>1, <2>2
<1>8. Total(d, MAX_STRCHAIN_SIZE) = Total(c, MAX_STRCHAIN_SIZE) \o t
  <2>1. Total(d, m + 1) = Total(d, m) \o t
    BY <1>3, <1>6, TotalFacts
  <2>2. \A k \in 1 .. m : k \in Links /\ k # i
    BY <1>1, <1>3 DEF Links
  <2>3. Total(d, m) = Total(c, m)
    BY <1>3, <1>6, <2>2, TotalSame
  <2>4. Total(c, m) \in Seq(Chars)
    BY <1>1, <1>3, <2>2, TotalType
  <2>5. Total(d, m + 1) \in Seq(Chars)
    <3>1. \A s \in Seq(Chars) : s \o t \in Seq(Chars)
      OBVIOUS
    <3> QED BY <2>1, <2>3, <2>4, <3>1
  <2>6. Total(c, MAX_STRCHAIN_SIZE) = Total(c, m)
    <3>1. \A k \in m + 1 .. MAX_STRCHAIN_SIZE : k \in Links /\ ~ (k <= m)
      BY <1>1, <1>3 DEF Links
    <3>2. \A k \in m + 1 .. MAX_STRCHAIN_SIZE : c[k] = <<>>
      BY <1>2, <3>1 DEF Filled
    <3>3. PICK k0 \in Nat : k0 = m /\ k0 <= MAX_STRCHAIN_SIZE
      BY <1>1, <1>3
    <3>4. Total(c, k0) \in Seq(Chars) /\ \A k \in k0 + 1 .. MAX_STRCHAIN_SIZE : c[k] = <<>>
      BY <2>4, <3>2, <3>3
    <3>5. Total(c, MAX_STRCHAIN_SIZE) = Total(c, k0)
      BY <1>1, <3>3, <3>4, TotalRest
    <3> QED BY <3>3, <3>5
  <2>7. Total(d, MAX_STRCHAIN_SIZE) = Total(d, m + 1)
    <3>1. PICK k1 \in Nat : k1 = m + 1
      BY <1>3
    <3>2. \A k \in k1 + 1 .. MAX_STRCHAIN_SIZE : k \in Links /\ ~ (k <= k1)
      BY <1>1, <1>3, <3>1 DEF Links
    <3>3. \A k \in k1 + 1 .. MAX_STRCHAIN_SIZE : d[k] = <<>>
      BY <1>7, <3>1, <3>2 DEF Filled
    <3>4. k1 <= MAX_STRCHAIN_SIZE /\ Total(d, k1) \in Seq(Chars)
      BY <1>1, <1>3, <2>5, <3>1 DEF Links
    <3>5. Total(d, MAX_STRCHAIN_SIZE) = Total(d, k1)
      BY <1>1, <3>3, <3>4, TotalRest
    <3> QED BY <3>1, <3>5
  <2> QED BY <2>1, <2>3, <2>6, <2>7
<1>9. Complete(d, q, m + 1)
  <2> SUFFICES ASSUME Cardinality(Shown(q)) <= MAX_STRCHAIN_SIZE
               PROVE  /\ Cardinality(Shown(q)) = m + 1
                      /\ Total(d, MAX_STRCHAIN_SIZE) = Total(q, Len(q))
    BY DEF Complete
  <2>1. Cardinality(Shown(p)) <= MAX_STRCHAIN_SIZE
    BY <1>1, <1>4, <1>5
  <2>2. Cardinality(Shown(p)) = m /\ Total(c, MAX_STRCHAIN_SIZE) = Total(p, Len(p))
    BY <1>2, <2>1 DEF Complete
  <2> QED BY <1>4, <1>8, <2>2
<1>10. m + 1 \in 0 .. MAX_STRCHAIN_SIZE
  BY <1>1, <1>3 DEF Links
<1> QED BY <1>4, <1>6, <1>7, <1>9, <1>10 DEF ChainOK, d, q

(* A part for which there is none: there are more parts than links now.    *)
LEMMA PartLost ==
    ASSUME NEW c, NEW p, ChainOK(c, p), NEW t \in Seq(Chars), t # <<>>, \A n \in Links : c[n] # <<>>
    PROVE  ChainOK(c, Append(p, t))
<1>1. c \in [Links -> Seq(Chars)] /\ p \in Seq(Seq(Chars)) /\ MAX_STRCHAIN_SIZE \in Nat
  BY BoundsAssumption DEF ChainOK
<1>2. PICK m \in 0 .. MAX_STRCHAIN_SIZE : Filled(c, m) /\ Complete(c, p, m)
  BY DEF ChainOK
<1> DEFINE q == Append(p, t)
<1>3. q \in Seq(Seq(Chars)) /\ Cardinality(Shown(q)) = Cardinality(Shown(p)) + 1
  BY <1>1, PartAdded
<1>4. Cardinality(Shown(p)) \in Nat
  BY <1>1, ShownFinite
<1> HIDE DEF q
<1>5. m = MAX_STRCHAIN_SIZE
  <2>1. CASE MAX_STRCHAIN_SIZE \in Links
    BY <1>1, <1>2, <2>1 DEF Filled
  <2>2. CASE MAX_STRCHAIN_SIZE \notin Links
    BY <1>1, <2>2 DEF Links
  <2> QED BY <2>1, <2>2
<1>6. Complete(c, q, m)
  <2> SUFFICES ASSUME Cardinality(Shown(q)) <= MAX_STRCHAIN_SIZE PROVE FALSE
    BY DEF Complete
  <2>1. Cardinality(Shown(p)) <= MAX_STRCHAIN_SIZE
    BY <1>1, <1>3, <1>4
  <2>2. Cardinality(Shown(p)) = m
    BY <1>2, <2>1 DEF Complete
  <2> QED BY <1>1, <1>3, <1>5, <2>2
<1> QED BY <1>1, <1>2, <1>3, <1>6 DEF ChainOK, q

LEMMA ChainSteps ==
    ASSUME CInv, [Next]_vars
    PROVE  CInv'
<1>1. CASE UNCHANGED <<chain, pushed>>
  BY <1>1 DEF CInv
<1>2. ASSUME NEW t \in Literals, PushLink(t) PROVE CInv'
  <2> DEFINE i == CHOOSE n \in Free : \A m \in Free : n <= m
  <2>1. Free # {} /\ chain' = [chain EXCEPT ![i] = t] /\ pushed' = Append(pushed, t)
    BY <1>2 DEF PushLink
  <2>2. Free \subseteq Nat /\ Free = {n \in Links : chain[n] = <<>>}
    BY BoundsAssumption DEF Free, Links
  <2>3. i \in Free /\ \A m \in Free : i <= m
    BY <2>1, <2>2, NatLeast
  <2> HIDE DEF i
  <2>4. i \in Links /\ chain[i] = <<>> /\ \A n \in Links : chain[n] = <<>> => i <= n
    BY <2>2, <2>3
  <2>5. t \in Seq(Chars)
    BY CharAssumption
  <2>6. CASE t = <<>>
    <3>1. chain \in [Links -> Seq(Chars)]
      BY DEF CInv, ChainOK
    <3>2. chain' = chain
      BY <2>1, <2>4, <2>6, <3>1
    <3> QED BY <2>1, <2>6, <3>2, EmptyPartAdded DEF CInv
  <2>7. CASE t # <<>>
    BY <2>1, <2>4, <2>5, <2>7, PartLinked DEF CInv
  <2> QED BY <2>6, <2>7
<1>3. ASSUME NEW t \in Literals, PushLinkFull(t) PROVE CInv'
  <2>1. (\A n \in Links : chain[n] # <<>>) /\ chain' = chain /\ pushed' = Append(pushed, t)
    BY <1>3 DEF PushLinkFull, Free, Links
  <2>2. t \in Seq(Chars)
    BY CharAssumption
  <2>3. CASE t = <<>>
    BY <2>1, <2>3, EmptyPartAdded DEF CInv
  <2>4. CASE t # <<>>
    BY <2>1, <2>2, <2>4, PartLost DEF CInv
  <2> QED BY <2>3, <2>4
<1>4. CASE NewMessage
  BY <1>4, ChainEmpty DEF CInv, NewMessage, Links
<1>5. CASE StringsNext
  <2>1. \/ UNCHANGED <<chain, pushed>> \/ NewMessage
        \/ \E t \in Literals : PushLink(t) \/ PushLinkFull(t)
    BY <1>5 DEF StringsNext, Push, PushCstr, PushStr, PushNext, PopAll, CloneAndFree, TakeView,
                Aborted, stringvars
  <2> QED BY <1>1, <1>2, <1>3, <1>4, <2>1
<1>6. CASE \E key \in Literals, v \in Values : Rebind(key, v) \/ BindNew(key, v)
  <2>1. UNCHANGED <<chain, pushed>>
    BY <1>6 DEF Rebind, BindNew, stringvars
  <2> QED BY <1>1, <2>1
<1>7. CASE UNCHANGED vars
  BY <1>1, <1>7 DEF vars, stringvars
<1> QED BY <1>5, <1>6, <1>7 DEF Next

(* The invariant of a chain: its first links are in use, and show all      *)
(* parts unless there were more of them than links.                        *)
THEOREM ChainInvariant == Spec => []CInv
<1>1. Init => CInv
  BY ChainEmpty DEF Init, StringsInit, CInv, Links
<1>2. CInv /\ [Next]_vars => CInv'
  BY ChainSteps
<1> QED BY <1>1, <1>2, PTL DEF Spec

(* A message of no more parts than links shows all of them in order, with  *)
(* any number of links: MessageComplete.                                   *)
THEOREM MessageProved == Spec => []MessageComplete
<1>1. CInv => MessageComplete
  <2> SUFFICES ASSUME CInv, Cardinality(Shown(pushed)) <= MAX_STRCHAIN_SIZE
               PROVE  PrintedChain = Total(pushed, Len(pushed))
    BY DEF MessageComplete, Shown, Total
  <2>1. PICK m \in 0 .. MAX_STRCHAIN_SIZE : Complete(chain, pushed, m)
    BY DEF CInv, ChainOK
  <2>2. Total(chain, MAX_STRCHAIN_SIZE) = Total(pushed, Len(pushed))
    BY <2>1 DEF Complete
  <2> QED BY <2>2 DEF PrintedChain, Total
<1> QED BY <1>1, ChainInvariant, PTL
=============================================================================
