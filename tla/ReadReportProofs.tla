--------------------------- MODULE ReadReportProofs ---------------------------
(***************************************************************************)
(* The two ends of a session with a file.  What read_file() gets right for *)
(* files of any size and chunks of any size: it stays inside the string's  *)
(* memory, the length is right, and so are the bytes of a file of no more  *)
(* than a chunk.  And what report_err() prints of it when it is wrong, for *)
(* every source and every error in it.                                     *)
(***************************************************************************)
EXTENDS ReadFile, ErrorReport, TLAPS

(* The bytes counted in len and consumption are those passed over in the   *)
(* file, unless there was an error.                                        *)
Counted ==
    ~ err => fpos = len + (IF pc = "chunk" THEN consumption ELSE 0)

Ended ==
    /\ eof => fpos = size
    /\ pc = "string" => ~ err /\ eof

IInv == TypeOK /\ RoomForChunk /\ Counted /\ Ended

LEMMA InitIInv == Init => IInv
<1> SUFFICES ASSUME Init PROVE IInv
  OBVIOUS
<1>1. size \in Nat
  BY SizesAssumption DEF Init
<1>2. ptr \in [0 .. cap - 1 -> 0 .. size]
  BY DEF Init
<1>3. eof \in BOOLEAN /\ err \in BOOLEAN
  BY DEF Init
<1>4. TypeOK
  BY <1>1, <1>2, <1>3, KiloAssumption DEF Init, TypeOK
<1> QED BY <1>4 DEF Init, IInv, RoomForChunk, Counted, Ended

LEMMA FreadStep ==
    ASSUME TypeOK, InChunk, NEW n \in Nat, n <= Remaining, n <= Request, Fread(n)
    PROVE  /\ fpos' \in 0 .. size' /\ fpos' = fpos + n
           /\ ptr' \in [0 .. cap' - 1 -> 0 .. size']
           /\ consumption' \in 0 .. KILO /\ consumption' = consumption + n
           /\ size' = size /\ cap' = cap /\ size \in Nat /\ cap \in Nat
<1> USE KiloAssumption
<1>1. /\ fpos' = fpos + n /\ consumption' = consumption + n
      /\ size' = size /\ cap' = cap
  BY DEF Fread
<1>2. /\ size \in Nat /\ fpos \in 0 .. size /\ consumption \in 0 .. KILO /\ cap \in Nat
      /\ fpos + n <= size /\ consumption + n <= KILO
  BY DEF TypeOK, Remaining, Request
<1>3. \A k \in 0 .. cap - 1 :
          (IF k \in consumption .. consumption + n - 1
           THEN fpos + (k - consumption) + 1 ELSE ptr[k]) \in 0 .. size
  <2> TAKE k \in 0 .. cap - 1
  <2>1. ptr[k] \in 0 .. size
    BY DEF TypeOK
  <2>2. ASSUME k \in consumption .. consumption + n - 1
        PROVE  fpos + (k - consumption) + 1 \in 0 .. size
    BY <1>2, <2>2
  <2> QED BY <2>1, <2>2
<1>4. DOMAIN ptr = 0 .. cap - 1
  BY DEF TypeOK
<1>5. ptr' \in [0 .. cap - 1 -> 0 .. size]
  BY <1>3, <1>4 DEF Fread
<1> QED BY <1>1, <1>2, <1>5

LEMMA StepIInv == IInv /\ [Next]_vars => IInv'
<1> SUFFICES ASSUME IInv, [Next]_vars PROVE IInv'
  OBVIOUS
<1> USE KiloAssumption DEF IInv
<1>1. CASE Open
  <2>1. PICK fsize \in {0, size} : Allocate(IF fsize > 0 THEN fsize ELSE KILO)
    BY <1>1 DEF Open
  <2>2. cap' \in Nat /\ ptr' \in [0 .. cap' - 1 -> 0 .. size]
    BY <2>1 DEF Allocate, TypeOK
  <2> QED BY <1>1, <2>2 DEF Open, stream, TypeOK, RoomForChunk, Counted, Ended
<1>2. CASE PushFile
  <2>1. /\ len + KILO \in Nat /\ cap \in Nat /\ size \in Nat
        /\ ptr \in [0 .. cap - 1 -> 0 .. size]
    BY DEF TypeOK
  <2>2. cap' \in Nat /\ len + KILO <= cap' /\ ptr' \in [0 .. cap' - 1 -> 0 .. size]
    <3>1. CASE cap < len + KILO
      BY <1>2, <2>1, <3>1 DEF PushFile, Accomodate
    <3>2. CASE ~ cap < len + KILO
      BY <1>2, <2>1, <3>2 DEF PushFile, Accomodate
    <3> QED BY <3>1, <3>2
  <2>3. /\ UNCHANGED <<size, fpos, eof, err, len>> /\ consumption' = 0
        /\ pc = "loop" /\ pc' = "chunk" /\ ~ eof
    BY <1>2 DEF PushFile, stream
  <2>4. TypeOK'
    <3>1. eof' \in BOOLEAN /\ err' \in BOOLEAN
      BY <2>3 DEF TypeOK
    <3>2. size' \in Nat /\ fpos' \in 0 .. size' /\ len' \in Nat /\ consumption' \in 0 .. KILO
      BY <2>3 DEF TypeOK
    <3>3. ptr' \in [0 .. cap' - 1 -> 0 .. size']
      BY <2>2, <2>3
    <3> QED BY <2>2, <2>3, <3>1, <3>2, <3>3 DEF TypeOK
  <2>5. len \in Nat /\ (~ err => fpos = len)
    BY <2>3 DEF TypeOK, Counted
  <2>6. RoomForChunk' /\ Counted' /\ Ended'
    BY <2>2, <2>3, <2>5 DEF RoomForChunk, Counted, Ended
  <2> QED BY <2>4, <2>6
<1>3. CASE FreadAll
  <2>1. Request \in Nat
    BY <1>3 DEF FreadAll, InChunk, Request, TypeOK
  <2>2. Request <= Remaining /\ Fread(Request) /\ InChunk /\ UNCHANGED <<eof, err, len, pc>>
    BY <1>3 DEF FreadAll
  <2>3. eof => Request = 0
    BY <2>1, <2>2 DEF Ended, Remaining, Request, TypeOK
  <2>4. /\ fpos' \in 0 .. size' /\ fpos' = fpos + Request
        /\ ptr' \in [0 .. cap' - 1 -> 0 .. size']
        /\ consumption' \in 0 .. KILO /\ consumption' = consumption + Request
        /\ size' = size /\ cap' = cap
    BY <2>1, <2>2, FreadStep DEF Remaining, Request, TypeOK
  <2>5. TypeOK'
    BY <2>2, <2>4 DEF TypeOK
  <2>6. RoomForChunk'
    BY <2>2, <2>4 DEF RoomForChunk
  <2>7. Counted'
    BY <2>1, <2>2, <2>4 DEF InChunk, TypeOK, Counted
  <2>8. Ended'
    <3>1. eof' => fpos' = size'
      <4>1. ASSUME eof PROVE fpos + Request = size
        BY <2>3, <4>1 DEF Ended, TypeOK
      <4> QED BY <2>2, <2>4, <4>1
    <3> QED BY <2>2, <3>1 DEF InChunk, Ended
  <2> QED BY <2>5, <2>6, <2>7, <2>8
<1>4. CASE FreadLast
  <2>1. Remaining \in Nat /\ Remaining <= Request /\ fpos + Remaining = size
    BY <1>4 DEF FreadLast, Remaining, Request, TypeOK
  <2>2. Fread(Remaining) /\ InChunk /\ eof' = TRUE /\ UNCHANGED <<err, len, pc>>
    BY <1>4 DEF FreadLast
  <2>3. /\ fpos' \in 0 .. size' /\ fpos' = fpos + Remaining
        /\ ptr' \in [0 .. cap' - 1 -> 0 .. size']
        /\ consumption' \in 0 .. KILO /\ consumption' = consumption + Remaining
        /\ size' = size /\ cap' = cap
    BY <2>1, <2>2, FreadStep
  <2>4. TypeOK'
    BY <2>2, <2>3 DEF TypeOK
  <2>5. RoomForChunk' /\ Counted' /\ Ended'
    BY <2>1, <2>2, <2>3 DEF InChunk, TypeOK, RoomForChunk, Counted, Ended
  <2> QED BY <2>4, <2>5
<1>5. CASE FreadNothing
  BY <1>5 DEF FreadNothing, InChunk, Remaining, TypeOK, RoomForChunk, Counted, Ended
<1>6. CASE FreadError
  <2>1. PICK n \in 0 .. Remaining :
            n < Request /\ Fread(n) /\ pc' = IF n = 0 THEN "loop" ELSE "chunk"
    BY <1>6 DEF FreadError
  <2>2. n \in Nat /\ n <= Remaining /\ n <= Request
    BY <2>1 DEF Remaining, Request, TypeOK
  <2>3. eof => n = 0
    BY <2>2 DEF Ended, Remaining, TypeOK
  <2>4. InChunk /\ err' = TRUE /\ UNCHANGED <<eof, len>>
    BY <1>6 DEF FreadError
  <2> QED BY <2>1, <2>2, <2>3, <2>4, FreadStep DEF InChunk, TypeOK, RoomForChunk, Counted, Ended
<1>7. CASE EndChunk
  BY <1>7 DEF EndChunk, stream, TypeOK, RoomForChunk, Counted, Ended
<1>8. CASE Return
  BY <1>8 DEF Return, stream, string, TypeOK, RoomForChunk, Counted, Ended
<1>9. CASE NotOpened \/ Returned \/ UNCHANGED vars
  BY <1>9 DEF NotOpened, Returned, Done, vars, stream, string, TypeOK, RoomForChunk, Counted, Ended
<1> QED BY <1>1, <1>2, <1>3, <1>4, <1>5, <1>6, <1>7, <1>8, <1>9 DEF Next

(* read_file() keeps its types, for any file and any chunk size.           *)
THEOREM TypeCorrect == Spec => []TypeOK
<1>1. IInv => TypeOK
  BY DEF IInv
<1> QED BY <1>1, InitIInv, StepIInv, PTL DEF Spec

(* fread() is never given more than there is room for.                     *)
THEOREM InsideCapacity == Spec => []RoomForChunk
<1>1. IInv => RoomForChunk
  BY DEF IInv
<1> QED BY <1>1, InitIInv, StepIInv, PTL DEF Spec

(* The string returned has the length of the file, however it was read.    *)
THEOREM LengthRead == Spec => []LengthIsSize
<1>1. IInv => LengthIsSize
  BY DEF IInv, TypeOK, Counted, Ended, LengthIsSize
<1> QED BY <1>1, InitIInv, StepIInv, PTL DEF Spec

----------------------------------------------------------------------------
(* A file of no more than a chunk: after the first chunk nothing is left   *)
(* to read, and the bytes read are in their places.                        *)
Small == size <= KILO /\ ~ err

Placed ==
    /\ pc = "open" => fpos = 0 /\ len = 0
    /\ Small => /\ len > 0 => fpos = size
               /\ fpos <= cap
               /\ \A k \in 0 .. fpos - 1 : ptr[k] = k + 1

CInv == IInv /\ Placed

LEMMA PlacedFread ==
    ASSUME CInv, InChunk, NEW n \in Nat, n <= Remaining, n <= Request, n > 0, Fread(n),
           UNCHANGED <<err, len, pc>>
    PROVE  Placed'
<1> USE KiloAssumption
<1>1. /\ fpos' = fpos + n /\ size' = size /\ cap' = cap /\ size \in Nat /\ cap \in Nat
      /\ fpos \in Nat /\ len \in Nat /\ consumption \in Nat /\ consumption + n <= KILO
      /\ fpos + n <= size /\ ptr \in [0 .. cap - 1 -> 0 .. size] /\ pc = "chunk" /\ len + KILO <= cap
  BY FreadStep DEF CInv, IInv, TypeOK, RoomForChunk, InChunk, Remaining, Request
<1>2. pc' # "open"
  BY <1>1
<1>3. ASSUME Small'
      PROVE  /\ len' > 0 => fpos' = size'
             /\ fpos' <= cap'
             /\ \A k \in 0 .. fpos' - 1 : ptr'[k] = k + 1
  <2>1. Small
    BY <1>1, <1>3 DEF Small
  <2>2. fpos = len + consumption /\ (len > 0 => fpos = size)
    BY <1>1, <2>1 DEF CInv, IInv, Counted, Placed, Small
  <2>3. len = 0 /\ fpos = consumption
    BY <1>1, <2>2
  <2>4. ASSUME NEW k \in 0 .. fpos + n - 1 PROVE ptr'[k] = k + 1
    <3>1. k \in 0 .. cap - 1 /\ k \in Nat
      BY <1>1, <2>3
    <3>2. ptr' = [j \in 0 .. cap - 1 |->
                    IF j \in consumption .. consumption + n - 1
                    THEN fpos + (j - consumption) + 1 ELSE ptr[j]]
      BY <1>1 DEF Fread
    <3>3. ptr'[k] = IF k \in consumption .. consumption + n - 1
                    THEN fpos + (k - consumption) + 1 ELSE ptr[k]
      BY <3>1, <3>2
    <3>4. CASE k \in consumption .. consumption + n - 1
      BY <1>1, <2>3, <3>1, <3>3, <3>4
    <3>5. CASE k \notin consumption .. consumption + n - 1
      <4>1. k \in 0 .. fpos - 1
        BY <1>1, <2>3, <3>1, <3>5
      <4>2. ptr[k] = k + 1
        BY <2>1, <4>1 DEF CInv, Placed
      <4> QED BY <3>3, <3>5, <4>2
    <3> QED BY <3>4, <3>5
  <2> QED BY <1>1, <2>3, <2>4
<1> QED BY <1>2, <1>3 DEF Placed

LEMMA StepPlaced == CInv /\ [Next]_vars => Placed'
<1> SUFFICES ASSUME CInv, [Next]_vars PROVE Placed'
  OBVIOUS
<1> USE KiloAssumption
<1>t. /\ size \in Nat /\ fpos \in 0 .. size /\ cap \in Nat /\ len \in Nat
      /\ consumption \in 0 .. KILO /\ ptr \in [0 .. cap - 1 -> 0 .. size]
  BY DEF CInv, IInv, TypeOK
<1>1. CASE Open
  <2>1. /\ fpos' = 0 /\ len' = 0 /\ pc' = "loop"
    BY <1>1 DEF Open, stream, CInv, Placed
  <2>2. cap' \in Nat
    BY <1>1, <1>t DEF Open, Allocate
  <2> QED BY <2>1, <2>2 DEF Placed
<1>2. CASE PushFile
  <2>1. /\ UNCHANGED <<size, fpos, err, len>> /\ pc' = "chunk"
        /\ cap' >= cap /\ cap' \in Nat /\ \A k \in 0 .. cap - 1 : ptr'[k] = ptr[k]
    <3>1. CASE cap < len + KILO
      <4>1. PICK n \in Nat : n = len + KILO /\ Accomodate(n) /\ cap < n
        BY <1>t, <1>2, <3>1 DEF PushFile
      <4>2. cap' = n /\ ptr' = [k \in 0 .. n - 1 |-> IF k < cap THEN ptr[k] ELSE 0]
        BY <4>1 DEF Accomodate
      <4>3. \A k \in 0 .. cap - 1 : k \in 0 .. n - 1 /\ k < cap
        BY <1>t, <4>1
      <4>4. \A k \in 0 .. cap - 1 : ptr'[k] = ptr[k]
        BY <4>2, <4>3
      <4>5. cap' >= cap /\ cap' \in Nat
        BY <1>t, <4>1, <4>2
      <4> QED BY <1>2, <4>4, <4>5 DEF PushFile, stream
    <3>2. CASE ~ (cap < len + KILO)
      BY <1>t, <1>2, <3>2 DEF PushFile, Accomodate, stream
    <3> QED BY <3>1, <3>2
  <2>2. ASSUME Small'
        PROVE  /\ len' > 0 => fpos' = size'
               /\ fpos' <= cap'
               /\ \A k \in 0 .. fpos' - 1 : ptr'[k] = k + 1
    <3>1. Small
      BY <2>1, <2>2 DEF Small
    <3>2. (len > 0 => fpos = size) /\ fpos <= cap /\ \A k \in 0 .. fpos - 1 : ptr[k] = k + 1
      BY <3>1 DEF CInv, Placed
    <3>3. \A k \in 0 .. fpos - 1 : k \in 0 .. cap - 1
      BY <1>t, <3>2
    <3> QED BY <1>t, <2>1, <3>2, <3>3
  <2> QED BY <2>1, <2>2 DEF Placed
<1>3. CASE FreadAll
  <2>1. Request \in Nat /\ Request > 0 /\ Request <= Remaining
    BY <1>3, <1>t DEF FreadAll, InChunk, Request
  <2> QED BY <1>3, <2>1, PlacedFread DEF FreadAll
<1>4. CASE FreadLast
  <2>1. Remaining \in Nat /\ Remaining > 0 /\ Remaining <= Request
    BY <1>4, <1>t DEF FreadLast, Remaining, Request
  <2> QED BY <1>4, <2>1, PlacedFread DEF FreadLast
<1>5. CASE FreadNothing
  <2>1. /\ fpos = size /\ UNCHANGED <<size, fpos, err, ptr, cap>> /\ pc' = "loop"
    BY <1>5, <1>t DEF FreadNothing, InChunk, Remaining
  <2> QED BY <2>1 DEF CInv, Placed, Small
<1>6. CASE FreadError
  BY <1>6 DEF FreadError, InChunk, Placed, Small
<1>7. CASE EndChunk
  <2>1. /\ UNCHANGED <<size, fpos, err, ptr, cap>> /\ pc' = "loop" /\ pc = "chunk"
        /\ consumption >= KILO
    BY <1>7 DEF EndChunk, stream
  <2>2. Small => fpos = size
    <3>1. Small => fpos = len + consumption
      BY <2>1 DEF CInv, IInv, Counted, Small
    <3> QED BY <1>t, <2>1, <3>1 DEF Small
  <2> QED BY <2>1, <2>2 DEF CInv, Placed, Small
<1>8. CASE Return
  BY <1>8 DEF Return, stream, string, CInv, Placed, Small
<1>9. CASE NotOpened \/ Returned \/ UNCHANGED vars
  BY <1>9 DEF NotOpened, Returned, Done, vars, stream, string, CInv, Placed, Small
<1> QED BY <1>1, <1>2, <1>3, <1>4, <1>5, <1>6, <1>7, <1>8, <1>9 DEF Next

(* A file of no more than a chunk is in the string as it is, whatever      *)
(* fread() returns on the way: ChunkRead.                                  *)
THEOREM ChunkProved == Spec => []ChunkRead
<1>1. Init => CInv
  <2> SUFFICES ASSUME Init PROVE CInv
    OBVIOUS
  <2>1. IInv
    BY InitIInv
  <2>2. Placed
    BY DEF Init, Placed
  <2> QED BY <2>1, <2>2 DEF CInv
<1>2. CInv /\ [Next]_vars => CInv'
  BY StepIInv, StepPlaced DEF CInv
<1>3. CInv => ChunkRead
  <2> SUFFICES ASSUME CInv, pc = "string", size <= KILO PROVE FileRead
    BY DEF ChunkRead
  <2>1. ~ err /\ eof /\ fpos = size /\ fpos = len /\ len \in Nat
    BY DEF CInv, IInv, Ended, Counted, TypeOK
  <2>2. \A k \in 0 .. fpos - 1 : ptr[k] = k + 1
    BY <2>1 DEF CInv, Placed, Small
  <2> QED BY <2>1, <2>2 DEF FileRead
<1> QED BY <1>1, <1>2, <1>3, PTL DEF Spec

-----------------------------------------------------------------------------
(* The report of an error.                                                 *)
(* line_idx is the start of the line that goes at least to character n.    *)
LineFrom(n) ==
    /\ line_idx \in 0 .. n
    /\ line_idx = 0 \/ source[line_idx] = Newline
    /\ \A j \in line_idx + 1 .. n : source[j] # Newline

Scanning == at = "scan" => i <= error.src_idx /\ LineFrom(i) /\ line = <<>> /\ column = 0

Found ==
    at # "scan" =>
        /\ LineFrom(error.src_idx)
        /\ start = Start(line_idx)
        /\ \A k \in 1 .. Len(line) : line[k] = line_idx + k - 1

Printing ==
    at = "line" =>
        /\ Len(line) = i /\ column = 0
        /\ \A j \in line_idx + 1 .. line_idx + i : source[j] # Newline

PrintedLine ==
    at \in {"spaces", "done"} =>
        /\ Len(line) > 0
        /\ IsLine(line_idx, line_idx + Len(line) - 1)

Spaces ==
    /\ at = "spaces" => column = i /\ i <= start
    /\ at = "done" => column = start

ReportInv == ReportTypeOK /\ Scanning /\ Found /\ Printing /\ PrintedLine /\ Spaces

LEMMA ErrorFacts ==
    ASSUME IsError(error)
    PROVE  /\ error.src_idx \in Nat /\ srclen \in Nat /\ error.src_idx < srclen
           /\ source \in Seq(Char) /\ srclen <= SIZE_MAX
           /\ source[error.src_idx + 1] # Newline
BY DEF IsError, source, srclen

LEMMA StartFacts ==
    ASSUME IsError(error), NEW l \in 0 .. error.src_idx
    PROVE  Start(l) \in 0 .. SIZE_MAX
<1>1. error.src_idx - l - 1 \in Int /\ SIZE_MAX + 1 \in Nat /\ SIZE_MAX + 1 > 0
  BY ErrorFacts, SizeAssumption
<1>2. \A n \in Int, m \in Nat : m > 0 => n % m \in 0 .. m - 1
  OBVIOUS
<1>3. SizeT(error.src_idx - l - 1) \in 0 .. SIZE_MAX
  BY <1>1, <1>2, SizeAssumption DEF SizeT
<1> QED BY <1>3, ErrorFacts, SizeAssumption DEF Start

LEMMA InitReport == ReportInit => ReportInv
<1> SUFFICES ASSUME ReportInit PROVE ReportInv
  OBVIOUS
<1>1. IsError(error)
  BY ErrorsAssumption DEF ReportInit
<1>2. ReportTypeOK
  BY <1>1, SizeAssumption, ErrorFacts DEF ReportInit, ReportTypeOK
<1> QED BY <1>1, <1>2, ErrorFacts
        DEF ReportInit, ReportInv, Scanning, Found, Printing, PrintedLine, Spaces, LineFrom

LEMMA StepReport == ReportInv /\ [ReportNext]_reportvars => ReportInv'
<1> SUFFICES ASSUME ReportInv, [ReportNext]_reportvars PROVE ReportInv'
  OBVIOUS
<1>0. /\ IsError(error) /\ error.src_idx \in Nat /\ srclen \in Nat /\ error.src_idx < srclen
      /\ srclen <= SIZE_MAX /\ SIZE_MAX \in Nat /\ source[error.src_idx + 1] # Newline
      /\ i \in Nat /\ start \in 0 .. SIZE_MAX /\ line \in Seq(0 .. srclen - 1)
      /\ line_idx \in 0 .. srclen /\ column \in 0 .. SIZE_MAX
  BY ErrorFacts, SizeAssumption DEF ReportInv, ReportTypeOK
<1>1. CASE Scan
  <2>1. /\ at = "scan" /\ i <= error.src_idx /\ LineFrom(i)
        /\ line_idx' = IF source[i + 1] = Newline THEN i + 1 ELSE line_idx
        /\ UNCHANGED <<error, line, column>> /\ line = <<>> /\ column = 0
    BY <1>1 DEF Scan, ReportInv, Scanning
  <2>2. source' = source /\ srclen' = srclen
    BY <2>1 DEF source, srclen
  <2>3. CASE AtError
    <3>1. i = error.src_idx
      BY <1>0, <2>1, <2>3 DEF AtError
    <3>2. line_idx' = line_idx
      BY <1>0, <2>1, <3>1
    <3>3. start' = Start(line_idx) /\ i' = 0 /\ at' = "line"
      BY <1>1, <2>3, <3>2 DEF Scan
    <3>4. line_idx \in 0 .. error.src_idx
      BY <2>1, <3>1 DEF LineFrom
    <3>5. start' \in 0 .. SIZE_MAX
      BY <1>0, <3>3, <3>4, StartFacts
    <3>6. ReportTypeOK'
      BY <1>0, <2>1, <2>2, <3>2, <3>3, <3>4, <3>5 DEF ReportTypeOK
    <3>7. LineFrom(error.src_idx)'
      BY <2>1, <2>2, <3>1, <3>2 DEF LineFrom
    <3>8. start' = Start(line_idx)'
      BY <2>1, <3>2, <3>3 DEF Start
    <3>9. Found' /\ Printing'
      BY <1>0, <2>1, <2>2, <3>2, <3>3, <3>7, <3>8 DEF Found, Printing
    <3> QED BY <3>3, <3>6, <3>9 DEF ReportInv, Scanning, PrintedLine, Spaces
  <2>4. CASE ~ AtError
    <3>1. i < error.src_idx /\ i' = i + 1 /\ at' = "scan" /\ start' = start
      BY <1>0, <1>1, <2>1, <2>4 DEF AtError, Scan
    <3>2. LineFrom(i)'
      BY <1>0, <2>1, <2>2, <3>1 DEF LineFrom
    <3>3. ReportTypeOK'
      BY <1>0, <2>1, <2>2, <3>1, <3>2 DEF ReportTypeOK, LineFrom
    <3> QED BY <1>0, <2>1, <3>1, <3>2, <3>3
            DEF ReportInv, Scanning, Found, Printing, PrintedLine, Spaces
  <2> QED BY <2>3, <2>4
<1>2. CASE PrintCharacter
  <2>1. /\ at = "line" /\ line' = Append(line, line_idx + i)
        /\ UNCHANGED <<error, line_idx, start, column>> /\ line_idx + i < srclen
        /\ Len(line) = i /\ column = 0 /\ LineFrom(error.src_idx) /\ start = Start(line_idx)
        /\ \A k \in 1 .. Len(line) : line[k] = line_idx + k - 1
        /\ \A j \in line_idx + 1 .. line_idx + i : source[j] # Newline
    BY <1>2 DEF PrintCharacter, ReportInv, ReportTypeOK, Found, Printing
  <2>2. source' = source /\ srclen' = srclen
    BY <2>1 DEF source, srclen
  <2>3. /\ line' \in Seq(0 .. srclen - 1) /\ Len(line') = i + 1
        /\ \A k \in 1 .. Len(line') : line'[k] = line_idx + k - 1
    BY <1>0, <2>1
  <2>4. Found'
    <3>1. LineFrom(error.src_idx)'
      BY <2>1, <2>2 DEF LineFrom
    <3>2. start' = Start(line_idx)'
      BY <2>1 DEF Start
    <3> QED BY <2>1, <2>3, <3>1, <3>2 DEF Found
  <2>5. CASE source[line_idx + i + 1] = Newline \/ line_idx + i + 1 >= srclen
    <3>1. i' = 0 /\ at' = "spaces"
      BY <1>2, <2>5 DEF PrintCharacter
    <3>2. PrintedLine'
      <4>1. line_idx' = line_idx /\ line_idx + Len(line') - 1 = line_idx + i
        <5>1. Len(line') = i + 1 /\ line_idx' = line_idx
          BY <2>1, <2>3
        <5>2. line_idx \in Int /\ i \in Int
          BY <1>0
        <5> QED BY <5>1, <5>2
      <4>2. line_idx = 0 \/ source[line_idx] = Newline
        BY <2>1 DEF LineFrom
      <4>3. line_idx + i = srclen - 1 \/ source[line_idx + i + 1] = Newline
        BY <1>0, <2>1, <2>5
      <4>4. IsLine(line_idx, line_idx + Len(line) - 1)'
        <5>1. line_idx' + Len(line') - 1 = line_idx + i
          BY <4>1
        <5>2. /\ line_idx = 0 \/ source'[line_idx] = Newline
              /\ line_idx + i = srclen' - 1 \/ source'[line_idx + i + 1] = Newline
              /\ \A j \in line_idx + 1 .. line_idx + i : source'[j] # Newline
          BY <2>1, <2>2, <4>2, <4>3
        <5> QED BY <4>1, <5>1, <5>2 DEF IsLine
      <4> QED BY <1>0, <2>3, <4>4 DEF PrintedLine
    <3>3. ReportTypeOK'
      BY <1>0, <2>1, <2>2, <2>3, <3>1 DEF ReportTypeOK
    <3>4. Spaces'
      BY <1>0, <2>1, <3>1 DEF Spaces
    <3> QED BY <2>4, <3>1, <3>2, <3>3, <3>4 DEF ReportInv, Scanning, Printing
  <2>6. CASE ~ (source[line_idx + i + 1] = Newline \/ line_idx + i + 1 >= srclen)
    <3>1. i' = i + 1 /\ at' = "line" /\ line_idx + i + 1 < srclen
      BY <1>0, <1>2, <2>1, <2>6 DEF PrintCharacter
    <3>2. ReportTypeOK'
      BY <1>0, <2>1, <2>2, <2>3, <3>1 DEF ReportTypeOK
    <3>3. Printing'
      <4>1. ASSUME NEW j \in line_idx + 1 .. line_idx + i + 1 PROVE source[j] # Newline
        <5>1. CASE j = line_idx + i + 1
          BY <2>6, <5>1
        <5>2. CASE j # line_idx + i + 1
          BY <1>0, <2>1, <5>2
        <5> QED BY <5>1, <5>2
      <4>2. line_idx' + i' = line_idx + i + 1 /\ line_idx' = line_idx
        BY <1>0, <2>1, <3>1
      <4> QED BY <2>1, <2>2, <2>3, <3>1, <4>1, <4>2 DEF Printing
    <3> QED BY <2>4, <3>1, <3>2, <3>3 DEF ReportInv, Scanning, PrintedLine, Spaces
  <2> QED BY <2>5, <2>6
<1>3. CASE PrintSpace
  <2>1. /\ at = "spaces" /\ at' = "spaces" /\ i < start /\ column' = column + 1 /\ i' = i + 1
        /\ UNCHANGED <<error, line_idx, start, line>> /\ column = i
    BY <1>3 DEF PrintSpace, ReportInv, Spaces
  <2>2. source' = source /\ srclen' = srclen
    BY <2>1 DEF source, srclen
  <2>3. ReportTypeOK'
    BY <1>0, <2>1, <2>2 DEF ReportTypeOK
  <2> QED BY <1>0, <2>1, <2>2, <2>3
          DEF ReportInv, Scanning, Found, Printing, PrintedLine, Spaces, LineFrom, IsLine, Start
<1>4. CASE PrintCarets
  <2>1. /\ at = "spaces" /\ at' = "done" /\ i >= start /\ i <= start /\ column = i
        /\ UNCHANGED <<error, line_idx, i, start, line, column>>
    BY <1>4 DEF PrintCarets, ReportInv, Spaces
  <2>2. source' = source /\ srclen' = srclen
    BY <2>1 DEF source, srclen
  <2>3. ReportTypeOK'
    BY <1>0, <2>1, <2>2 DEF ReportTypeOK
  <2> QED BY <1>0, <2>1, <2>2, <2>3
          DEF ReportInv, Scanning, Found, Printing, PrintedLine, Spaces, LineFrom, IsLine, Start
<1>5. CASE Reported \/ UNCHANGED reportvars
  BY <1>5 DEF Reported, reportvars, ReportInv, ReportTypeOK, Scanning, Found, Printing, PrintedLine, Spaces,
              LineFrom, IsLine, Start, source, srclen
<1> QED BY <1>1, <1>2, <1>3, <1>4, <1>5 DEF ReportNext

(* report_err() keeps its types and reads no character outside the source. *)
THEOREM ReportTypes == ReportSpec => []ReportTypeOK
<1>1. ReportInv => ReportTypeOK
  BY DEF ReportInv
<1> QED BY <1>1, InitReport, StepReport, PTL DEF ReportSpec

(* It prints the line of the error.                                        *)
THEOREM PrintsLine == ReportSpec => []LinePrinted
<1>1. ReportInv => LinePrinted
  <2> SUFFICES ASSUME ReportInv, at = "done" PROVE LinePrinted
    BY DEF LinePrinted
  <2> DEFINE m == line_idx + Len(line) - 1
  <2>1. /\ error.src_idx \in Nat /\ srclen \in Nat /\ error.src_idx < srclen
        /\ line \in Seq(0 .. srclen - 1) /\ line_idx \in 0 .. error.src_idx
        /\ \A j \in line_idx + 1 .. error.src_idx : source[j] # Newline
        /\ Len(line) > 0 /\ IsLine(line_idx, m)
        /\ \A k \in 1 .. Len(line) : line[k] = line_idx + k - 1
    BY ErrorFacts DEF ReportInv, ReportTypeOK, Found, PrintedLine, LineFrom
  <2>2. m \in error.src_idx .. srclen - 1
    <3>1. m \in 0 .. srclen - 1
      <4>1. PICK n \in Nat : n = Len(line)
        BY <2>1
      <4>2. n \in 1 .. Len(line) /\ n \in DOMAIN line
        BY <2>1, <4>1
      <4>3. line[n] \in 0 .. srclen - 1
        BY <2>1, <4>2
      <4>4. line[n] = line_idx + n - 1
        BY <2>1, <4>2
      <4> QED BY <4>1, <4>3, <4>4
    <3>2. ASSUME m < error.src_idx PROVE FALSE
      BY <2>1, <3>1, <3>2 DEF IsLine
    <3> QED BY <2>1, <3>1, <3>2
  <2>3. line = [k \in 1 .. m - line_idx + 1 |-> line_idx + k - 1]
    BY <2>1
  <2> QED BY <2>1, <2>2, <2>3 DEF LinePrinted
<1> QED BY <1>1, InitReport, StepReport, PTL DEF ReportSpec

(* It marks an error in the first line.                                    *)
THEOREM MarksFirstLine == ReportSpec => []FirstLineCaret
<1>1. ReportInv => FirstLineCaret
  <2> SUFFICES ASSUME ReportInv, at = "done", FirstLine PROVE column = error.src_idx
    BY DEF FirstLineCaret
  <2>1. /\ error.src_idx \in Nat /\ LineFrom(error.src_idx)
        /\ column = Start(line_idx)
    BY ErrorFacts DEF ReportInv, ReportTypeOK, Found, Spaces
  <2>2. line_idx = 0
    BY <2>1 DEF LineFrom, FirstLine
  <2> QED BY <2>1, <2>2 DEF Start
<1> QED BY <1>1, InitReport, StepReport, PTL DEF ReportSpec
=============================================================================
