------------------------------ MODULE ReadFile ------------------------------
(***************************************************************************)
(* read_file() of src/surface.c, which reads a source file into a string   *)
(* in chunks of KILO bytes, and str_pushfile() of src/string/string.c,     *)
(* which reads one chunk.  The file's bytes are 1 .. size, each standing   *)
(* for its place in the file, and 0 is a byte of the string's memory that  *)
(* has not been written.                                                   *)
(***************************************************************************)
EXTENDS Integers

CONSTANTS
    KILO,     (* the chunk                                                  *)
    Sizes     (* sizes of files                                             *)

ASSUME KiloAssumption == KILO \in Nat \ {0}
ASSUME SizesAssumption == Sizes \subseteq Nat

VARIABLES
    size,         (* of the file                                            *)
    fpos,         (* the stream's position ...                              *)
    eof, err,     (* ... and its flags, feof(f) and ferror(f)               *)
    ptr,          (* the string's memory, 0 .. cap - 1                      *)
    cap, len,     (* its capacity and length                                *)
    consumption,  (* what str_pushfile() has read of the chunk              *)
    pc            (* "open", "loop" in read_file(), "chunk" in              *)
                  (* str_pushfile(), and then "string" or "null"            *)

stream == <<fpos, eof, err>>
string == <<ptr, cap, len>>
vars == <<size, stream, string, consumption, pc>>

Init ==
    /\ size \in Sizes
    /\ fpos = 0 /\ eof = FALSE /\ err = FALSE
    /\ ptr = [k \in {} |-> 0] /\ cap = 0 /\ len = 0
    /\ consumption = 0
    /\ pc = "open"

(* fopen() fails.                                                          *)
NotOpened ==
    /\ pc = "open"
    /\ pc' = "null"
    /\ UNCHANGED <<size, stream, string, consumption>>

(* The capacity is the file's size, where fseek() works on it.             *)
Allocate(n) ==
    /\ cap' = n
    /\ ptr' = [k \in 0 .. n - 1 |-> 0]

Open ==
    /\ pc = "open"
    /\ \E fsize \in {0, size} : Allocate(IF fsize > 0 THEN fsize ELSE KILO)
    /\ pc' = "loop"
    /\ UNCHANGED <<size, stream, len, consumption>>

(* Mutant of Accomodate: new memory, without what is there.                *)
AccomodateAnew(n) ==
    IF cap < n
    THEN cap' = n /\ ptr' = [k \in 0 .. n - 1 |-> 0]
    ELSE UNCHANGED <<ptr, cap>>

(* str_accomodate: at least n, keeping what is there.                      *)
Accomodate(n) ==
    IF cap < n
    THEN /\ cap' = n
         /\ ptr' = [k \in 0 .. n - 1 |-> IF k < cap THEN ptr[k] ELSE 0]
    ELSE UNCHANGED <<ptr, cap>>

(* Mutant of PushFile: room for a chunk, but not behind what is there.     *)
PushFileNoRoom ==
    /\ pc = "loop" /\ ~ (err \/ eof)
    /\ Accomodate(KILO)
    /\ consumption' = 0
    /\ pc' = "chunk"
    /\ UNCHANGED <<size, stream, len>>

(* Mutant of PushFile: the loop of read_file() does not look at ferror().  *)
PushFileAfterError ==
    /\ pc = "loop" /\ ~ eof
    /\ Accomodate(len + KILO)
    /\ consumption' = 0
    /\ pc' = "chunk"
    /\ UNCHANGED <<size, stream, len>>

PushFile ==
    /\ pc = "loop" /\ ~ (err \/ eof)
    /\ Accomodate(len + KILO)
    /\ consumption' = 0
    /\ pc' = "chunk"
    /\ UNCHANGED <<size, stream, len>>

(* fread() puts the next n bytes where str_pushfile() tells it to, the     *)
(* start of the string and what is consumed of this chunk.                 *)
Fread(n) ==
    /\ fpos' = fpos + n
    /\ ptr' = [k \in DOMAIN ptr |->
                  IF k \in consumption .. consumption + n - 1
                  THEN fpos + (k - consumption) + 1
                  ELSE ptr[k]]
    /\ consumption' = consumption + n
    /\ UNCHANGED <<size, cap>>

Remaining == size - fpos

Request == KILO - consumption
InChunk == pc = "chunk" /\ consumption < KILO

(* All that was asked for; the end of the file is not noticed.             *)
FreadAll ==
    /\ InChunk /\ Request <= Remaining
    /\ Fread(Request)
    /\ UNCHANGED <<eof, err, len, pc>>

(* The last bytes; the loop goes round once more.                          *)
FreadLast ==
    /\ InChunk /\ 0 < Remaining /\ Remaining < Request
    /\ Fread(Remaining)
    /\ eof' = TRUE
    /\ UNCHANGED <<err, len, pc>>

(* Mutant of FreadNothing: the chunk cut short by the end is not counted.  *)
FreadNothingUncounted ==
    /\ InChunk /\ Remaining = 0
    /\ eof' = TRUE
    /\ pc' = "loop"
    /\ UNCHANGED <<size, fpos, err, string, consumption>>

(* Nothing, because of the end: break, and len += consumption; but return  *)
(* false if there was an error before.                                     *)
FreadNothing ==
    /\ InChunk /\ Remaining = 0
    /\ eof' = TRUE
    /\ len' = IF err THEN len ELSE len + consumption
    /\ pc' = "loop"
    /\ UNCHANGED <<size, fpos, err, ptr, cap, consumption>>

(* Fewer than were asked for, because of an error.  If there are none at   *)
(* all str_pushfile() returns false, without len += consumption.           *)
FreadError ==
    /\ InChunk
    /\ \E n \in 0 .. Remaining :
          /\ n < Request
          /\ Fread(n)
          /\ pc' = IF n = 0 THEN "loop" ELSE "chunk"
    /\ err' = TRUE
    /\ UNCHANGED <<eof, len>>

(* The chunk is full: len += consumption, and return.                      *)
EndChunk ==
    /\ pc = "chunk" /\ consumption >= KILO
    /\ len' = len + consumption
    /\ pc' = "loop"
    /\ UNCHANGED <<size, stream, ptr, cap, consumption>>

Return ==
    /\ pc = "loop" /\ (err \/ eof)
    /\ pc' = IF err THEN "null" ELSE "string"
    /\ UNCHANGED <<size, stream, string, consumption>>

Done == pc \in {"string", "null"}

Returned == Done /\ UNCHANGED vars

Next ==
    \/ NotOpened \/ Open \/ PushFile
    \/ FreadAll \/ FreadLast \/ FreadNothing \/ FreadError
    \/ EndChunk \/ Return
    \/ Returned

Spec == Init /\ [][Next]_vars
FairSpec == Spec /\ WF_vars(Next)

----------------------------------------------------------------------------
TypeOK ==
    /\ size \in Nat
    /\ fpos \in 0 .. size
    /\ eof \in BOOLEAN /\ err \in BOOLEAN
    /\ cap \in Nat /\ len \in Nat
    /\ ptr \in [0 .. cap - 1 -> 0 .. size]
    /\ consumption \in 0 .. KILO
    /\ pc \in {"open", "loop", "chunk", "string", "null"}

(* There is room for the whole chunk behind what has been read, which is   *)
(* more than fread() is given: whatever it returns, also when it returns   *)
(* several times or an error, it stays inside the capacity.                *)
RoomForChunk == pc = "chunk" => len + KILO <= cap

(* The string is returned only if nothing went wrong, and is as long as    *)
(* the file: short reads, a chunk that ends with the file, and the extra   *)
(* chunk in which the end is noticed are counted once.                     *)
LengthIsSize == pc = "string" => ~ err /\ len = size

FileRead == len = size /\ \A k \in 0 .. size - 1 : ptr[k] = k + 1

(* A file of one chunk is in the string as it is.                          *)
ChunkRead == pc = "string" /\ size <= KILO => FileRead

(* Every file is.                                                          *)
ContentIsFile == pc = "string" => FileRead

(* read_file() returns: it notices the end or an error.                    *)
Terminates == <>Done
=============================================================================
