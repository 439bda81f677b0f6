------------------------- MODULE LoggyMcLogFaceProofs -------------------------
(***************************************************************************)
(* Theorems about the event log, for any formats, any number of calls and  *)
(* any moment at which the stream writes its buffer to the file: whatever  *)
(* lines are given up, the lines of the calls that returned 0 are kept,    *)
(* except for what is still in the buffer when the process ends.           *)
(*                                                                         *)
(* LinesKept is not inductive.  That seeking back to pos erases exactly    *)
(* the line that is given up needs to know that pos is where the good      *)
(* lines end (Settled), and that what it leaves behind is not taken for a  *)
(* later line needs to know how old the units of the file are (Aged).      *)
(***************************************************************************)
EXTENDS LoggyMcLogFace, SequenceTheorems, TLAPS

Lines == good \o line

UnitsSoFar == (1 .. calls) \X Nat

Settled ==
    /\ good \in Seq(UnitsSoFar) /\ line \in Seq(UnitsSoFar)
    /\ pc \in {"idle", "closed"} => line = <<>>
    /\ pc = "closed" => buffer = <<>>
    /\ pc = "log" =>
        /\ calls > 0 /\ pos <= Position
        /\ usable /\ Len(good) < Width \div 2 => pos = Len(good)

(* While a line is written its units are the only ones of this call, except *)
(* for those on their way from the stream to the file.                      *)
Aged ==
    pc = "log" =>
        /\ \A k \in 1 .. Len(line) : line[k][1] = calls
        /\ \A k \in 1 .. Len(good) : good[k][1] < calls
        /\ \A k \in offset + 1 .. Len(disk) : disk[k][1] < calls

(* LinesKept, unit by unit: while the log lives, and afterwards.            *)
Matches ==
    usable /\ Len(good) < Width \div 2 /\ pc # "dead" =>
        /\ Position = Len(Lines)
        /\ \A k \in 1 .. offset : disk[k] = Lines[k]
        /\ \A k \in 1 .. Len(buffer) : buffer[k] = Lines[offset + k]
        /\ \A k \in offset + 1 .. Len(disk) : \A g \in 1 .. Len(Lines) : disk[k] # Lines[g]

Remains ==
    usable /\ Len(good) < Width \div 2 /\ pc = "dead" =>
        /\ offset <= Len(Lines)
        /\ \A k \in 1 .. offset : disk[k] = Lines[k]
        /\ \A k \in offset + 1 .. Len(disk) : \A g \in 1 .. Len(Lines) : disk[k] # Lines[g]

IInv == TypeOK /\ Settled /\ Aged /\ Matches /\ Remains

-----------------------------------------------------------------------------
(* Data: a file with some units written over it from a position on, and    *)
(* the units a call writes.                                                *)

LEMMA OverUnits ==
    ASSUME NEW S, NEW file \in Seq(S), NEW units \in Seq(S), NEW p \in 0 .. Len(file)
    PROVE  /\ Over(file, p, units) \in Seq(S)
           /\ Len(Over(file, p, units)) \in Nat
           /\ p + Len(units) <= Len(Over(file, p, units))
           /\ Len(Over(file, p, units)) \in {Len(file), p + Len(units)}
           /\ Len(file) <= Len(Over(file, p, units))
           /\ \A k \in 1 .. p : Over(file, p, units)[k] = file[k]
           /\ \A k \in 1 .. Len(units) : Over(file, p, units)[p + k] = units[k]
           /\ \A k \in p + Len(units) + 1 .. Len(Over(file, p, units)) :
                k \in 1 .. Len(file) /\ Over(file, p, units)[k] = file[k]
<1> DEFINE n == Len(units)
           end == Len(file)
           front == SubSeq(file, 1, p)
           back == SubSeq(file, p + n + 1, end)
<1>1. n \in Nat /\ end \in Nat /\ p \in Nat /\ p <= end
      /\ \A k \in 1 .. end : file[k] \in S
  BY LenProperties, ElementOfSeq
<1>2. front \in Seq(S) /\ Len(front) = p /\ \A k \in 1 .. p : front[k] = file[k]
  <2>1. \A k \in 1 .. p : file[k] \in S
    BY <1>1
  <2>2. /\ front \in Seq(S) /\ Len(front) = IF 1 <= p THEN p - 1 + 1 ELSE 0
        /\ \A k \in 1 .. p - 1 + 1 : front[k] = file[1 + k - 1]
    BY <1>1, <2>1, SubSeqProperties
  <2> QED
    BY <1>1, <2>2
<1>3. /\ back \in Seq(S)
      /\ Len(back) = IF p + n < end THEN end - (p + n) ELSE 0
      /\ \A k \in 1 .. Len(back) : back[k] = file[p + n + k]
  <2>1. \A k \in p + n + 1 .. end : file[k] \in S
    BY <1>1
  <2>2. /\ back \in Seq(S)
        /\ Len(back) = IF p + n + 1 <= end THEN end - (p + n + 1) + 1 ELSE 0
        /\ \A k \in 1 .. end - (p + n + 1) + 1 : back[k] = file[p + n + 1 + k - 1]
    BY <1>1, <2>1, SubSeqProperties
  <2> QED
    BY <1>1, <2>2
<1>4. /\ front \o units \in Seq(S) /\ Len(front \o units) = p + n
      /\ \A k \in 1 .. p + n : (front \o units)[k] = IF k <= p THEN front[k] ELSE units[k - p]
  BY <1>2, ConcatProperties
<1>5. /\ (front \o units) \o back \in Seq(S)
      /\ Len((front \o units) \o back) = p + n + Len(back)
      /\ \A k \in 1 .. p + n + Len(back) :
            ((front \o units) \o back)[k] =
                IF k <= p + n THEN (front \o units)[k] ELSE back[k - (p + n)]
  <2> DEFINE both == front \o units
  <2>1. both \in Seq(S) /\ Len(both) = p + n /\ back \in Seq(S)
    BY <1>3, <1>4
  <2> HIDE DEF both, front, back, n
  <2>2. /\ both \o back \in Seq(S) /\ Len(both \o back) = Len(both) + Len(back)
        /\ \A k \in 1 .. Len(both) + Len(back) :
             (both \o back)[k] = IF k <= Len(both) THEN both[k] ELSE back[k - Len(both)]
    BY <2>1, ConcatProperties
  <2>3. /\ both \o back \in Seq(S) /\ Len(both \o back) = p + n + Len(back)
        /\ \A k \in 1 .. p + n + Len(back) :
             (both \o back)[k] = IF k <= p + n THEN both[k] ELSE back[k - (p + n)]
    BY <2>1, <2>2
  <2> QED
    BY <2>3 DEF both
<1>6. Over(file, p, units) = (front \o units) \o back
  BY <1>3, <1>4, <1>2, ConcatAssociative DEF Over
<1> DEFINE o == Over(file, p, units)
<1>7. /\ o \in Seq(S) /\ Len(o) = p + n + Len(back)
      /\ \A k \in 1 .. Len(o) : o[k] = IF k <= p + n THEN (front \o units)[k] ELSE back[k - (p + n)]
  BY <1>5, <1>6
<1> HIDE DEF o, front, back, n, end
<1>8. /\ Len(o) \in Nat /\ p + n <= Len(o) /\ end <= Len(o) /\ Len(o) \in {end, p + n}
      /\ Len(back) \in Nat
  BY <1>1, <1>3, <1>7
<1>9. \A k \in 1 .. p : o[k] = file[k]
  BY <1>1, <1>2, <1>4, <1>7, <1>8
<1>10. \A k \in 1 .. n : o[p + k] = units[k]
  <2> TAKE k \in 1 .. n
  <2>1. p + k \in 1 .. Len(o) /\ p + k <= p + n /\ ~ (p + k <= p) /\ (p + k) - p = k
        /\ p + k \in 1 .. p + n
    BY <1>1, <1>8
  <2> QED
    BY <1>4, <1>7, <2>1
<1>11. \A k \in p + n + 1 .. Len(o) : k \in 1 .. end /\ o[k] = file[k]
  <2> TAKE k \in p + n + 1 .. Len(o)
  <2>1. /\ k \in 1 .. Len(o) /\ ~ (k <= p + n) /\ k - (p + n) \in 1 .. Len(back)
        /\ p + n + (k - (p + n)) = k /\ k \in 1 .. end
    BY <1>1, <1>3, <1>7, <1>8
  <2> QED
    BY <1>3, <1>7, <2>1
<1> QED
  BY <1>7, <1>8, <1>9, <1>10, <1>11 DEF o, n, end

LEMMA UnitsWritten ==
    ASSUME NEW m \in Nat, NEW call \in 1 .. m, NEW n \in Nat, Len(line) \in Nat
    PROVE  /\ Units(call, n) \in Seq((1 .. m) \X Nat) /\ Len(Units(call, n)) = n
           /\ \A k \in 1 .. n : Units(call, n)[k] = <<call, Len(line) + k>>
<1>1. \A k \in 1 .. n : <<call, Len(line) + k>> \in (1 .. m) \X Nat
  OBVIOUS
<1>2. Units(call, n) \in [1 .. n -> (1 .. m) \X Nat]
  BY <1>1 DEF Units
<1> DEFINE U == Units(call, n)
           S == (1 .. m) \X Nat
<1>3. U \in Seq(S)
  <2>1. U \in [1 .. n -> S]
    BY <1>2
  <2> HIDE DEF U, S
  <2> QED
    BY <2>1, SeqDef
<1>4. DOMAIN U = 1 .. n
  BY <1>2
<1>5. Len(U) = n
  <2> HIDE DEF U, S
  <2>1. Len(U) \in Nat /\ DOMAIN U = 1 .. Len(U)
    BY <1>3, LenProperties
  <2> QED
    BY <1>4, <2>1
<1>6. \A k \in 1 .. n : U[k] = <<call, Len(line) + k>>
  BY DEF Units
<1> QED
  BY <1>3, <1>5, <1>6

(* What is written out joins the file, the rest stays in the buffer, and   *)
(* behind the position the file is as it was.                              *)
LEMMA Flushed ==
    ASSUME NEW S, disk \in Seq(S), offset \in 0 .. Len(disk),
           NEW buffered \in Seq(S), NEW n \in 0 .. Len(buffered),
           Flush(buffered, n)
    PROVE  /\ disk' \in Seq(S) /\ buffer' \in Seq(S) /\ Len(buffer') = Len(buffered) - n
           /\ offset' = offset + n /\ offset' \in 0 .. Len(disk')
           /\ Position' = offset + Len(buffered)
           /\ \A k \in 1 .. offset : disk'[k] = disk[k]
           /\ \A k \in 1 .. n : disk'[offset + k] = buffered[k]
           /\ \A k \in 1 .. Len(buffer') : buffer'[k] = buffered[n + k]
           /\ \A k \in offset' + 1 .. Len(disk') :
                k \in offset + 1 .. Len(disk) /\ disk'[k] = disk[k]
<1> DEFINE out == SubSeq(buffered, 1, n)
<1>1. /\ Len(buffered) \in Nat /\ Len(disk) \in Nat /\ n \in Nat /\ n <= Len(buffered)
      /\ offset \in Nat /\ offset <= Len(disk)
      /\ \A k \in 1 .. Len(buffered) : buffered[k] \in S
  BY LenProperties, ElementOfSeq
<1>2. out \in Seq(S) /\ Len(out) = n /\ \A k \in 1 .. n : out[k] = buffered[k]
  <2>1. \A k \in 1 .. n : buffered[k] \in S
    BY <1>1
  <2>2. /\ out \in Seq(S) /\ Len(out) = IF 1 <= n THEN n - 1 + 1 ELSE 0
        /\ \A k \in 1 .. n - 1 + 1 : out[k] = buffered[1 + k - 1]
    BY <1>1, <2>1, SubSeqProperties
  <2> QED
    BY <1>1, <2>2
<1>3. /\ buffer' \in Seq(S) /\ Len(buffer') = Len(buffered) - n
      /\ \A k \in 1 .. Len(buffer') : buffer'[k] = buffered[n + k]
  <2> DEFINE keep == SubSeq(buffered, n + 1, Len(buffered))
  <2>1. \A k \in n + 1 .. Len(buffered) : buffered[k] \in S
    BY <1>1
  <2>2. /\ keep \in Seq(S)
        /\ Len(keep) = IF n + 1 <= Len(buffered) THEN Len(buffered) - (n + 1) + 1 ELSE 0
        /\ \A k \in 1 .. Len(buffered) - (n + 1) + 1 : keep[k] = buffered[n + 1 + k - 1]
    BY <1>1, <2>1, SubSeqProperties
  <2>3. buffer' = keep
    BY DEF Flush
  <2> HIDE DEF keep
  <2> QED
    BY <1>1, <2>2, <2>3
<1>4. disk' = Over(disk, offset, out) /\ offset' = offset + n
  BY DEF Flush
<1> HIDE DEF out
<1>5. /\ disk' \in Seq(S) /\ Len(disk') \in Nat /\ offset + n <= Len(disk')
      /\ \A k \in 1 .. offset : disk'[k] = disk[k]
      /\ \A k \in 1 .. n : disk'[offset + k] = out[k]
      /\ \A k \in offset + n + 1 .. Len(disk') : k \in 1 .. Len(disk) /\ disk'[k] = disk[k]
  <2>1. out \in Seq(S) /\ Len(out) = n
    BY <1>2
  <2> QED
    BY <1>4, <2>1, OverUnits
<1>6. \A k \in offset' + 1 .. Len(disk') : k \in offset + 1 .. Len(disk) /\ disk'[k] = disk[k]
  BY <1>1, <1>4, <1>5
<1>7. Position' = offset + Len(buffered)
  BY <1>1, <1>3, <1>4 DEF Position
<1> QED
  BY <1>1, <1>2, <1>3, <1>4, <1>5, <1>6, <1>7

(* A stream that stands for the units L goes on standing for them however  *)
(* much of its buffer is written out.                                      *)
LEMMA FlushedMatches ==
    ASSUME NEW S, disk \in Seq(S), offset \in 0 .. Len(disk),
           NEW buffered \in Seq(S), NEW n \in 0 .. Len(buffered),
           Flush(buffered, n),
           NEW L \in Seq(S), Len(L) = offset + Len(buffered),
           \A k \in 1 .. offset : disk[k] = L[k],
           \A k \in 1 .. Len(buffered) : buffered[k] = L[offset + k],
           \A k \in offset + 1 .. Len(disk) : \A g \in 1 .. Len(L) : disk[k] # L[g]
    PROVE  /\ Position' = Len(L)
           /\ \A k \in 1 .. offset' : disk'[k] = L[k]
           /\ \A k \in 1 .. Len(buffer') : buffer'[k] = L[offset' + k]
           /\ \A k \in offset' + 1 .. Len(disk') : \A g \in 1 .. Len(L) : disk'[k] # L[g]
<1>1. /\ disk' \in Seq(S) /\ buffer' \in Seq(S) /\ Len(buffer') = Len(buffered) - n
      /\ offset' = offset + n /\ Position' = offset + Len(buffered)
      /\ \A k \in 1 .. offset : disk'[k] = disk[k]
      /\ \A k \in 1 .. n : disk'[offset + k] = buffered[k]
      /\ \A k \in 1 .. Len(buffer') : buffer'[k] = buffered[n + k]
      /\ \A k \in offset' + 1 .. Len(disk') :
            k \in offset + 1 .. Len(disk) /\ disk'[k] = disk[k]
  BY Flushed
<1>2. Len(buffered) \in Nat /\ Len(disk) \in Nat /\ offset \in Nat /\ n \in 0 .. Len(buffered)
  BY LenProperties
<1>3. \A k \in 1 .. offset' : disk'[k] = L[k]
  <2> TAKE k \in 1 .. offset'
  <2>1. CASE k <= offset
    <3>1. k \in 1 .. offset
      BY <1>1, <1>2, <2>1
    <3>2. disk'[k] = disk[k]
      BY <1>1, <3>1
    <3>3. disk[k] = L[k]
      BY <3>1
    <3> QED
      BY <3>2, <3>3
  <2>2. CASE ~ (k <= offset)
    <3>1. PICK j \in 1 .. n : offset + j = k
      <4>1. k - offset \in 1 .. n /\ offset + (k - offset) = k
        BY <1>1, <1>2, <2>2
      <4> QED
        BY <4>1
    <3>2. disk'[offset + j] = buffered[j]
      BY <1>1
    <3>3. j \in 1 .. Len(buffered)
      BY <1>2
    <3>4. buffered[j] = L[offset + j]
      BY <3>3
    <3> QED
      BY <3>1, <3>2, <3>4
  <2> QED
    BY <2>1, <2>2
<1>4. \A k \in 1 .. Len(buffer') : buffer'[k] = L[offset' + k]
  <2> TAKE k \in 1 .. Len(buffer')
  <2>1. n + k \in 1 .. Len(buffered) /\ offset + (n + k) = offset' + k
    BY <1>1, <1>2
  <2> QED
    BY <1>1, <2>1
<1> QED
  BY <1>1, <1>3, <1>4

(* The narrowing of tellp's result to an int32_t.                          *)
LEMMA Narrowed ==
    /\ Width \div 2 \in Nat \ {0}
    /\ \A p \in Nat : /\ Int32(p) \in -(Width \div 2) .. Width \div 2 - 1
                      /\ Int32(p) <= p
                      /\ p < Width \div 2 => Int32(p) = p
<1> DEFINE half == Width \div 2
<1>1. Width \in Nat \ {0} /\ Width % 2 = 0
  BY LogAssumption
<1>2. half \in Nat \ {0} /\ Width = 2 * half
  BY <1>1
<1> HIDE DEF half
<1>3. ASSUME NEW p \in Nat
      PROVE  /\ p % Width \in 0 .. Width - 1 /\ p % Width <= p
             /\ p < Width => p % Width = p
  BY <1>1, <1>3
<1>4. ASSUME NEW p \in Nat
      PROVE  /\ Int32(p) \in -half .. half - 1 /\ Int32(p) <= p
             /\ p < half => Int32(p) = p
  <2>1. /\ p % Width \in 0 .. Width - 1 /\ p % Width <= p
        /\ p < Width => p % Width = p
    BY <1>3
  <2>2. Int32(p) = IF p % Width < half THEN p % Width ELSE (p % Width) - Width
    BY DEF Int32, half
  <2> DEFINE r == p % Width
  <2> HIDE DEF r
  <2>3. /\ r \in 0 .. Width - 1 /\ r <= p /\ (p < Width => r = p)
        /\ Int32(p) = IF r < half THEN r ELSE r - Width
    BY <2>1, <2>2 DEF r
  <2> QED
    BY <1>2, <2>3
<1> QED
  BY <1>2, <1>4 DEF half

LEMMA OneMore ==
    ASSUME NEW S, NEW s \in Seq(S), NEW U \in Seq(S), Len(U) = 1
    PROVE  s \o U \in Seq(S) /\ Len(s \o U) = Len(s) + 1
<1>1. \A t \in Seq(S) : s \o t \in Seq(S) /\ Len(s \o t) = Len(s) + Len(t)
  BY ConcatProperties
<1> QED
  BY <1>1

LEMMA LinesWritten ==
    ASSUME NEW S, good \in Seq(S), line \in Seq(S), NEW U \in Seq(S),
           good' = good, line' = line \o U
    PROVE  Lines' = Lines \o U
BY ConcatAssociative DEF Lines

LEMMA StreamTypes ==
    ASSUME IInv
    PROVE  /\ disk \in Seq(UnitsSoFar) /\ buffer \in Seq(UnitsSoFar)
           /\ offset \in 0 .. Len(disk) /\ Len(disk) \in Nat /\ Len(buffer) \in Nat
           /\ good \in Seq(UnitsSoFar) /\ line \in Seq(UnitsSoFar) /\ Lines \in Seq(UnitsSoFar)
           /\ Len(good) \in Nat /\ Len(line) \in Nat /\ Len(Lines) = Len(good) + Len(line)
           /\ Position \in Nat /\ calls \in 0 .. MaxCalls /\ MaxCalls \in Nat
<1>1. /\ disk \in Seq(UnitsSoFar) /\ buffer \in Seq(UnitsSoFar) /\ offset \in 0 .. Len(disk)
      /\ good \in Seq(UnitsSoFar) /\ line \in Seq(UnitsSoFar)
      /\ calls \in 0 .. MaxCalls /\ MaxCalls \in Nat
  BY LogAssumption DEF IInv, TypeOK, Settled, UnitsSoFar
<1>2. /\ Len(disk) \in Nat /\ Len(buffer) \in Nat /\ Len(good) \in Nat /\ Len(line) \in Nat
  BY <1>1, LenProperties
<1>3. Lines \in Seq(UnitsSoFar) /\ Len(Lines) = Len(good) + Len(line)
  BY <1>1, ConcatProperties DEF Lines
<1> QED
  BY <1>1, <1>2, <1>3 DEF Position

LEMMA LinesAre ==
    ASSUME IInv
    PROVE  /\ \A k \in 1 .. Len(good) : Lines[k] = good[k]
           /\ \A k \in 1 .. Len(line) : Lines[Len(good) + k] = line[k]
           /\ \A k \in 1 .. Len(Lines) :
                k \in 1 .. Len(good) \/ \E j \in 1 .. Len(line) : k = Len(good) + j
<1>1. /\ Len(good) \in Nat /\ Len(line) \in Nat /\ Len(Lines) = Len(good) + Len(line)
      /\ good \in Seq(UnitsSoFar) /\ line \in Seq(UnitsSoFar)
  BY StreamTypes
<1>2. \A k \in 1 .. Len(good) + Len(line) :
        Lines[k] = IF k <= Len(good) THEN good[k] ELSE line[k - Len(good)]
  BY <1>1, ConcatProperties DEF Lines
<1>3. \A k \in 1 .. Len(good) : Lines[k] = good[k]
  BY <1>1, <1>2
<1>4. \A k \in 1 .. Len(line) : Lines[Len(good) + k] = line[k]
  <2> TAKE k \in 1 .. Len(line)
  <2>1. /\ Len(good) + k \in 1 .. Len(good) + Len(line) /\ ~ (Len(good) + k <= Len(good))
        /\ (Len(good) + k) - Len(good) = k
    BY <1>1
  <2> QED
    BY <1>2, <2>1
<1>5. ASSUME NEW k \in 1 .. Len(Lines)
      PROVE  k \in 1 .. Len(good) \/ \E j \in 1 .. Len(line) : k = Len(good) + j
  <2>1. k \in 1 .. Len(good) \/ (k - Len(good) \in 1 .. Len(line) /\ k = Len(good) + (k - Len(good)))
    BY <1>1
  <2> QED
    BY <2>1
<1> QED
  BY <1>3, <1>4, <1>5

(* A call writes units behind everything the stream stands for.            *)
LEMMA WrittenMatches ==
    ASSUME IInv, usable, Len(good) < Width \div 2, pc # "dead",
           NEW S, UnitsSoFar \subseteq S, NEW U \in Seq(S),
           NEW n \in 0 .. Len(buffer \o U), Flush(buffer \o U, n),
           \A k \in offset + 1 .. Len(disk) : \A j \in 1 .. Len(U) : disk[k] # U[j]
    PROVE  /\ Position' = Len(Lines \o U)
           /\ \A k \in 1 .. offset' : disk'[k] = (Lines \o U)[k]
           /\ \A k \in 1 .. Len(buffer') : buffer'[k] = (Lines \o U)[offset' + k]
           /\ \A k \in offset' + 1 .. Len(disk') :
                \A g \in 1 .. Len(Lines \o U) : disk'[k] # (Lines \o U)[g]
<1> DEFINE L == Lines \o U
           buffered == buffer \o U
<1>1. /\ disk \in Seq(S) /\ buffer \in Seq(S) /\ Lines \in Seq(S)
      /\ offset \in 0 .. Len(disk) /\ Len(buffer) \in Nat /\ Len(U) \in Nat
      /\ Len(Lines) \in Nat /\ offset \in Nat
  BY StreamTypes, SeqMonotonic, LenProperties
<1>2. /\ Position = Len(Lines)
      /\ \A k \in 1 .. offset : disk[k] = Lines[k]
      /\ \A k \in 1 .. Len(buffer) : buffer[k] = Lines[offset + k]
      /\ \A k \in offset + 1 .. Len(disk) : \A g \in 1 .. Len(Lines) : disk[k] # Lines[g]
  BY DEF IInv, Matches
<1>3. Len(Lines) = offset + Len(buffer)
  BY <1>2 DEF Position
<1>4. /\ L \in Seq(S) /\ Len(L) = Len(Lines) + Len(U)
      /\ \A k \in 1 .. Len(Lines) + Len(U) : L[k] = IF k <= Len(Lines) THEN Lines[k] ELSE U[k - Len(Lines)]
  BY <1>1, ConcatProperties
<1>5. /\ buffered \in Seq(S) /\ Len(buffered) = Len(buffer) + Len(U)
      /\ \A k \in 1 .. Len(buffer) + Len(U) :
            buffered[k] = IF k <= Len(buffer) THEN buffer[k] ELSE U[k - Len(buffer)]
  BY <1>1, ConcatProperties
<1>6. n \in 0 .. Len(buffered) /\ Flush(buffered, n)
  OBVIOUS
<1> HIDE DEF L, buffered
<1>7. Len(L) = offset + Len(buffered)
  BY <1>1, <1>3, <1>4, <1>5
<1>8. \A k \in 1 .. offset : disk[k] = L[k]
  <2> TAKE k \in 1 .. offset
  <2>1. k \in 1 .. Len(Lines) + Len(U) /\ k <= Len(Lines)
    BY <1>1, <1>3
  <2> QED
    BY <1>2, <1>4, <2>1
<1>9. \A k \in 1 .. Len(buffered) : buffered[k] = L[offset + k]
  <2> TAKE k \in 1 .. Len(buffered)
  <2>1. /\ k \in 1 .. Len(buffer) + Len(U) /\ offset + k \in 1 .. Len(Lines) + Len(U)
        /\ k <= Len(buffer) <=> offset + k <= Len(Lines)
        /\ (offset + k) - Len(Lines) = k - Len(buffer)
        /\ k <= Len(buffer) => k \in 1 .. Len(buffer)
    BY <1>1, <1>3, <1>5
  <2>2. CASE k <= Len(buffer)
    BY <1>2, <1>4, <1>5, <2>1, <2>2
  <2>3. CASE ~ (k <= Len(buffer))
    <3>1. buffered[k] = U[k - Len(buffer)]
      BY <1>5, <2>1, <2>3
    <3>2. L[offset + k] = U[(offset + k) - Len(Lines)]
      BY <1>4, <2>1, <2>3
    <3> QED
      BY <2>1, <3>1, <3>2
  <2> QED
    BY <2>2, <2>3
<1>10. \A k \in offset + 1 .. Len(disk) : \A g \in 1 .. Len(L) : disk[k] # L[g]
  <2> TAKE k \in offset + 1 .. Len(disk)
  <2> TAKE g \in 1 .. Len(L)
  <2>1. CASE g <= Len(Lines)
    BY <1>1, <1>2, <1>4, <2>1
  <2>2. CASE ~ (g <= Len(Lines))
    <3>1. g - Len(Lines) \in 1 .. Len(U)
      BY <1>1, <1>4, <2>2
    <3>2. L[g] = U[g - Len(Lines)]
      BY <1>1, <1>4, <2>2
    <3> QED
      BY <3>1, <3>2
  <2> QED
    BY <2>1, <2>2
<1>11. /\ Position' = Len(L)
       /\ \A k \in 1 .. offset' : disk'[k] = L[k]
       /\ \A k \in 1 .. Len(buffer') : buffer'[k] = L[offset' + k]
       /\ \A k \in offset' + 1 .. Len(disk') : \A g \in 1 .. Len(L) : disk'[k] # L[g]
  <2>1. disk \in Seq(S) /\ offset \in 0 .. Len(disk) /\ buffered \in Seq(S) /\ L \in Seq(S)
    BY <1>1, <1>4, <1>5
  <2> QED
    BY <1>6, <1>7, <1>8, <1>9, <1>10, <2>1, FlushedMatches, ZenonT(30)
<1> QED
  BY <1>11 DEF L

-----------------------------------------------------------------------------
(* The actions.                                                            *)

(* Whatever the current call writes.                                       *)
LEMMA PutInv ==
    ASSUME IInv, calls' \in 1 .. MaxCalls, calls <= calls', pc # "dead",
           pc' = "log", good' = good, NEW n \in Nat, Put(calls', n),
           \A k \in 1 .. Len(line) : line[k][1] = calls',
           \A k \in 1 .. Len(good) : good[k][1] < calls',
           \A k \in offset + 1 .. Len(disk) : disk[k][1] < calls',
           pos' <= Position, pos' \in Int,
           usable /\ Len(good) < Width \div 2 => pos' = Len(good)
    PROVE  /\ disk' \in Seq(UnitsSoFar') /\ buffer' \in Seq(UnitsSoFar')
           /\ offset' \in 0 .. Len(disk') /\ usable' = usable
           /\ ~usable' => buffer' = <<>>
           /\ Settled' /\ Aged' /\ Matches'
<1> DEFINE S == (1 .. calls') \X Nat
           U == Units(calls', n)
<1>1. /\ disk \in Seq(UnitsSoFar) /\ buffer \in Seq(UnitsSoFar)
      /\ offset \in 0 .. Len(disk) /\ Len(disk) \in Nat /\ Len(buffer) \in Nat
      /\ good \in Seq(UnitsSoFar) /\ line \in Seq(UnitsSoFar) /\ Lines \in Seq(UnitsSoFar)
      /\ Len(good) \in Nat /\ Len(line) \in Nat /\ Position \in Nat /\ calls \in Nat
  BY StreamTypes
<1>2. calls' \in Nat /\ calls' \in 1 .. calls' /\ UnitsSoFar \subseteq S
  BY <1>1 DEF UnitsSoFar
<1>3. /\ U \in Seq(S) /\ Len(U) = n
      /\ \A k \in 1 .. n : U[k] = <<calls', Len(line) + k>>
  BY <1>1, <1>2, UnitsWritten
<1>4. /\ disk \in Seq(S) /\ buffer \in Seq(S) /\ good \in Seq(S) /\ line \in Seq(S)
      /\ Lines \in Seq(S)
  BY <1>1, <1>2, SeqMonotonic
<1>5. /\ line' = line \o U /\ usable' = usable
      /\ usable => \E k \in {0, Len(buffer), Len(buffer) + n} : Flush(buffer \o U, k)
      /\ ~usable => UNCHANGED <<disk, offset, buffer>>
  BY DEF Put
<1> HIDE DEF U, S
<1>6. /\ buffer \o U \in Seq(S) /\ Len(buffer \o U) = Len(buffer) + n
  BY <1>3, <1>4, ConcatProperties
<1>7. /\ line' \in Seq(S) /\ Len(line') = Len(line) + n
      /\ \A k \in 1 .. Len(line') : line'[k][1] = calls'
  <2>1. /\ line \o U \in Seq(S) /\ Len(line \o U) = Len(line) + Len(U)
        /\ \A k \in 1 .. Len(line) + Len(U) :
             (line \o U)[k] = IF k <= Len(line) THEN line[k] ELSE U[k - Len(line)]
    BY <1>3, <1>4, ConcatProperties
  <2>2. ASSUME NEW k \in 1 .. Len(line) + n PROVE (line \o U)[k][1] = calls'
    <3>1. CASE k <= Len(line)
      <4>1. k \in 1 .. Len(line) /\ (line \o U)[k] = line[k]
        BY <1>1, <1>3, <2>1, <3>1
      <4> QED
        BY <4>1
    <3>2. CASE ~ (k <= Len(line))
      <4>1. k - Len(line) \in 1 .. n /\ (line \o U)[k] = U[k - Len(line)]
        BY <1>1, <1>3, <2>1, <3>2
      <4> QED
        BY <1>3, <4>1
    <3> QED
      BY <3>1, <3>2
  <2> QED
    BY <1>3, <1>5, <2>1, <2>2
<1>8. CASE usable
  <2>1. PICK k \in 0 .. Len(buffer \o U) : Flush(buffer \o U, k)
    <3>1. \A k \in {0, Len(buffer), Len(buffer) + n} : k \in 0 .. Len(buffer \o U)
      BY <1>1, <1>6
    <3> QED
      BY <1>5, <1>8, <3>1
  <2>2. /\ disk' \in Seq(S) /\ buffer' \in Seq(S) /\ offset' \in 0 .. Len(disk')
        /\ Position' = offset + Len(buffer \o U)
        /\ \A j \in offset' + 1 .. Len(disk') : j \in offset + 1 .. Len(disk) /\ disk'[j] = disk[j]
    BY <1>1, <1>4, <1>6, <2>1, Flushed
  <2>3. pos' <= Position'
    <3>1. Position = offset + Len(buffer) /\ Position' = offset + (Len(buffer) + n)
      BY <1>6, <2>2 DEF Position
    <3>2. offset \in Nat
      BY <1>1
    <3> QED
      BY <1>1, <3>1, <3>2
  <2>4. Settled'
    BY <1>2, <1>4, <1>5, <1>7, <1>8, <2>3 DEF Settled, UnitsSoFar, S
  <2>5. \A j \in offset' + 1 .. Len(disk') : disk'[j][1] < calls'
    BY <2>2
  <2>6. Aged'
    BY <1>7, <2>5 DEF Aged
  <2>7. ASSUME Len(good) < Width \div 2
        PROVE  /\ Position' = Len(Lines')
               /\ \A j \in 1 .. offset' : disk'[j] = Lines'[j]
               /\ \A j \in 1 .. Len(buffer') : buffer'[j] = Lines'[offset' + j]
               /\ \A j \in offset' + 1 .. Len(disk') : \A g \in 1 .. Len(Lines') : disk'[j] # Lines'[g]
    <3>1. ASSUME NEW j \in offset + 1 .. Len(disk), NEW g \in 1 .. Len(U)
          PROVE  disk[j] # U[g]
      <4>1. disk[j][1] < calls'
        OBVIOUS
      <4>2. g \in 1 .. n
        BY <1>3
      <4>3. U[g][1] = calls'
        BY <1>3, <4>2
      <4> QED
        BY <1>2, <4>1, <4>3
    <3>2. Lines' = Lines \o U
      BY <1>3, <1>4, <1>5, LinesWritten
    <3>3. /\ Position' = Len(Lines \o U)
          /\ \A j \in 1 .. offset' : disk'[j] = (Lines \o U)[j]
          /\ \A j \in 1 .. Len(buffer') : buffer'[j] = (Lines \o U)[offset' + j]
          /\ \A j \in offset' + 1 .. Len(disk') :
                \A g \in 1 .. Len(Lines \o U) : disk'[j] # (Lines \o U)[g]
      BY <1>2, <1>3, <1>8, <2>1, <2>7, <3>1, WrittenMatches
    <3> QED
      BY <3>2, <3>3
  <2>8. Matches'
    BY <2>7 DEF Matches
  <2> QED
    BY <1>5, <1>8, <2>2, <2>4, <2>6, <2>8 DEF UnitsSoFar, S
<1>9. CASE ~usable
  <2>1. UNCHANGED <<disk, offset, buffer, usable>>
    BY <1>5, <1>9
  <2>2. Position' = Position
    BY <2>1 DEF Position
  <2>3. buffer' = <<>>
    BY <1>9, <2>1 DEF IInv, TypeOK
  <2>4. Settled'
    BY <1>2, <1>4, <1>7, <1>9, <2>1, <2>2, <2>3 DEF Settled, UnitsSoFar, S
  <2>5. Aged'
    BY <1>7, <2>1 DEF Aged
  <2>6. Matches'
    BY <1>9, <2>1 DEF Matches
  <2> QED
    BY <1>1, <1>4, <2>1, <2>3, <2>4, <2>5, <2>6 DEF UnitsSoFar, S
<1> QED
  BY <1>8, <1>9

(* Going back to the beginning of the line.                                *)
LEMMA GiveUpInv ==
    ASSUME IInv, pc = "log",
           NEW code \in LESS_VALUES_THEN_FUNCTION_CALLS .. LOG_NOT_READY_ERROR, GiveUp(code)
    PROVE  IInv'
<1> DEFINE whole == Over(disk, offset, buffer)
           S == UnitsSoFar
<1>1. /\ disk \in Seq(S) /\ buffer \in Seq(S)
      /\ offset \in 0 .. Len(disk) /\ Len(disk) \in Nat /\ Len(buffer) \in Nat
      /\ good \in Seq(S) /\ line \in Seq(S)
      /\ Len(good) \in Nat /\ Len(line) \in Nat /\ Len(Lines) = Len(good) + Len(line)
  BY StreamTypes
<1>2. /\ whole \in Seq(S) /\ Len(whole) \in Nat /\ offset + Len(buffer) <= Len(whole)
      /\ \A k \in 1 .. offset : whole[k] = disk[k]
      /\ \A k \in 1 .. Len(buffer) : whole[offset + k] = buffer[k]
      /\ \A k \in offset + Len(buffer) + 1 .. Len(whole) : k \in 1 .. Len(disk) /\ whole[k] = disk[k]
  BY <1>1, OverUnits
<1>3. /\ result' = code /\ pc' = "idle" /\ rest' = <<>> /\ t_num_values' = 0
      /\ vars_used' = 0 /\ pos' = 0 /\ line' = <<>>
      /\ UNCHANGED <<m_valid_functions, functions, calls, good>>
      /\ Seek(pos)
  BY DEF GiveUp
<1>4. \/ ~usable /\ UNCHANGED <<disk, offset, buffer, usable>>
      \/ /\ usable /\ disk' = whole /\ buffer' = <<>> /\ pos < 0
         /\ offset' = Position /\ usable' = FALSE
      \/ /\ usable /\ disk' = whole /\ buffer' = <<>> /\ pos >= 0
         /\ offset' = pos /\ usable' = TRUE
  <2>1. pos \in Int
    BY DEF IInv, TypeOK
  <2>2. CASE ~usable
    <3>1. UNCHANGED stream
      BY <1>3, <2>2 DEF Seek
    <3> QED
      BY <2>2, <3>1 DEF stream
  <2>3. CASE usable
    <3>1. /\ disk' = whole /\ buffer' = <<>>
          /\ offset' = IF pos < 0 THEN Position ELSE pos
          /\ usable' = (pos >= 0)
      BY <1>3, <2>3 DEF Seek
    <3>2. CASE pos < 0
      <4>1. offset' = Position /\ (pos >= 0) = FALSE
        BY <2>1, <3>1, <3>2
      <4> QED
        BY <2>3, <3>1, <3>2, <4>1, Zenon
    <3>3. CASE ~ (pos < 0)
      <4>1. offset' = pos /\ pos >= 0
        BY <2>1, <3>1, <3>3
      <4> QED
        BY <2>3, <3>1, <4>1, Zenon
    <3> QED
      BY <3>2, <3>3
  <2> QED
    BY <2>2, <2>3
<1> HIDE DEF whole
<1>5. pos \in Int /\ pos <= Position
  BY DEF IInv, TypeOK, Settled
<1>6. /\ disk' \in Seq(S) /\ buffer' \in Seq(S) /\ offset' \in 0 .. Len(disk')
  <2>1. <<>> \in Seq(S)
    BY EmptySeq
  <2> HIDE DEF S
  <2>2. Position \in 0 .. Len(whole) /\ (pos >= 0 => pos \in 0 .. Len(whole))
    BY <1>1, <1>2, <1>5 DEF Position
  <2> QED
    BY <1>1, <1>2, <1>4, <2>1, <2>2
<1>7. UnitsSoFar' = S
  BY <1>3 DEF UnitsSoFar
<1>8. TypeOK'
  <2>1. usable' \in BOOLEAN
    <3>1. usable' = usable \/ usable' = FALSE \/ usable' = TRUE
      BY <1>4, Zenon
    <3>2. usable \in BOOLEAN
      BY DEF IInv, TypeOK
    <3> QED
      BY <3>1, <3>2, Zenon
  <2>2. disk' \in Seq((1 .. calls') \X Nat) /\ buffer' \in Seq((1 .. calls') \X Nat)
    BY <1>6, <1>7 DEF UnitsSoFar
  <2>3. rest' \in Seq(Letters \cup {Text, BadLetter})
    BY <1>3, EmptySeq
  <2>4. pos' \in -(Width \div 2) .. Width \div 2 - 1
    BY <1>3, Narrowed
  <2>5. t_num_values' \in Nat /\ vars_used' \in 0 .. t_num_values'
    BY <1>3
  <2>6. /\ m_valid_functions' \in SUBSET (Letters \cup {LOG_READY})
        /\ functions' \in SUBSET (m_valid_functions' \cap Letters)
        /\ calls' \in 0 .. MaxCalls
    BY <1>3 DEF IInv, TypeOK
  <2>7. ~usable' => buffer' = <<>>
    BY <1>4 DEF IInv, TypeOK
  <2> QED
    BY <1>3, <1>6, <2>1, <2>2, <2>3, <2>4, <2>5, <2>6, <2>7 DEF TypeOK
<1>9. Settled'
  <2>2. <<>> \in Seq(S)
    BY EmptySeq
  <2> QED
    BY <1>1, <1>3, <1>7, <2>2 DEF Settled
<1>10. Aged'
  BY <1>3 DEF Aged
<1>11. Lines' = good
  BY <1>1, <1>3, ConcatEmptySeq DEF Lines
<1>12. ASSUME usable', Len(good) < Width \div 2
       PROVE  /\ Position' = Len(good)
              /\ \A k \in 1 .. offset' : disk'[k] = good[k]
              /\ Len(buffer') = 0
              /\ \A k \in offset' + 1 .. Len(disk') : \A g \in 1 .. Len(good) : disk'[k] # good[g]
  <2>1. usable /\ disk' = whole /\ buffer' = <<>> /\ offset' = pos
    BY <1>4, <1>12
  <2>2. pos = Len(good)
    BY <1>12, <2>1 DEF IInv, Settled
  <2>3. /\ Position = Len(Lines)
        /\ \A k \in 1 .. offset : disk[k] = Lines[k]
        /\ \A k \in 1 .. Len(buffer) : buffer[k] = Lines[offset + k]
        /\ \A k \in offset + 1 .. Len(disk) : \A g \in 1 .. Len(Lines) : disk[k] # Lines[g]
    BY <1>12, <2>1 DEF IInv, Matches
  <2>4. ASSUME NEW k \in 1 .. Position PROVE whole[k] = Lines[k]
    <3>1. CASE k <= offset
      <4>1. k \in 1 .. offset
        BY <1>1, <3>1
      <4> QED
        BY <1>2, <2>3, <4>1
    <3>2. CASE ~ (k <= offset)
      <4>1. PICK j \in 1 .. Len(buffer) : offset + j = k
        <5>1. k - offset \in 1 .. Len(buffer) /\ offset + (k - offset) = k
          BY <1>1, <3>2 DEF Position
        <5> QED
          BY <5>1
      <4>2. whole[offset + j] = buffer[j] /\ buffer[j] = Lines[offset + j]
        BY <1>2, <2>3
      <4> QED
        BY <4>1, <4>2
    <3> QED
      BY <3>1, <3>2
  <2>5. \A k \in 1 .. Len(good) : whole[k] = good[k]
    <3> TAKE k \in 1 .. Len(good)
    <3>1. k \in 1 .. Position /\ Lines[k] = good[k]
      BY <1>1, <2>3, LinesAre
    <3> QED
      BY <2>4, <3>1
  <2>6. ASSUME NEW k \in Len(good) + 1 .. Len(whole), NEW g \in 1 .. Len(good)
        PROVE  whole[k] # good[g]
    <3>1. CASE k <= Position
      <4>1. k \in 1 .. Position /\ k \in 1 .. Len(Lines) /\ k \notin 1 .. Len(good)
        BY <1>1, <2>3, <3>1
      <4>2. PICK j \in 1 .. Len(line) : k = Len(good) + j
        BY <4>1, LinesAre
      <4>3. whole[k] = line[j]
        BY <2>4, <4>1, <4>2, LinesAre
      <4>4. line[j][1] = calls /\ good[g][1] < calls /\ calls \in Nat
        BY StreamTypes DEF IInv, Aged
      <4> QED
        BY <4>3, <4>4
    <3>2. CASE ~ (k <= Position)
      <4>1. k \in offset + Len(buffer) + 1 .. Len(whole)
        BY <1>1, <1>2, <3>2 DEF Position
      <4>2. k \in offset + 1 .. Len(disk) /\ whole[k] = disk[k]
        BY <1>1, <1>2, <4>1
      <4>3. g \in 1 .. Len(Lines) /\ Lines[g] = good[g]
        BY <1>1, LinesAre
      <4> QED
        BY <2>3, <4>2, <4>3
    <3> QED
      BY <3>1, <3>2
  <2>7. Len(buffer') = 0 /\ Position' = Len(good)
    <3>1. Len(buffer') = 0
      BY <2>1
    <3> QED
      BY <1>1, <2>1, <2>2, <3>1 DEF Position
  <2> QED
    BY <2>1, <2>2, <2>5, <2>6, <2>7
<1>13. Matches' /\ Remains'
  BY <1>3, <1>11, <1>12 DEF Matches, Remains
<1> QED
  BY <1>8, <1>9, <1>10, <1>13 DEF IInv

LEMMA LogBeginInv ==
    ASSUME IInv, NEW f \in Formats, NEW num \in 0 .. 2, LogBegin(f, num)
    PROVE  IInv'
<1>1. PICK n \in 1 .. 2 : pos' = Int32(Position) /\ Put(calls + 1, n)
  BY DEF LogBegin, LineStart
<1>2. /\ pc = "idle" /\ calls < MaxCalls /\ calls' = calls + 1
      /\ pc' = "log" /\ rest' = f /\ t_num_values' = num /\ vars_used' = 0
      /\ UNCHANGED <<m_valid_functions, functions, result, good>>
  BY DEF LogBegin
<1>3. /\ calls \in Nat /\ MaxCalls \in Nat /\ Position \in Nat
      /\ disk \in Seq(UnitsSoFar) /\ good \in Seq(UnitsSoFar) /\ Len(good) \in Nat
      /\ offset \in 0 .. Len(disk) /\ Len(disk) \in Nat
      /\ Len(Lines) = Len(good) + Len(line)
  BY StreamTypes
<1>4. calls' \in 1 .. MaxCalls /\ calls <= calls' /\ Put(calls', n) /\ n \in Nat
  BY <1>1, <1>2, <1>3
<1>5. line = <<>> /\ Len(line) = 0
  BY <1>2 DEF IInv, Settled
<1>6. \A u \in UnitsSoFar : u[1] < calls'
  BY <1>2, <1>3 DEF UnitsSoFar
<1>7. \A k \in 1 .. Len(good) : good[k][1] < calls'
  BY <1>3, <1>6, ElementOfSeq
<1>8. \A k \in offset + 1 .. Len(disk) : disk[k][1] < calls'
  <2>1. \A k \in offset + 1 .. Len(disk) : k \in 1 .. Len(disk)
    BY <1>3
  <2> QED
    BY <1>3, <1>6, <2>1, ElementOfSeq
<1>9. pos' <= Position /\ pos' \in -(Width \div 2) .. Width \div 2 - 1 /\ pos' \in Int
  BY <1>1, <1>3, Narrowed
<1>10. usable /\ Len(good) < Width \div 2 => pos' = Len(good)
  <2>1. usable /\ Len(good) < Width \div 2 => Position = Len(good)
    BY <1>2, <1>3, <1>5 DEF IInv, Matches
  <2> QED
    BY <1>1, <1>3, <2>1, Narrowed
<1>11. /\ disk' \in Seq(UnitsSoFar') /\ buffer' \in Seq(UnitsSoFar')
       /\ offset' \in 0 .. Len(disk') /\ usable' = usable
       /\ ~usable' => buffer' = <<>>
       /\ Settled' /\ Aged' /\ Matches'
  <2>1. \A k \in 1 .. Len(line) : line[k][1] = calls'
    BY <1>5
  <2> QED
    BY <1>2, <1>4, <1>7, <1>8, <1>9, <1>10, <2>1, PutInv
<1>12. TypeOK'
  <2>1. rest' \in Seq(Letters \cup {Text, BadLetter})
    BY <1>2, LogAssumption
  <2>2. usable' \in BOOLEAN
    <3>1. usable \in BOOLEAN
      BY DEF IInv, TypeOK
    <3> QED
      BY <1>11, <3>1, Zenon
  <2>3. t_num_values' \in Nat /\ vars_used' \in 0 .. t_num_values' /\ calls' \in 0 .. MaxCalls
    BY <1>2, <1>3
  <2>4. disk' \in Seq((1 .. calls') \X Nat) /\ buffer' \in Seq((1 .. calls') \X Nat)
    BY <1>11 DEF UnitsSoFar
  <2> QED
    BY <1>2, <1>9, <1>11, <2>1, <2>2, <2>3, <2>4 DEF IInv, TypeOK
<1>13. Remains'
  BY <1>2 DEF Remains
<1> QED
  BY <1>11, <1>12, <1>13 DEF IInv

(* A turn of the loop that writes: text, or what an interpreter makes of   *)
(* the next value.                                                         *)
LEMMA AdvanceInv ==
    ASSUME IInv, pc = "log", rest # <<>>, NEW n \in Nat, Advance(n),
           vars_used' \in 0 .. t_num_values
    PROVE  IInv'
<1>1. /\ Put(calls, n) /\ rest' = Tail(rest)
      /\ UNCHANGED <<pc, m_valid_functions, functions, t_num_values, pos, result, calls, good>>
  BY DEF Advance
<1>2. calls' \in 1 .. MaxCalls /\ calls <= calls' /\ Put(calls', n)
  <2>1. calls \in Nat /\ calls \in 0 .. MaxCalls /\ calls > 0 /\ MaxCalls \in Nat
    BY StreamTypes DEF IInv, Settled
  <2> QED
    BY <1>1, <2>1
<1>3. /\ pos' <= Position /\ pos' \in Int
      /\ usable /\ Len(good) < Width \div 2 => pos' = Len(good)
  BY <1>1 DEF IInv, Settled, TypeOK
<1>4. /\ \A k \in 1 .. Len(line) : line[k][1] = calls'
      /\ \A k \in 1 .. Len(good) : good[k][1] < calls'
      /\ \A k \in offset + 1 .. Len(disk) : disk[k][1] < calls'
  BY <1>1 DEF IInv, Aged
<1>5. /\ disk' \in Seq(UnitsSoFar') /\ buffer' \in Seq(UnitsSoFar')
      /\ offset' \in 0 .. Len(disk') /\ usable' = usable
      /\ ~usable' => buffer' = <<>>
      /\ Settled' /\ Aged' /\ Matches'
  BY <1>1, <1>2, <1>3, <1>4, PutInv
<1>6. TypeOK'
  <2>1. rest' \in Seq(Letters \cup {Text, BadLetter})
    <3>1. rest \in Seq(Letters \cup {Text, BadLetter})
      BY DEF IInv, TypeOK
    <3> QED
      BY <1>1, <3>1, HeadTailProperties
  <2>2. usable' \in BOOLEAN
    <3>1. usable \in BOOLEAN
      BY DEF IInv, TypeOK
    <3> QED
      BY <1>5, <3>1, Zenon
  <2>3. t_num_values' \in Nat /\ vars_used' \in 0 .. t_num_values'
    BY <1>1 DEF IInv, TypeOK
  <2>4. disk' \in Seq((1 .. calls') \X Nat) /\ buffer' \in Seq((1 .. calls') \X Nat)
    BY <1>5 DEF UnitsSoFar
  <2> QED
    BY <1>1, <1>5, <2>1, <2>2, <2>3, <2>4 DEF IInv, TypeOK
<1>7. Remains'
  BY <1>1 DEF Remains
<1> QED
  BY <1>5, <1>6, <1>7 DEF IInv

(* The line is complete: its newline is written, and log returns 0.        *)
LEMMA EndLineInv ==
    ASSUME IInv, EndLine
    PROVE  IInv'
<1> DEFINE S == UnitsSoFar
           U == Units(calls, 1)
<1>1. /\ pc = "log"
      /\ usable => \E k \in {0, Len(buffer), Len(buffer) + 1} : Flush(buffer \o U, k)
      /\ ~usable => UNCHANGED <<disk, offset, buffer>>
      /\ good' = IF usable THEN good \o line \o U ELSE good
      /\ result' = 0 /\ pc' = "idle"
      /\ vars_used' = 0 /\ t_num_values' = 0 /\ pos' = 0 /\ line' = <<>>
      /\ UNCHANGED <<rest, usable, m_valid_functions, functions, calls>>
  BY DEF EndLine
<1>2. /\ disk \in Seq(S) /\ buffer \in Seq(S)
      /\ offset \in 0 .. Len(disk) /\ Len(disk) \in Nat /\ Len(buffer) \in Nat
      /\ good \in Seq(S) /\ line \in Seq(S) /\ Lines \in Seq(S)
      /\ Len(good) \in Nat /\ Len(line) \in Nat /\ Len(Lines) = Len(good) + Len(line)
      /\ calls \in Nat /\ calls \in 1 .. calls
  BY <1>1, StreamTypes DEF IInv, Settled
<1>3. U \in Seq(S) /\ Len(U) = 1 /\ \A k \in 1 .. 1 : U[k] = <<calls, Len(line) + k>>
  <2>1. calls \in Nat /\ calls \in 1 .. calls /\ Len(line) \in Nat /\ 1 \in Nat
    BY <1>2
  <2>2. /\ Units(calls, 1) \in Seq((1 .. calls) \X Nat) /\ Len(Units(calls, 1)) = 1
        /\ \A k \in 1 .. 1 : Units(calls, 1)[k] = <<calls, Len(line) + k>>
    BY <2>1, UnitsWritten
  <2> QED
    BY <2>2 DEF UnitsSoFar
<1>4. UnitsSoFar' = S
  BY <1>1 DEF UnitsSoFar
<1> HIDE DEF U, S
<1>5. /\ good' \in Seq(S) /\ Lines' = good'
      /\ usable => good' = Lines \o U /\ Len(good') = Len(Lines) + 1
  <2>1. usable => good' = Lines \o U
    BY <1>1 DEF Lines
  <2>2. Lines \o U \in Seq(S) /\ Len(Lines \o U) = Len(Lines) + 1
    BY <1>2, <1>3, OneMore
  <2>3. good' \in Seq(S)
    BY <1>1, <1>2, <2>1, <2>2
  <2>4. Lines' = good'
    BY <1>1, <2>3, ConcatEmptySeq DEF Lines
  <2> QED
    BY <2>1, <2>2, <2>3, <2>4
<1>6. /\ disk' \in Seq(S) /\ buffer' \in Seq(S) /\ offset' \in 0 .. Len(disk')
      /\ ~usable => buffer' = <<>>
      /\ usable => \E k \in 0 .. Len(buffer \o U) : Flush(buffer \o U, k)
  <2>1. /\ buffer \o U \in Seq(S) /\ Len(buffer \o U) = Len(buffer) + 1
    BY <1>2, <1>3, OneMore
  <2>2. CASE usable
    <3>1. \A k \in {0, Len(buffer), Len(buffer) + 1} : k \in 0 .. Len(buffer \o U)
      BY <1>2, <2>1
    <3>2. PICK k \in 0 .. Len(buffer \o U) : Flush(buffer \o U, k)
      BY <1>1, <2>2, <3>1
    <3>3. disk' \in Seq(S) /\ buffer' \in Seq(S) /\ offset' \in 0 .. Len(disk')
      BY <1>2, <2>1, <3>2, Flushed
    <3> QED
      BY <2>2, <3>2, <3>3
  <2>3. CASE ~usable
    BY <1>1, <1>2, <2>3 DEF IInv, TypeOK
  <2> QED
    BY <2>2, <2>3
<1>7. TypeOK'
  <2>1. disk' \in Seq((1 .. calls') \X Nat) /\ buffer' \in Seq((1 .. calls') \X Nat)
    BY <1>4, <1>6 DEF UnitsSoFar
  <2>2. t_num_values' \in Nat /\ vars_used' \in 0 .. t_num_values'
        /\ pos' \in -(Width \div 2) .. Width \div 2 - 1
    BY <1>1, Narrowed
  <2> QED
    BY <1>1, <1>6, <2>1, <2>2 DEF IInv, TypeOK
<1>8. Settled'
  <2>1. <<>> \in Seq(S)
    BY EmptySeq
  <2> QED
    BY <1>1, <1>4, <1>5, <1>6, <2>1 DEF Settled
<1>9. Aged'
  BY <1>1 DEF Aged
<1>10. ASSUME usable', Len(good') < Width \div 2
       PROVE  /\ Position' = Len(Lines')
              /\ \A k \in 1 .. offset' : disk'[k] = Lines'[k]
              /\ \A k \in 1 .. Len(buffer') : buffer'[k] = Lines'[offset' + k]
              /\ \A k \in offset' + 1 .. Len(disk') : \A g \in 1 .. Len(Lines') : disk'[k] # Lines'[g]
  <2>1. usable /\ Lines' = Lines \o U
    BY <1>1, <1>5, <1>10
  <2>2. Len(good) < Width \div 2
    <3>1. Len(good') = Len(good) + Len(line) + 1
      BY <1>2, <1>5, <2>1
    <3> QED
      BY <1>2, <1>10, <3>1, Narrowed
  <2>3. ASSUME NEW k \in offset + 1 .. Len(disk), NEW j \in 1 .. Len(U)
        PROVE  disk[k] # U[j]
    <3>1. disk[k][1] < calls
      BY <1>1 DEF IInv, Aged
    <3>2. j \in 1 .. 1
      BY <1>3
    <3>3. U[j][1] = calls
      BY <1>3, <3>2
    <3> QED
      BY <1>2, <3>1, <3>3
  <2>4. PICK k \in 0 .. Len(buffer \o U) : Flush(buffer \o U, k)
    BY <1>6, <2>1
  <2>5. UnitsSoFar \subseteq S
    BY DEF S
  <2>6. /\ Position' = Len(Lines \o U)
        /\ \A j \in 1 .. offset' : disk'[j] = (Lines \o U)[j]
        /\ \A j \in 1 .. Len(buffer') : buffer'[j] = (Lines \o U)[offset' + j]
        /\ \A j \in offset' + 1 .. Len(disk') :
              \A g \in 1 .. Len(Lines \o U) : disk'[j] # (Lines \o U)[g]
    BY <1>1, <1>3, <2>1, <2>2, <2>3, <2>4, <2>5, WrittenMatches
  <2> QED
    BY <2>1, <2>6
<1>11. Matches' /\ Remains'
  BY <1>1, <1>10 DEF Matches, Remains
<1> QED
  BY <1>7, <1>8, <1>9, <1>11 DEF IInv

(* Steps that leave the stream alone; between two calls they may count one.*)
LEMMA StreamAlone ==
    ASSUME IInv, UNCHANGED <<stream, locals, line, good>>,
           m_valid_functions' \in SUBSET (Letters \cup {LOG_READY}),
           functions' \in SUBSET (m_valid_functions' \cap Letters),
           result' \in {0} \cup LESS_VALUES_THEN_FUNCTION_CALLS .. LOG_NOT_READY_ERROR,
           \/ calls' = calls /\ pc' = pc
           \/ calls < MaxCalls /\ calls' = calls + 1 /\ pc = "idle" /\ pc' = pc
    PROVE  IInv'
<1>1. UNCHANGED <<disk, offset, buffer, usable, rest, t_num_values, vars_used, pos, line, good>>
  BY DEF stream, locals
<1>2. /\ disk \in Seq(UnitsSoFar) /\ buffer \in Seq(UnitsSoFar)
      /\ good \in Seq(UnitsSoFar) /\ line \in Seq(UnitsSoFar)
      /\ calls \in 0 .. MaxCalls /\ MaxCalls \in Nat
  BY StreamTypes
<1>3. calls' \in 0 .. MaxCalls /\ UnitsSoFar \subseteq UnitsSoFar'
  BY <1>2 DEF UnitsSoFar
<1>4. /\ disk' \in Seq(UnitsSoFar') /\ buffer' \in Seq(UnitsSoFar')
      /\ good' \in Seq(UnitsSoFar') /\ line' \in Seq(UnitsSoFar')
  BY <1>1, <1>2, <1>3, SeqMonotonic
<1>5. TypeOK'
  <2>1. disk' \in Seq((1 .. calls') \X Nat) /\ buffer' \in Seq((1 .. calls') \X Nat)
    BY <1>4 DEF UnitsSoFar
  <2>2. pc' \in {"idle", "log", "closed", "dead"}
    BY DEF IInv, TypeOK
  <2> QED
    BY <1>1, <1>3, <2>1, <2>2 DEF IInv, TypeOK
<1>6. Position' = Position /\ Lines' = Lines
  BY <1>1 DEF Position, Lines
<1>7. Settled'
  <2>1. pc' = "log" => calls' = calls /\ pc = "log"
    OBVIOUS
  <2>2. pc' \in {"idle", "closed"} => pc' = pc
    OBVIOUS
  <2> QED
    BY <1>1, <1>4, <1>6, <2>1, <2>2 DEF IInv, Settled
<1>8. Aged'
  BY <1>1 DEF IInv, Aged
<1>9. Matches' /\ Remains'
  BY <1>1, <1>6 DEF IInv, Matches, Remains
<1> QED
  BY <1>5, <1>7, <1>8, <1>9 DEF IInv

(* Closing the file writes out all that is buffered.                       *)
LEMMA CloseInv ==
    ASSUME IInv, Close
    PROVE  IInv'
<1> DEFINE S == UnitsSoFar
<1>1. /\ pc = "idle" /\ pc' = "closed"
      /\ disk' = IF usable THEN Over(disk, offset, buffer) ELSE disk
      /\ buffer' = <<>> /\ offset' = Position
      /\ UNCHANGED <<usable, m_valid_functions, functions, locals, result, calls, line, good>>
  BY DEF Close
<1>2. UNCHANGED <<rest, t_num_values, vars_used, pos, line, good>> /\ UnitsSoFar' = S /\ Lines' = Lines
  BY <1>1 DEF locals, UnitsSoFar, Lines
<1>3. /\ disk \in Seq(S) /\ buffer \in Seq(S) /\ Lines \in Seq(S)
      /\ offset \in 0 .. Len(disk) /\ offset \in Nat /\ Len(disk) \in Nat /\ Len(buffer) \in Nat
      /\ good \in Seq(S) /\ line \in Seq(S) /\ Len(Lines) \in Nat
  BY StreamTypes, LenProperties
<1> HIDE DEF S
<1>4. <<>> \in Seq(S) /\ Len(<<>>) = 0
  BY EmptySeq
<1>5. usable =>
        /\ disk' \in Seq(S) /\ Len(disk') \in Nat /\ Position <= Len(disk')
        /\ \A k \in 1 .. offset : disk'[k] = disk[k]
        /\ \A k \in 1 .. Len(buffer) : disk'[offset + k] = buffer[k]
        /\ \A k \in Position + 1 .. Len(disk') : k \in 1 .. Len(disk) /\ disk'[k] = disk[k]
  BY <1>1, <1>3, OverUnits DEF Position
<1>6. ~usable => disk' = disk /\ Position = offset
  BY <1>1, <1>3, <1>4 DEF IInv, TypeOK, Position
<1>7. disk' \in Seq(S) /\ offset' \in 0 .. Len(disk')
  <2>1. Position \in Nat
    BY <1>3 DEF Position
  <2> QED
    BY <1>1, <1>3, <1>5, <1>6, <2>1
<1>8. TypeOK'
  <2>1. disk' \in Seq((1 .. calls') \X Nat) /\ buffer' \in Seq((1 .. calls') \X Nat)
    BY <1>1, <1>2, <1>4, <1>7 DEF UnitsSoFar
  <2> QED
    BY <1>1, <1>2, <1>7, <2>1 DEF IInv, TypeOK
<1>9. Settled'
  <2>1. line' = <<>>
    BY <1>1 DEF IInv, Settled
  <2> QED
    BY <1>1, <1>2, <1>3, <2>1 DEF Settled
<1>10. Aged'
  BY <1>1 DEF Aged
<1>11. ASSUME usable, Len(good) < Width \div 2
       PROVE  /\ Position' = Len(Lines)
              /\ \A k \in 1 .. offset' : disk'[k] = Lines[k]
              /\ \A k \in 1 .. Len(buffer') : buffer'[k] = Lines[offset' + k]
              /\ \A k \in offset' + 1 .. Len(disk') : \A g \in 1 .. Len(Lines) : disk'[k] # Lines[g]
  <2>1. /\ Position = Len(Lines)
        /\ \A k \in 1 .. offset : disk[k] = Lines[k]
        /\ \A k \in 1 .. Len(buffer) : buffer[k] = Lines[offset + k]
        /\ \A k \in offset + 1 .. Len(disk) : \A g \in 1 .. Len(Lines) : disk[k] # Lines[g]
    BY <1>1, <1>11 DEF IInv, Matches
  <2>2. Position' = Position
    BY <1>1, <1>3, <1>4 DEF Position
  <2>3. ASSUME NEW k \in 1 .. Position PROVE disk'[k] = Lines[k]
    <3>1. CASE k <= offset
      <4>1. k \in 1 .. offset
        BY <1>3, <3>1
      <4> QED
        BY <1>5, <1>11, <2>1, <4>1
    <3>2. CASE ~ (k <= offset)
      <4>1. PICK j \in 1 .. Len(buffer) : offset + j = k
        <5>1. k - offset \in 1 .. Len(buffer) /\ offset + (k - offset) = k
          BY <1>3, <3>2 DEF Position
        <5> QED
          BY <5>1
      <4>2. disk'[offset + j] = buffer[j] /\ buffer[j] = Lines[offset + j]
        BY <1>5, <1>11, <2>1
      <4> QED
        BY <4>1, <4>2
    <3> QED
      BY <3>1, <3>2
  <2>4. ASSUME NEW k \in Position + 1 .. Len(disk'), NEW g \in 1 .. Len(Lines)
        PROVE  disk'[k] # Lines[g]
    <3>1. k \in offset + 1 .. Len(disk) /\ disk'[k] = disk[k]
      BY <1>3, <1>5, <1>11 DEF Position
    <3> QED
      BY <2>1, <3>1
  <2> QED
    BY <1>1, <1>4, <2>1, <2>2, <2>3, <2>4
<1>12. Matches' /\ Remains'
  BY <1>1, <1>2, <1>11 DEF Matches, Remains
<1> QED
  BY <1>8, <1>9, <1>10, <1>12 DEF IInv

(* The process ends: of the lines there remains what the file has.         *)
LEMMA EndInv ==
    ASSUME IInv, pc \in {"idle", "log"}, End
    PROVE  IInv'
<1>1. /\ pc' = "dead" /\ buffer' = <<>>
      /\ UNCHANGED <<disk, offset, usable, rest, t_num_values, vars_used, pos>>
      /\ UNCHANGED <<m_valid_functions, functions, result, calls, line, good>>
  BY DEF End, locals
<1>2. UnitsSoFar' = UnitsSoFar /\ Lines' = Lines
  BY <1>1 DEF UnitsSoFar, Lines
<1>3. TypeOK'
  <2>1. <<>> \in Seq((1 .. calls) \X Nat)
    BY EmptySeq
  <2> QED
    BY <1>1, <2>1 DEF IInv, TypeOK
<1>4. Settled' /\ Aged' /\ Matches'
  BY <1>1, <1>2 DEF IInv, Settled, Aged, Matches
<1>5. Remains'
  <2>1. /\ offset \in 0 .. Len(disk) /\ Len(buffer) \in Nat /\ Len(disk) \in Nat
    BY StreamTypes
  <2>2. ASSUME usable, Len(good) < Width \div 2
        PROVE  /\ offset <= Len(Lines)
               /\ \A k \in 1 .. offset : disk[k] = Lines[k]
               /\ \A k \in offset + 1 .. Len(disk) : \A g \in 1 .. Len(Lines) : disk[k] # Lines[g]
    <3>1. /\ Position = Len(Lines)
          /\ \A k \in 1 .. offset : disk[k] = Lines[k]
          /\ \A k \in offset + 1 .. Len(disk) : \A g \in 1 .. Len(Lines) : disk[k] # Lines[g]
      BY <2>2 DEF IInv, Matches
    <3> QED
      BY <2>1, <3>1 DEF Position
  <2> QED
    BY <1>1, <1>2, <2>2 DEF Remains
<1> QED
  BY <1>3, <1>4, <1>5 DEF IInv

LEMMA InitInv == Init => IInv
<1> SUFFICES ASSUME Init PROVE IInv
  OBVIOUS
<1>1. /\ pc = "idle" /\ functions = {} /\ usable \in BOOLEAN
      /\ disk = <<>> /\ offset = 0 /\ buffer = <<>>
      /\ rest = <<>> /\ t_num_values = 0 /\ vars_used = 0 /\ pos = 0
      /\ result = 0 /\ calls = 0 /\ line = <<>> /\ good = <<>>
  BY DEF Init
<1>2. m_valid_functions \in SUBSET (Letters \cup {LOG_READY})
  BY DEF Init
<1>3. Len(<<>>) = 0 /\ <<>> \in Seq(UnitsSoFar) /\ <<>> \in Seq(Letters \cup {Text, BadLetter})
  BY EmptySeq
<1>4. TypeOK
  <2>1. disk \in Seq((1 .. calls) \X Nat) /\ buffer \in Seq((1 .. calls) \X Nat)
    BY <1>1, <1>3 DEF UnitsSoFar
  <2>2. pos \in -(Width \div 2) .. Width \div 2 - 1
    BY <1>1, Narrowed
  <2>3. calls \in 0 .. MaxCalls /\ offset \in 0 .. Len(disk)
    BY <1>1, <1>3, LogAssumption
  <2>4. t_num_values \in Nat /\ vars_used \in 0 .. t_num_values
    BY <1>1
  <2> QED
    BY <1>1, <1>2, <1>3, <2>1, <2>2, <2>3, <2>4 DEF TypeOK
<1>5. Settled /\ Aged /\ Remains
  BY <1>1, <1>3 DEF Settled, Aged, Remains
<1>6. Matches
  <2>1. Lines = <<>>
    BY <1>1, <1>3, ConcatEmptySeq DEF Lines
  <2>2. Position = 0 /\ Len(Lines) = 0 /\ Len(buffer) = 0 /\ Len(disk) = 0
    BY <1>1, <1>3, <2>1 DEF Position
  <2> QED
    BY <1>1, <2>2 DEF Matches
<1> QED
  BY <1>4, <1>5, <1>6 DEF IInv

LEMMA TurnInv ==
    ASSUME IInv, Turn
    PROVE  IInv'
<1>1. NOT_VALID_FUNCTION_VAR \in LESS_VALUES_THEN_FUNCTION_CALLS .. LOG_NOT_READY_ERROR
      /\ FUNCTION_NEVER_DEFINED \in LESS_VALUES_THEN_FUNCTION_CALLS .. LOG_NOT_READY_ERROR
      /\ MORE_VALUES_THEN_FUNCTION_CALLS \in LESS_VALUES_THEN_FUNCTION_CALLS .. LOG_NOT_READY_ERROR
  BY DEF NOT_VALID_FUNCTION_VAR, FUNCTION_NEVER_DEFINED, MORE_VALUES_THEN_FUNCTION_CALLS,
         LESS_VALUES_THEN_FUNCTION_CALLS, LOG_NOT_READY_ERROR
<1>2. CASE WriteText
  <2>1. pc = "log" /\ rest # <<>> /\ Advance(1) /\ UNCHANGED <<vars_used, t_num_values>>
    BY <1>2 DEF WriteText, InText, Advance
  <2>2. vars_used' \in 0 .. t_num_values
    BY <2>1 DEF IInv, TypeOK
  <2> QED
    BY <2>1, <2>2, AdvanceInv
<1>3. CASE NotALetter
  BY <1>1, <1>3, GiveUpInv DEF NotALetter
<1>4. CASE NeverDefined
  BY <1>1, <1>4, GiveUpInv DEF NeverDefined, InDirective
<1>5. CASE MoreValues
  BY <1>1, <1>5, GiveUpInv DEF MoreValues, InDirective
<1>6. CASE Interpret
  <2>1. pc = "log" /\ rest # <<>> /\ ~NoValueLeft
    BY <1>6 DEF Interpret, InDirective
  <2>2. vars_used + 1 \in 0 .. t_num_values
    BY <2>1 DEF NoValueLeft, IInv, TypeOK
  <2>3. CASE (\E n \in Lengths : Advance(n)) /\ vars_used' = vars_used + 1
    <3>1. PICK n \in Lengths : Advance(n)
      BY <2>3
    <3>2. n \in Nat
      BY DEF Lengths
    <3> QED
      BY <2>1, <2>2, <2>3, <3>1, <3>2, AdvanceInv
  <2>4. CASE End
    BY <2>1, <2>4, EndInv
  <2> QED
    BY <1>6, <2>3, <2>4 DEF Interpret
<1> QED
  BY <1>2, <1>3, <1>4, <1>5, <1>6 DEF Turn

LEMMA StepInv == IInv /\ [Next]_vars => IInv'
<1> SUFFICES ASSUME IInv, [Next]_vars PROVE IInv'
  OBVIOUS
<1>1. /\ m_valid_functions \in SUBSET (Letters \cup {LOG_READY})
      /\ functions \in SUBSET (m_valid_functions \cap Letters)
      /\ result \in {0} \cup LESS_VALUES_THEN_FUNCTION_CALLS .. LOG_NOT_READY_ERROR
      /\ LOG_NOT_READY_ERROR \in LESS_VALUES_THEN_FUNCTION_CALLS .. LOG_NOT_READY_ERROR
  BY DEF IInv, TypeOK, LESS_VALUES_THEN_FUNCTION_CALLS, LOG_NOT_READY_ERROR
<1>2. ASSUME NEW c \in Letters, addInterpreter(c) PROVE IInv'
  <2>1. /\ functions' = functions \cup {c} /\ m_valid_functions' = m_valid_functions \cup {c}
        /\ UNCHANGED <<pc, stream, locals, result, calls, line, good>>
    BY <1>2 DEF addInterpreter
  <2>2. /\ m_valid_functions' \in SUBSET (Letters \cup {LOG_READY})
        /\ functions' \in SUBSET (m_valid_functions' \cap Letters)
    BY <1>1, <2>1
  <2> QED
    BY <1>1, <2>1, <2>2, StreamAlone
<1>3. ASSUME NEW f \in Formats, NEW num \in 0 .. 2, LogBegin(f, num) PROVE IInv'
  BY <1>3, LogBeginInv
<1>4. CASE NotReady
  BY <1>1, <1>4, StreamAlone DEF NotReady
<1>5. CASE Turn
  BY <1>5, TurnInv
<1>6. CASE LessValues
  <2>1. LESS_VALUES_THEN_FUNCTION_CALLS \in LESS_VALUES_THEN_FUNCTION_CALLS .. LOG_NOT_READY_ERROR
    BY DEF LESS_VALUES_THEN_FUNCTION_CALLS, LOG_NOT_READY_ERROR
  <2> QED
    BY <1>6, <2>1, GiveUpInv DEF LessValues
<1>7. CASE EndLine
  BY <1>7, EndLineInv
<1>8. CASE Close
  BY <1>8, CloseInv
<1>9. CASE Die
  BY <1>9, EndInv DEF Die
<1>10. CASE UNCHANGED vars
  BY <1>1, <1>10, StreamAlone DEF vars
<1> QED
  BY <1>2, <1>3, <1>4, <1>5, <1>6, <1>7, <1>8, <1>9, <1>10 DEF Next

LEMMA Invariance == Spec => []IInv
<1> QED
  BY InitInv, StepInv, PTL DEF Spec

(* From units to sequences. *)
LEMMA LivingKept ==
    ASSUME IInv, usable, Len(good) < Width \div 2, pc # "dead"
    PROVE  /\ Position = Len(Lines) /\ SubSeq(Over(disk, offset, buffer), 1, Position) = Lines
           /\ offset <= Len(Lines)
           /\ \A k \in 1 .. offset : disk[k] = Lines[k]
           /\ \A k \in offset + 1 .. Len(disk) : \A g \in 1 .. Len(Lines) : disk[k] # Lines[g]
<1> DEFINE S == UnitsSoFar
           whole == Over(disk, offset, buffer)
<1>1. /\ disk \in Seq(S) /\ buffer \in Seq(S) /\ Lines \in Seq(S)
      /\ offset \in 0 .. Len(disk) /\ offset \in Nat /\ Len(disk) \in Nat /\ Len(buffer) \in Nat
      /\ Len(Lines) \in Nat /\ DOMAIN Lines = 1 .. Len(Lines)
  BY StreamTypes, LenProperties
<1>2. /\ Position = Len(Lines) /\ Position = offset + Len(buffer)
      /\ \A k \in 1 .. offset : disk[k] = Lines[k]
      /\ \A k \in 1 .. Len(buffer) : buffer[k] = Lines[offset + k]
      /\ \A k \in offset + 1 .. Len(disk) : \A g \in 1 .. Len(Lines) : disk[k] # Lines[g]
  BY DEF IInv, Matches, Position
<1>3. /\ whole \in Seq(S) /\ Len(whole) \in Nat
      /\ \A k \in 1 .. offset : whole[k] = disk[k]
      /\ \A k \in 1 .. Len(buffer) : whole[offset + k] = buffer[k]
      /\ offset + Len(buffer) <= Len(whole)
  BY <1>1, OverUnits
<1> HIDE DEF S, whole
<1>4. ASSUME NEW k \in 1 .. Position PROVE whole[k] = Lines[k]
  <2>1. CASE k <= offset
    <3>1. k \in 1 .. offset
      BY <1>1, <2>1
    <3> QED
      BY <1>2, <1>3, <3>1
  <2>2. CASE ~ (k <= offset)
    <3>1. PICK j \in 1 .. Len(buffer) : offset + j = k
      <4>1. k - offset \in 1 .. Len(buffer) /\ offset + (k - offset) = k
        BY <1>1, <1>2, <2>2
      <4> QED
        BY <4>1
    <3>2. whole[offset + j] = buffer[j] /\ buffer[j] = Lines[offset + j]
      BY <1>2, <1>3
    <3> QED
      BY <3>1, <3>2
  <2> QED
    BY <2>1, <2>2
<1>5. SubSeq(whole, 1, Position) = Lines
  <2> DEFINE s == SubSeq(whole, 1, Position)
  <2>1. Position \in Nat /\ \A k \in 1 .. Position : whole[k] \in S
    BY <1>1, <1>2, <1>4, ElementOfSeq
  <2>2. s \in Seq(S) /\ Len(s) = Position /\ \A k \in 1 .. Position : s[k] = whole[k]
    <3>1. /\ s \in Seq(S) /\ Len(s) = IF 1 <= Position THEN Position - 1 + 1 ELSE 0
          /\ \A k \in 1 .. Position - 1 + 1 : s[k] = whole[1 + k - 1]
      BY <2>1, SubSeqProperties
    <3> QED
      BY <2>1, <3>1
  <2> HIDE DEF s
  <2>3. Len(s) = Len(Lines) /\ \A k \in 1 .. Len(s) : s[k] = Lines[k]
    BY <1>2, <1>4, <2>2
  <2>4. s = Lines
    BY <1>1, <2>2, <2>3, SeqEqual
  <2> QED
    BY <2>4 DEF s
<1>6. offset <= Len(Lines)
  BY <1>1, <1>2
<1> QED
  BY <1>2, <1>5, <1>6 DEF whole

LEMMA KeptUnitByUnit == IInv => LinesKept
<1> SUFFICES ASSUME IInv, usable, Len(good) < Width \div 2
             PROVE  /\ pc # "dead" => Position = Len(Lines)
                          /\ SubSeq(Over(disk, offset, buffer), 1, Position) = Lines
                    /\ pc = "closed" => buffer = <<>>
                    /\ offset <= Len(Lines) /\ SubSeq(disk, 1, offset) = SubSeq(Lines, 1, offset)
                    /\ \A k \in offset + 1 .. Len(disk) : \A g \in DOMAIN Lines : disk[k] # Lines[g]
  BY DEF LinesKept, Lines
<1> DEFINE S == UnitsSoFar
<1>1. /\ disk \in Seq(S) /\ Lines \in Seq(S)
      /\ offset \in 0 .. Len(disk) /\ offset \in Nat /\ Len(disk) \in Nat
      /\ Len(Lines) \in Nat /\ DOMAIN Lines = 1 .. Len(Lines)
  BY StreamTypes, LenProperties
<1>2. /\ offset <= Len(Lines)
      /\ \A k \in 1 .. offset : disk[k] = Lines[k]
      /\ \A k \in offset + 1 .. Len(disk) : \A g \in 1 .. Len(Lines) : disk[k] # Lines[g]
  <2>1. CASE pc # "dead"
    BY <2>1, LivingKept
  <2>2. CASE pc = "dead"
    BY <2>2 DEF IInv, Remains
  <2> QED
    BY <2>1, <2>2
<1> HIDE DEF S
<1>3. SubSeq(disk, 1, offset) = SubSeq(Lines, 1, offset)
  <2> DEFINE s == SubSeq(disk, 1, offset)
             t == SubSeq(Lines, 1, offset)
  <2>1. \A k \in 1 .. offset : disk[k] \in S /\ Lines[k] \in S
    <3>1. \A k \in 1 .. offset : k \in 1 .. Len(disk) /\ k \in 1 .. Len(Lines)
      BY <1>1, <1>2
    <3> QED
      BY <1>1, <3>1, ElementOfSeq
  <2>2. /\ s \in Seq(S) /\ Len(s) = IF 1 <= offset THEN offset - 1 + 1 ELSE 0
        /\ \A k \in 1 .. offset - 1 + 1 : s[k] = disk[1 + k - 1]
    BY <1>1, <2>1, SubSeqProperties
  <2>3. /\ t \in Seq(S) /\ Len(t) = IF 1 <= offset THEN offset - 1 + 1 ELSE 0
        /\ \A k \in 1 .. offset - 1 + 1 : t[k] = Lines[1 + k - 1]
    BY <1>1, <2>1, SubSeqProperties
  <2> HIDE DEF s, t
  <2>4. Len(s) = Len(t) /\ \A k \in 1 .. Len(s) : s[k] = t[k]
    BY <1>1, <1>2, <2>2, <2>3
  <2>5. s = t
    BY <2>2, <2>3, <2>4, SeqEqual
  <2> QED
    BY <2>5 DEF s, t
<1>4. pc = "closed" => buffer = <<>>
  BY DEF IInv, Settled
<1>5. pc # "dead" =>
        Position = Len(Lines) /\ SubSeq(Over(disk, offset, buffer), 1, Position) = Lines
  BY LivingKept
<1> QED
  BY <1>1, <1>2, <1>3, <1>4, <1>5

-----------------------------------------------------------------------------
(* Every variable stays in its type; log never reaches beyond the values   *)
(* it was given, and a file that was not opened or failed buffers nothing. *)
THEOREM TypeCorrect == Spec => []TypeOK
<1>1. IInv => TypeOK
  BY DEF IInv
<1> QED
  BY <1>1, Invariance, PTL

(* Whatever lines log gives up by seeking back, the lines of the calls     *)
(* that returned 0 are in the stream while the log lives, complete and in  *)
(* order, and all of them are in the file once it is closed; where the     *)
(* process ends without that, the file has a beginning of them and what    *)
(* was in the stream's buffer is lost.  This holds while the length of the *)
(* lines, Len(good), is below Width \div 2: of the file, below 2 GB, where *)
(* a position still fits the int32_t it is kept in.                        *)
THEOREM LinesAlwaysKept == Spec => []LinesKept
<1> QED
  BY KeptUnitByUnit, Invariance, PTL
=============================================================================
