-------------------------- MODULE PartLayoutProofs --------------------------
(***************************************************************************)
(* The cuts of PartLayout are right for every size, part size and number of   *)
(* workers.                                                                  *)
(***************************************************************************)
EXTENDS PartLayout, SequencesExt, WellFoundedInduction, TLAPS

(* Division with rest: a \div b blocks of b fit into a, and one more does not.  *)
LEMMA Blocks ==
  ASSUME NEW a \in Nat, NEW b \in Nat \ {0}
  PROVE  /\ a \div b \in Nat
         /\ (a \div b) * b <= a
         /\ a < (a \div b) * b + b
BY SMT

LEMMA Monotone ==
  ASSUME NEW a \in Int, NEW b \in Int, NEW c \in Nat, a <= b
  PROVE  a * c <= b * c /\ a * c \in Int /\ b * c \in Int
BY SMT

LEMMA OneMore ==
  ASSUME NEW a \in Int, NEW c \in Nat
  PROVE  (a + 1) * c = a * c + c /\ (a - 1) * c = a * c - c /\ a * c \in Int
BY SMT

(* As many parts as are needed, and none of them beyond the end of the file.     *)
LEMMA TotalPartsFit ==
  ASSUME NEW size \in Nat \ {0}, NEW partSize \in Nat \ {0}
  PROVE  LET total == TotalParts(size, partSize)
         IN  /\ total \in Nat \ {0}
             /\ (total - 1) * partSize < size
             /\ size <= total * partSize
  <1> DEFINE a == size + partSize - 1
             total == a \div partSize
  <1>1. a \in Nat OBVIOUS
  <1>2. TotalParts(size, partSize) = total BY DEF TotalParts
  <1> HIDE DEF a
  <1>3. total \in Nat /\ total * partSize <= a /\ a < total * partSize + partSize BY <1>1, Blocks
  <1> HIDE DEF total
  <1>4. (total - 1) * partSize = total * partSize - partSize /\ total * partSize \in Int BY <1>3, OneMore
  <1>5. size <= total * partSize /\ (total - 1) * partSize < size BY <1>3, <1>4 DEF a
  <1>6. total # 0 BY <1>5
  <1> QED BY <1>2, <1>3, <1>5, <1>6

(* Natural numbers are well ordered: what induction is based on below.           *)
LEMMA Smallest ==
  ASSUME NEW S \in SUBSET Nat, S # {}
  PROVE  \E x \in S : \A y \in S : x <= y
  <1> DEFINE R == {ss \in Nat \X Nat : ss[1] < ss[2]}
  <1>1. IsWellFoundedOn(R, Nat) BY NatLessThanWellFounded DEF OpToRel
  <1> HIDE DEF R
  <1>2. PICK x \in S : \A y \in S : ~ (<<y, x>> \in R) BY <1>1, WFMin
  <1>3. ASSUME NEW y \in S PROVE ~(y < x)
    <2>1. <<y, x>> \notin R BY <1>2
    <2> QED BY <2>1 DEF R
  <1> QED BY <1>3

(* Part p of a file begins where p - 1 full parts end, and is full or the rest.   *)
LEMMA PartFits ==
  ASSUME NEW size \in Nat, NEW partSize \in Nat \ {0}, NEW p \in 1 .. TotalParts(size, partSize)
  PROVE  /\ PartOffset(partSize, p) \in Nat
         /\ PartOffset(partSize, p) <= size
         /\ size > 0 => PartOffset(partSize, p) < size
         /\ PartOffset(partSize, p) + PartLength(size, partSize, p) = Least(p * partSize, size)
         /\ PartLength(size, partSize, p) \in Nat
         /\ p * partSize \in Nat
  <1>1. CASE size = 0
    <2>1. p = 1 BY <1>1 DEF TotalParts
    <2> QED BY <1>1, <2>1 DEF PartOffset, PartLength, Least
  <1>2. CASE size # 0
    <2> DEFINE total == TotalParts(size, partSize)
    <2>1. total \in Nat \ {0} /\ (total - 1) * partSize < size BY <1>2, TotalPartsFit
    <2> HIDE DEF total
    <2>2. p \in Nat /\ 1 <= p /\ p <= total BY <2>1 DEF total
    <2>3. 0 * partSize <= (p - 1) * partSize /\ (p - 1) * partSize <= (total - 1) * partSize
      BY <2>1, <2>2, Monotone
    <2>4. p * partSize \in Int /\ (p - 1) * partSize = p * partSize - partSize BY <2>2, OneMore
    <2> QED BY <1>2, <2>1, <2>3, <2>4 DEF PartOffset, PartLength, Least
  <1> QED BY <1>1, <1>2

(* What is stored up to the end of part p, and the part after it.                *)
LEMMA PartExtends ==
  ASSUME NEW size \in Nat, NEW partSize \in Nat \ {0}, NEW p \in 1 .. TotalParts(size, partSize)
  PROVE  WholeFile(PartOffset(partSize, p)) \o PartBytes(size, partSize, p) = WholeFile(Least(p * partSize, size))
  <1> DEFINE first == PartOffset(partSize, p)
             length == PartLength(size, partSize, p)
             next == Least(p * partSize, size)
  <1>1. first \in Nat /\ length \in Nat /\ first + length = next BY PartFits
  <1>2. PartBytes(size, partSize, p) = [k \in 1 .. length |-> first + k - 1] BY DEF PartBytes
  <1> HIDE DEF first, length, next
  <1>3. [i \in 1 .. first |-> i - 1] \in Seq(Int) /\ Len([i \in 1 .. first |-> i - 1]) = first BY <1>1
  <1>4. /\ [k \in 1 .. length |-> first + k - 1] \in Seq(Int)
        /\ Len([k \in 1 .. length |-> first + k - 1]) = length BY <1>1
  <1>5. [i \in 1 .. first |-> i - 1] \o [k \in 1 .. length |-> first + k - 1] = [i \in 1 .. next |-> i - 1]
    BY <1>1, <1>3, <1>4
  <1> QED BY <1>2, <1>5 DEF WholeFile, first, next

(* create_session and upload_part: the parts of a file, put one after another,   *)
(* are the file; every part but the last has the part size, and only an empty     *)
(* file has an empty part.                                                      *)
THEOREM PartsAreTheFile ==
  ASSUME NEW size \in Nat, NEW partSize \in Nat \ {0}
  PROVE  LET total == TotalParts(size, partSize)
             parts == [p \in 1 .. total |-> PartBytes(size, partSize, p)]
         IN  /\ FlattenSeq(parts) = WholeFile(size)
             /\ \A p \in 1 .. total - 1 : Len(parts[p]) = partSize
             /\ size > 0 => \A p \in 1 .. total : parts[p] # <<>>
  <1> DEFINE total == TotalParts(size, partSize)
             parts == [p \in 1 .. total |-> PartBytes(size, partSize, p)]
             Appends(f) == f = [p \in 1 .. total |-> IF p = 1 THEN parts[p] ELSE f[p - 1] \o parts[p]]
             upto == [p \in 1 .. total |-> WholeFile(Least(p * partSize, size))]
             flatten == CHOOSE f : Appends(f)
  <1>1. total \in Nat \ {0} /\ Least(total * partSize, size) = size
    <2>1. CASE size = 0 BY <2>1 DEF TotalParts, Least
    <2>2. CASE size # 0
      <3>1. total \in Nat \ {0} /\ size <= total * partSize BY <2>2, TotalPartsFit
      <3> HIDE DEF total
      <3> QED BY <3>1, OneMore DEF Least
    <2> QED BY <2>1, <2>2
  <1>2. Len(parts) = total BY <1>1
  <1>3. FlattenSeq(parts) = flatten[total]
    <2>1. FlattenSeq(parts) = (CHOOSE f : f = [p \in 1 .. Len(parts) |-> IF p = 1 THEN parts[p] ELSE f[p - 1] \o parts[p]])[Len(parts)]
      BY <1>1, <1>2 DEF FlattenSeq
    <2> QED BY <1>2, <2>1
  <1>4. ASSUME NEW p \in 1 .. total
        PROVE  upto[p] = IF p = 1 THEN parts[p] ELSE upto[p - 1] \o parts[p]
    <2>1. WholeFile(PartOffset(partSize, p)) \o parts[p] = upto[p] BY PartExtends
    <2>2. CASE p = 1
      <3>1. PartOffset(partSize, p) = 0 BY <2>2 DEF PartOffset
      <3>2. PartLength(size, partSize, p) = Least(p * partSize, size) /\ PartLength(size, partSize, p) \in Nat
        BY <3>1, PartFits
      <3> QED BY <2>2, <3>1, <3>2 DEF WholeFile, PartBytes
    <2>3. CASE p # 1
      <3>1. p - 1 \in 1 .. total BY <1>1, <2>3
      <3>2. (p - 1) * partSize = PartOffset(partSize, p) BY DEF PartOffset
      <3>3. Least((p - 1) * partSize, size) = (p - 1) * partSize BY <3>2, PartFits DEF Least
      <3> QED BY <2>1, <2>3, <3>1, <3>2, <3>3
    <2> QED BY <2>2, <2>3
  <1>5. Appends(upto) BY <1>4
  <1>6. Appends(flatten) BY <1>5
  <1>7. \A p \in 1 .. total : flatten[p] = upto[p]
    <2> SUFFICES ASSUME {p \in 1 .. total : flatten[p] # upto[p]} # {} PROVE FALSE OBVIOUS
    <2>1. PICK p \in 1 .. total : flatten[p] # upto[p] /\ \A q \in 1 .. total : flatten[q] # upto[q] => p <= q
      <3> DEFINE S == {q \in 1 .. total : flatten[q] # upto[q]}
      <3> HIDE DEF flatten, upto, total
      <3>1. S \in SUBSET Nat /\ S # {} BY <1>1
      <3> QED BY <3>1, Smallest
    <2> HIDE DEF flatten, upto, parts
    <2>2. flatten[p] = IF p = 1 THEN parts[p] ELSE flatten[p - 1] \o parts[p] BY <1>6
    <2>3. p # 1 => flatten[p - 1] = upto[p - 1] BY <1>1, <2>1
    <2> QED BY <1>4, <2>1, <2>2, <2>3
  <1>8. FlattenSeq(parts) = WholeFile(size)
    <2>1. upto[total] = WholeFile(size)
      <3>1. total \in 1 .. total BY <1>1
      <3>2. upto[total] = WholeFile(Least(total * partSize, size)) BY <3>1
      <3> QED BY <1>1, <3>2
    <2> HIDE DEF flatten, upto, total
    <2>2. flatten[total] = upto[total] BY <1>1, <1>7
    <2> QED BY <1>3, <2>1, <2>2
  <1>9. ASSUME NEW p \in 1 .. total
        PROVE  Len(parts[p]) = PartLength(size, partSize, p) /\ (size > 0 => parts[p] # <<>>)
    <2>1. PartLength(size, partSize, p) \in Nat BY PartFits
    <2>2. parts[p] = [k \in 1 .. PartLength(size, partSize, p) |-> PartOffset(partSize, p) + k - 1] BY DEF PartBytes
    <2>3. size > 0 => PartLength(size, partSize, p) > 0
      BY PartFits, OneMore DEF Least, PartLength
    <2> QED BY <2>1, <2>2, <2>3
  <1>10. ASSUME NEW p \in 1 .. total - 1 PROVE PartLength(size, partSize, p) = partSize
    <2>1. p \in 1 .. total /\ p + 1 \in 1 .. total BY <1>1
    <2>2. PartOffset(partSize, p + 1) = p * partSize BY DEF PartOffset
    <2>3. p * partSize <= size BY <2>1, <2>2, PartFits
    <2>4. p * partSize = PartOffset(partSize, p) + partSize BY <2>1, OneMore DEF PartOffset
    <2> QED BY <2>1, <2>3, <2>4, PartFits DEF PartLength, Least
  <1> QED BY <1>8, <1>9, <1>10, <1>1

(* _stream_parallel and parse_byte_range: the ranges of a parallel download, one  *)
(* for each of at most `total' workers, are answered with exactly the bytes they  *)
(* name, and every byte of the object is in exactly one of them.                 *)
THEOREM RangesAreTheObject ==
  ASSUME NEW total \in Nat \ {0}, NEW workers \in 1 .. total
  PROVE  LET first(i) == RangeStart(total, workers, i)
             last(i)  == RangeEnd(total, workers, i)
             range(i) == Served(first(i), last(i), total)
         IN  /\ \A i \in 1 .. workers : Satisfiable(first(i), last(i), total) /\ range(i) = first(i) .. last(i)
             /\ \A b \in Bytes(total) : \E i \in 1 .. workers : b \in range(i)
             /\ \A i, j \in 1 .. workers : i < j => \A b \in range(i), c \in range(j) : b < c
  <1> DEFINE step == total \div workers
             first(i) == RangeStart(total, workers, i)
             last(i)  == RangeEnd(total, workers, i)
             range(i) == Served(first(i), last(i), total)
  <1>0. step \in Nat /\ step * workers <= total /\ total < step * workers + workers BY Blocks
  <1>1. \A i : first(i) = (i - 1) * step /\ last(i) = IF i = workers THEN total - 1 ELSE i * step - 1
    BY DEF RangeStart, RangeEnd
  <1> HIDE DEF step, first, last
  <1>2. step >= 1
    <2>1. step = 0 => step * workers = 0 BY Monotone
    <2> QED BY <1>0, <2>1
  <1>3. workers * step = step * workers BY <1>0
  <1>4. ASSUME NEW i \in 1 .. workers
        PROVE  /\ first(i) \in Nat /\ last(i) \in Nat /\ first(i) <= last(i) /\ last(i) < total
               /\ i < workers => last(i) = i * step - 1
               /\ i * step \in Int /\ i * step <= total
    <2>1. 0 * step <= (i - 1) * step /\ i * step <= workers * step /\ workers * step \in Int BY <1>0, Monotone
    <2>2. i * step \in Int /\ (i - 1) * step = i * step - step BY <1>0, OneMore
    <2> QED BY <1>0, <1>1, <1>2, <1>3, <2>1, <2>2
  <1>5. \A i \in 1 .. workers : Satisfiable(first(i), last(i), total) /\ range(i) = first(i) .. last(i)
    BY <1>4 DEF Satisfiable, Served, Least
  <1>6. ASSUME NEW b \in Bytes(total) PROVE \E i \in 1 .. workers : b \in range(i)
    <2> DEFINE k == b \div step
    <2>1. b \in Nat /\ b < total /\ step \in Nat \ {0} BY <1>0, <1>2 DEF Bytes
    <2>2. k \in Nat /\ k * step <= b /\ b < k * step + step BY <2>1, Blocks
    <2> HIDE DEF k
    <2>3. (k + 1) * step = k * step + step /\ k * step \in Int BY <1>0, <2>2, OneMore
    <2>4. CASE k + 1 < workers
      <3>1. k + 1 \in 1 .. workers /\ first(k + 1) = k * step /\ last(k + 1) = (k + 1) * step - 1
        BY <1>1, <2>2, <2>4
      <3>2. b \in first(k + 1) .. last(k + 1) BY <2>1, <2>2, <2>3, <3>1
      <3> QED BY <1>5, <3>1, <3>2
    <2>5. CASE k + 1 >= workers
      <3>1. (workers - 1) * step <= k * step BY <1>0, <2>2, <2>5, Monotone
      <3>2. workers \in 1 .. workers /\ first(workers) = (workers - 1) * step /\ last(workers) = total - 1 BY <1>1
      <3>3. b \in first(workers) .. last(workers) BY <1>4, <2>1, <2>2, <2>3, <3>1, <3>2
      <3> QED BY <1>5, <3>2, <3>3
    <2> QED BY <2>2, <2>4, <2>5
  <1>7. ASSUME NEW i \in 1 .. workers, NEW j \in 1 .. workers, i < j, NEW b \in range(i), NEW c \in range(j)
        PROVE  b < c
    <2>1. b \in first(i) .. last(i) /\ c \in first(j) .. last(j) BY <1>5
    <2>2. i * step <= (j - 1) * step /\ (j - 1) * step \in Int BY <1>0, <1>7, Monotone
    <2>3. last(i) = i * step - 1 /\ first(j) = (j - 1) * step BY <1>1, <1>4, <1>7
    <2> QED BY <1>4, <2>1, <2>2, <2>3
  <1> QED BY <1>5, <1>6, <1>7 DEF first, last
=============================================================================
