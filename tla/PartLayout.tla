----------------------------- MODULE PartLayout -----------------------------
(***************************************************************************)
(* How a file of `size' bytes is cut: into the parts of an upload session,   *)
(* and into the byte ranges of a parallel download.  The bytes of a file are *)
(* their positions 0 .. size - 1, so a cut is right when every position ends *)
(* up once and in its place.                                                 *)
(***************************************************************************)
EXTENDS Integers

Bytes(size) == 0 .. size - 1

(* proxy_upload stores what is sent; the file as a sequence of positions. *)
WholeFile(size) == [i \in 1 .. size |-> i - 1]

Least(a, b) == IF a <= b THEN a ELSE b

(* create_session: max(1, ceil(total_size / part_size)), so that an empty     *)
(* file has one empty part.                                                   *)
TotalParts(size, partSize) ==
  IF size = 0 THEN 1 ELSE (size + partSize - 1) \div partSize

\* Mutant: part numbers are taken for 0-based.
PartOffsetShifted(partSize, p) == p * partSize

(* upload_part: what the SDK reads of the file for part p. *)
PartOffset(partSize, p) == (p - 1) * partSize

PartLength(size, partSize, p) == Least(partSize, size - PartOffset(partSize, p))

PartBytes(size, partSize, p) ==
  [k \in 1 .. PartLength(size, partSize, p) |-> PartOffset(partSize, p) + k - 1]

(* _stream_parallel: `workers' ranges of total \div workers bytes, the last of *)
(* which goes to the end.                                                     *)
RangeStart(total, workers, i) == (i - 1) * (total \div workers)

\* Mutant: the last range is as long as the others.
RangeEndEven(total, workers, i) == i * (total \div workers) - 1

RangeEnd(total, workers, i) ==
  IF i = workers THEN total - 1 ELSE i * (total \div workers) - 1

(* parse_byte_range of "bytes=first-last" against an object of `size' bytes:   *)
(* 416, or the bytes of the object in the range.                              *)
Satisfiable(first, last, size) == size > 0 /\ first < size /\ first <= last

Served(first, last, size) == first .. Least(last, size - 1)
=============================================================================
