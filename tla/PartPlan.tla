------------------------------ MODULE PartPlan ------------------------------
(***************************************************************************)
(* The arithmetic of multipart uploads (src/storage/limits.ts). The code   *)
(* divides JavaScript numbers; sizes stay below 2^53 and quotients far     *)
(* enough from integers that Math.ceil of the quotient is exact.           *)
(***************************************************************************)
EXTENDS Integers

CONSTANTS
  MIB,              \* bytes of a MiB
  MAX_PART,         \* largest part the storage takes
  MAX_PARTS,        \* most parts of an upload
  MAX_OBJECT        \* largest size intent accepts

MIN_PART == 5 * MIB

ceil(a, b) == (a + b - 1) \div b

\* The parts of the largest object fit: limits.ts checks it at run time.
ASSUME PartPlanAssumption ==
  /\ MIB \in Nat \ {0} /\ MAX_PARTS \in Nat \ {0}
  /\ MAX_PART \in Nat /\ MAX_OBJECT \in Nat \ {0}
  /\ MIN_PART <= MAX_PART
  /\ ceil(ceil(MAX_OBJECT, MAX_PARTS), MIB) * MIB <= MAX_PART

\* Mutant: the needed size is rounded down to whole MiB.
computePartSizeDown(size) ==
  LET rounded == (ceil(size, MAX_PARTS) \div MIB) * MIB
  IN  IF rounded < MIN_PART THEN MIN_PART ELSE rounded

computePartSize(size) ==
  LET rounded == ceil(ceil(size, MAX_PARTS), MIB) * MIB
  IN  IF rounded < MIN_PART THEN MIN_PART ELSE rounded

partCount(size, partSize) == ceil(size, partSize)

\* Parts are numbered from 1; the last one has what remains.
partLength(size, partSize, n) ==
  IF size - (n - 1) * partSize < partSize
  THEN size - (n - 1) * partSize ELSE partSize

\* The part numbers describe() lists for a file of this size.
PartNumbers(size) == 1..partCount(size, computePartSize(size))

\* The part size is within the storage's bounds (computePartSize does not throw)
\* and the parts are not too many.
WithinLimits(size) ==
  /\ computePartSize(size) \in MIN_PART..MAX_PART
  /\ partCount(size, computePartSize(size)) \in 1..MAX_PARTS

\* All parts are whole but the last, which is not empty and ends where the file
\* ends: no gap and no overlap.
Exact(size) ==
  LET partSize == computePartSize(size)
      last == partCount(size, partSize)
  IN  /\ \A n \in 1..(last - 1) : partLength(size, partSize, n) = partSize
      /\ partLength(size, partSize, last) \in 1..partSize
      /\ (last - 1) * partSize + partLength(size, partSize, last) = size

EverySizeWithinLimits == \A size \in 1..MAX_OBJECT : WithinLimits(size)
EverySizeExact == \A size \in 1..MAX_OBJECT : Exact(size)
=============================================================================
