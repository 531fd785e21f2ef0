------------------------------ MODULE Numbers ------------------------------
(***************************************************************************)
(* Integers as the code keeps and sends them: rav::WrappingUint, which     *)
(* wraps, rav::SafeInt, which does not, and the bytes on the wire.         *)
(***************************************************************************)
EXTENDS Integers, Sequences, TLAPS

-----------------------------------------------------------------------------
(***************************************************************************)
(* WrappingUint<T> orders PTP sequence ids, RTP sequence numbers and RTP   *)
(* timestamps across the wrap.  M is 2^w for a type of w bits; values are  *)
(* in 0..M-1.                                                              *)
(***************************************************************************)
Values(M) == 0..(M - 1)

\* static_cast<T>(b - a)
Distance(M, a, b) == IF b >= a THEN b - a ELSE b - a + M

\* is_older_than: std::numeric_limits<T>::max() / 2 + 1 is M \div 2.
IsOlderThan(M, a, b) == a # b /\ Distance(M, a, b) < M \div 2

\* operator> is the negation of operator<=, so that two values that are half
\* the range apart are each greater than the other.
IsGreater(M, a, b) == a # b /\ ~IsOlderThan(M, a, b)

Increment(M, a, n) == (a + n) % M

-----------------------------------------------------------------------------
(***************************************************************************)
(* SafeInt<T> for the integers of lo..hi, or an error.  Division in C++    *)
(* rounds to zero.                                                         *)
(***************************************************************************)
Good(n) == [error |-> "none", value |-> n]
Bad(error) == [error |-> error, value |-> 0]

Quotient(a, b) ==
  IF (a >= 0) = (b > 0)
  THEN (IF a >= 0 THEN a ELSE -a) \div (IF b > 0 THEN b ELSE -b)
  ELSE -((IF a >= 0 THEN a ELSE -a) \div (IF b > 0 THEN b ELSE -b))
Remainder(a, b) == a - Quotient(a, b) * b

\* add and sub
SafeSum(lo, hi, a, b) ==
  IF b > 0 /\ a > hi - b THEN Bad("overflow")
  ELSE IF b < 0 /\ a < lo - b THEN Bad("underflow")
  ELSE Good(a + b)
SafeDifference(lo, hi, a, b) ==
  IF b < 0 /\ a > hi + b THEN Bad("overflow")
  ELSE IF b > 0 /\ a < lo + b THEN Bad("underflow")
  ELSE Good(a - b)

\* mul
SafeProduct(lo, hi, a, b) ==
  IF a = 0 \/ b = 0 THEN Good(0)
  ELSE IF (a > 0 /\ b > 0 /\ a > Quotient(hi, b)) \/ (a < 0 /\ b < 0 /\ a < Quotient(hi, b)) THEN Bad("overflow")
  ELSE IF (a > 0 /\ b < 0 /\ b < Quotient(lo, a)) \/ (a < 0 /\ b > 0 /\ a < Quotient(lo, b)) THEN Bad("underflow")
  ELSE Good(a * b)

\* div
SafeQuotient(lo, hi, a, b) ==
  IF b = 0 THEN Bad("div_by_zero") ELSE IF a = lo /\ b = -1 THEN Bad("overflow") ELSE Good(Quotient(a, b))

\* operator+= and the others: an error stays what it is.
AfterError(before, result) == IF before.error = "none" THEN result ELSE before

-----------------------------------------------------------------------------
(***************************************************************************)
(* Numbers and fields of bits on the wire: rav::ByteBuffer and byte_order  *)
(* write them, rav::BufferView reads them.  A buffer is a sequence of      *)
(* bytes.  The values of the models are numbers of 32 bits; wider fields   *)
(* have the bytes of their sign in front.                                  *)
(***************************************************************************)

\* The byte of a number that has k bytes behind it, of two's complement.
ByteOf(n, k) == IF k < 4 THEN (n \div 256^k) % 256 ELSE IF n < 0 THEN 255 ELSE 0

\* write_be
BigEndian(n, width) == [i \in 1..width |-> ByteOf(n, width - i)]

\* write_le
LittleEndian(n, width) == [i \in 1..width |-> ByteOf(n, i - 1)]

\* The part of a buffer behind an offset, and of a given size (subview)
From(data, offset) == SubSeq(data, offset + 1, Len(data))
View(data, offset, size) == SubSeq(data, offset + 1, offset + size)

\* The number that bytes make behind what came before them, the highest first.
Appended(n, bytes) ==
  LET sum[i \in 0..Len(bytes)] == IF i = 0 THEN n ELSE sum[i - 1] * 256 + bytes[i]
  IN  sum[Len(bytes)]

\* read_be of an unsigned number
ReadUnsigned(data, offset, width) == Appended(0, View(data, offset, width))

\* read_be of a signed number
ReadSigned(data, offset, width) ==
  LET first == data[offset + 1]
  IN  Appended(IF first >= 128 THEN first - 256 ELSE first, View(data, offset + 1, width - 1))

\* read_le of a signed number
ReadLittleEndian(data, offset, width) == ReadSigned([i \in 1..width |-> data[offset + width + 1 - i]], 0, width)

\* The bits of a byte from position low on, width many.
Bits(byte, low, width) == (byte \div 2^low) % 2^width
=============================================================================
