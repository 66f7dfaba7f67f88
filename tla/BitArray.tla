------------------------------ MODULE BitArray ------------------------------
(***************************************************************************)
(* j2::bit::bit_array: bits packed into bytes, the first bit the highest   *)
(* of the first byte.  What the last byte holds behind the last bit, and   *)
(* further bytes, are not bits of the array and may be anything.           *)
(***************************************************************************)
EXTENDS Integers, SequencesExt, Calls

CONSTANTS
  ByteBits,      \* bits of a byte: 8 in the code
  Sources        \* pairs of bytes and a number of bits that they hold

VARIABLES
  array,         \* [data, size]: _data and _bit_size
  meant          \* the bits, one by one

bitVars == <<array, meant>>

BytesFor(bits) == (bits + ByteBits - 1) \div ByteBits
Zeroed(bits) == [i \in 1..BytesFor(bits) |-> 0]

\* The weight of bit i, counted from 0, in its byte.
Weight(i) == 2^(ByteBits - 1 - (i % ByteBits))
BitAt(data, i) == (data[i \div ByteBits + 1] \div Weight(i)) % 2

WithBit(data, i, bit) ==
  [data EXCEPT ![i \div ByteBits + 1] = @ + (bit - BitAt(data, i)) * Weight(i)]

\* Data with bits[1], bits[2], ... written to the places from first on.
PutBits(data, first, bits) ==
  FoldLeftDomain(LAMBDA d, i : WithBit(d, first + i - 1, bits[i]), data, bits)

\* to_array
ToArray(a) == [i \in 1..a.size |-> BitAt(a.data, i - 1)]

\* from: no number of bits means all of the bytes.
From(bytes, bits) ==
  [data |-> bytes, size |-> IF bits = 0 THEN ByteBits * Len(bytes) ELSE bits]

\* get: as many of the bits as there are.
GetBits(a, offset, length) ==
  LET there == IF offset + length <= a.size THEN length
               ELSE IF offset < a.size THEN a.size - offset ELSE 0
  IN [data |-> PutBits(Zeroed(there), 0, [i \in 1..there |-> BitAt(a.data, offset + i - 1)]),
      size |-> there]

\* merge: overwrites as many bits as fit, none behind the end.
Merge(a, input, offset) ==
  LET n == IF offset >= a.size THEN 0 ELSE Min({input.size, a.size - offset})
  IN [a EXCEPT !.data = PutBits(@, offset, SubSeq(ToArray(input), 1, n))]

\* operator+
Plus(a, b) ==
  [data |-> PutBits(PutBits(Zeroed(a.size + b.size), 0, ToArray(a)), a.size, ToArray(b)),
   size |-> a.size + b.size]

\* operator<< and operator>>: by as many places as there are bits, new bytes.
ShiftedLeft(a, n) ==
  [a EXCEPT !.data = IF n >= a.size THEN Zeroed(a.size)
                     ELSE PutBits(@, 0, [i \in 1..a.size |->
                            IF i + n <= a.size THEN BitAt(a.data, i + n - 1) ELSE 0])]

ShiftedRight(a, n) ==
  [a EXCEPT !.data = IF n >= a.size THEN Zeroed(a.size)
                     ELSE PutBits(@, 0, [i \in 1..a.size |->
                            IF i > n THEN BitAt(a.data, i - n - 1) ELSE 0])]

\* (A faulty variant: the bits go to their places from the byte's end.)
ReversedByBytes(a) ==
  [a EXCEPT !.data = IF a.size = 0 THEN @ ELSE Reverse(PutBits(Zeroed(a.size), 0, ToArray(a)))]

\* reverser: an empty array keeps its bytes.
Reversed(a) ==
  [a EXCEPT !.data = IF a.size = 0 THEN @
                     ELSE PutBits(Zeroed(a.size), 0, Reverse(ToArray(a)))]

InitBits == array = [data |-> <<>>, size |-> 0] /\ meant = <<>>

-----------------------------------------------------------------------------
Becomes(a, bits) == Call /\ array' = a /\ meant' = bits

Shift(n) ==
  \/ Becomes(ShiftedLeft(array, n),
             [i \in DOMAIN meant |-> IF i + n \in DOMAIN meant THEN meant[i + n] ELSE 0])
  \/ Becomes(ShiftedRight(array, n),
             [i \in DOMAIN meant |-> IF i - n \in DOMAIN meant THEN meant[i - n] ELSE 0])

\* Operands are arrays made by from(); zeroed ones are made by set_bits().
NextBits ==
  \/ \E src \in Sources :
       LET b == From(src[1], src[2])
           bits == SubSeq(FlattenSeq([i \in DOMAIN src[1] |->
                     [j \in 1..ByteBits |-> (src[1][i] \div 2^(ByteBits - j)) % 2]]), 1, b.size)
       IN \/ Becomes(b, bits)
          \/ Becomes(Plus(array, b), meant \o bits)
          \/ \E n \in 0..Len(meant) :
               Becomes(Merge(array, b, n),
                       [i \in DOMAIN meant |-> IF i - n \in DOMAIN bits THEN bits[i - n] ELSE meant[i]])
  \/ \E n \in 0..Len(meant) :
       \/ Shift(n)
       \/ \E m \in 0..Len(meant) :
            Becomes(GetBits(array, n, m), SubSeq(meant, n + 1, Min({n + m, Len(meant)})))
  \/ Becomes(Reversed(array), Reverse(meant))
  \/ \E n \in 0..ByteBits + 1 : Becomes([data |-> Zeroed(n), size |-> n], [i \in 1..n |-> 0])

-----------------------------------------------------------------------------
\* The bits that to_array() gives are those that the calls put there, in their
\* order, whatever stands behind the last bit.
BitsStayInOrder == ToArray(array) = meant
=============================================================================
