----------------------------- MODULE BigEndian ------------------------------
(***************************************************************************)
(* EncodeBigEndian<T>() and DecodeBigEndian<T>(): integers as strings of   *)
(* bytes, the most significant one first (internal/big_endian.h).          *)
(*                                                                         *)
(* A type T is [size, signed].  A byte has Base values, so that all the    *)
(* values of the wide types can be enumerated.                             *)
(*                                                                         *)
(* A definition named Faulty... is a variant of the one that follows it    *)
(* with a plausible mistake, kept to show that a property can fail.        *)
(***************************************************************************)
EXTENDS Integers, Sequences

CONSTANTS
    Base,   \* std::numeric_limits<unsigned char>::max() + 1, a power of two
    Sizes   \* the sizes of the integral types, in bytes

VARIABLE codec  \* the last value that was encoded, its bytes, and what they were decoded to

\* What is_integral<T> and the static_assert on the width of a char say of them.
Integral == Base \in Nat \ {0} /\ Base % 2 = 0 /\ Sizes \subseteq Nat \ {0}

IntegralType == [size : Sizes, signed : BOOLEAN]

\* unsigned_type{1} << shift, where the shift is n bytes
Power[n \in Nat] == IF n = 0 THEN 1 ELSE Base * Power[n - 1]

\* The values of a type
Lowest(T) == IF T.signed THEN -(Power[T.size] \div 2) ELSE 0
Highest(T) == IF T.signed THEN Power[T.size] \div 2 - 1 ELSE Power[T.size] - 1

\* reinterpret_cast between T and its unsigned type: two's complement
AsUnsigned(T, value) == value % Power[T.size]
AsType(T, n) == IF n > Highest(T) THEN n - Power[T.size] ELSE n

EncodeBigEndian(T, value) ==
    [i \in 1..T.size |-> (AsUnsigned(T, value) \div Power[T.size - i]) % Base]

\* The first byte is taken for the least significant one.
FaultyOr(bytes) ==
    LET size == Len(bytes)
        result[i \in 0..size] == IF i = 0 THEN 0 ELSE result[i - 1] + bytes[i] * Power[i - 1]
    IN  result[size]

\* result |= unsigned_type{n} << shift, for one byte after the other
Or(bytes) ==
    LET size == Len(bytes)
        result[i \in 0..size] == IF i = 0 THEN 0 ELSE result[i - 1] + bytes[i] * Power[size - i]
    IN  result[size]

DecodeBigEndian(T, bytes) ==
    IF Len(bytes) # T.size THEN [status |-> "kInvalidArgument"]
    ELSE [status |-> "kOk", value |-> AsType(T, Or(bytes))]

-----------------------------------------------------------------------------
NoBytes == [done |-> FALSE]

Init == codec = NoBytes

\* A value of some type is encoded, and its bytes are decoded as some type.
EncodeAndDecode(T, U) ==
    /\ ~codec.done
    /\ \E value \in Lowest(T)..Highest(T) :
          LET bytes == EncodeBigEndian(T, value)
          IN  codec' = [done |-> TRUE, from |-> T, value |-> value, bytes |-> bytes,
                        to |-> U, decoded |-> DecodeBigEndian(U, bytes)]

\* The client has used the result.
Used == codec.done /\ codec' = NoBytes

Next == Used \/ \E T, U \in IntegralType : EncodeAndDecode(T, U)

Spec == Init /\ [][Next]_codec

-----------------------------------------------------------------------------
\* Every value of every integral type survives the conversion to bytes and
\* back; a type of the same size and the other signedness gets the value modulo
\* 2^w, and a type of another size gets an error.  The most significant byte is
\* the first.
BytesRoundTrip ==
    codec.done =>
        /\ codec.value = 1 => codec.bytes = [i \in 1..codec.from.size |-> IF i = codec.from.size THEN 1 ELSE 0]
        /\ codec.decoded.status = "kOk" <=> codec.from.size = codec.to.size
        /\ codec.from.size = codec.to.size =>
              /\ codec.decoded.value \in Lowest(codec.to)..Highest(codec.to)
              /\ (codec.decoded.value - codec.value) % Power[codec.to.size] = 0
              /\ codec.from = codec.to => codec.decoded.value = codec.value
=============================================================================
