------------------------------ MODULE DataUtil ------------------------------
(***************************************************************************)
(* DataUtil: values written one after the other into a byte array, each at *)
(* the index the write before it returned, and read back the same way      *)
(* (index, &index), as NetPackageHeader::Pack and Unpack and the packages  *)
(* of NetServer do.  A byte has Base values, so that an integer of width w *)
(* has Power[w]; the widths stand for the code's 2, 4 and 8 bytes.  The    *)
(* array holds whatever was in it before.                                  *)
(***************************************************************************)
EXTENDS Integers, Sequences, FiniteSets

CONSTANTS
    Base,       \* values of a byte
    LengthWidth, \* width of the length in front of a string
    Fields,     \* the values written: [kind, n, value]
    Size,       \* bytes in the array
    MaxFields   \* bound: values in one array

Bytes == 0 .. Base - 1

\* Base^k: how far byte k of an integer is shifted.
Power[k \in Nat] == IF k = 0 THEN 1 ELSE Base * Power[k - 1]

\* A value of the C++ type its kind and width stand for; a length is a signed integer.
IsValue(f) ==
    \/ f.kind = "uint" /\ f.value \in 0 .. Power[f.n] - 1
    \/ f.kind = "int" /\ f.value \in (Power[f.n] \div 2) - Power[f.n] .. (Power[f.n] \div 2) - 1
    \/ f.kind \in {"float", "double"} /\ f.value \in [1 .. f.n -> Bytes]
    \/ /\ f.kind = "string" /\ f.value \in Seq(Bytes)
       /\ f.n = 0 => Len(f.value) + 1 < Power[LengthWidth] \div 2

ASSUME DataAssumption ==
    /\ Base \in Nat /\ Base > 1 /\ LengthWidth \in Nat /\ Size \in Nat /\ MaxFields \in Nat
    /\ \A f \in Fields : f.n \in Nat /\ IsValue(f)

VARIABLES
    src,     \* the array
    index,   \* where the writer is
    fields,  \* what it has written
    next,    \* where the reader is
    received      \* what it has read

dataVars == << src, index, fields, next, received >>

DataInit ==
    /\ src \in {[i \in 1 .. Size |-> b] : b \in {0, Base - 1}}
    /\ index = 0 /\ next = 0
    /\ fields = << >> /\ received = << >>
-----------------------------------------------------------------------------
\* The array with the bytes put at (zero-based) index i.
Put(i, bytes) ==
    [j \in 1 .. Size |-> IF j - i \in DOMAIN bytes THEN bytes[j - i] ELSE src[j]]

Take(i, n) == SubSeq(src, i + 1, i + n)

\* Mutant of WriteUInt: the highest byte is written first.
WriteUIntBig(w, value) == [i \in 1 .. w |-> (value \div Power[w - i]) % Base]

\* WriteUInt64, 32, 16: the lowest byte first.  A cast gives a negative value its modulus.
WriteUInt(w, value) == [i \in 1 .. w |-> (value \div Power[i - 1]) % Base]

ReadUInt(bytes) ==
    LET sum[i \in 0 .. Len(bytes)] == IF i = 0 THEN 0 ELSE sum[i - 1] + bytes[i] * Power[i - 1]
    IN  sum[Len(bytes)]

\* The cast of ReadUInt's value to a signed type of the same width.
ReadInt(bytes) ==
    IF ReadUInt(bytes) >= Power[Len(bytes)] \div 2 THEN ReadUInt(bytes) - Power[Len(bytes)]
    ELSE ReadUInt(bytes)

\* The text at the beginning of s, up to a NUL and at most n bytes: strcpy, strnlen.
Upto(s, n) ==
    SubSeq(s, 1, Cardinality({k \in 1 .. Len(s) : \A i \in 1 .. k : s[i] # 0 /\ i <= n}))

\* WriteString with n = 0: the length, and the text with its NUL.
LengthAndText(s) == WriteUInt(LengthWidth, Len(s) + 1) \o Upto(s, Len(s)) \o << 0 >>

\* WriteString with n > 0: n bytes of text, filled with zeros.
Padded(s, n) == [i \in 1 .. n |-> IF i <= Len(s) THEN s[i] ELSE 0]

Encoded(f) ==
    CASE f.kind \in {"uint", "int"} -> WriteUInt(f.n, f.value % Power[f.n])
      [] f.kind \in {"float", "double"} -> f.value
      [] f.kind = "string" -> IF f.n = 0 THEN LengthAndText(f.value) ELSE Padded(f.value, f.n)

\* How far a write takes the index.
Width(f) == IF f.kind = "string" /\ f.n = 0 THEN LengthWidth + Len(f.value) + 1 ELSE f.n

\* WriteDouble copies to the beginning of the array, whatever the index.
Place(f) == IF f.kind = "double" THEN 0 ELSE index

Write(f) ==
    /\ received = << >>
    /\ Len(fields) < MaxFields
    /\ index + Width(f) <= Size
    /\ src' = Put(Place(f), Encoded(f))
    /\ index' = index + Width(f)
    /\ fields' = Append(fields, f)
    /\ UNCHANGED << next, received >>

\* ReadString: the length comes from the array or from the caller.
StringLength(f) == IF f.n = 0 THEN ReadInt(Take(next, LengthWidth)) ELSE f.n

StringAt(f) == IF f.n = 0 THEN next + LengthWidth ELSE next

\* A damaged length may lead out of the array; what happens there is left open.
InArray(f) == next >= 0 /\ next + Width(f) <= Size

Read ==
    LET f == fields[Len(received) + 1]
    IN  /\ Len(received) < Len(fields)
        /\ InArray(f)
        /\ received' = Append(received, CASE f.kind = "uint" -> ReadUInt(Take(next, f.n))
                                [] f.kind = "int" -> ReadInt(Take(next, f.n))
                                [] f.kind \in {"float", "double"} -> Take(next, f.n)
                                [] f.kind = "string" -> Upto(SubSeq(src, StringAt(f) + 1, Size), StringLength(f)))
        /\ next' = IF f.kind = "string" THEN StringAt(f) + StringLength(f) ELSE next + f.n
        /\ UNCHANGED << src, index, fields >>

DataNext ==
    \/ \E f \in Fields : Write(f)
    \/ Read
    \/ UNCHANGED dataVars

DataSpec == DataInit /\ [][DataNext]_dataVars
-----------------------------------------------------------------------------
\* What is left of a value by its type: text ends at a NUL and at n bytes.
Meaning(f) ==
    IF f.kind # "string" THEN f.value
    ELSE Upto(f.value, IF f.n = 0 THEN Len(f.value) ELSE f.n)

(***************************************************************************)
(* Whatever is written is read back, in order, whatever the array held     *)
(* before and whatever stands next to it: the reader stays in step with    *)
(* the writer.  The exception is a double anywhere but at the beginning of *)
(* the array.                                                              *)
(***************************************************************************)
ReadBack ==
    (\A i \in 2 .. Len(fields) : fields[i].kind # "double") =>
        /\ \A i \in DOMAIN received : received[i] = Meaning(fields[i])
        /\ received # << >> /\ Len(received) = Len(fields) => next = index
=============================================================================
