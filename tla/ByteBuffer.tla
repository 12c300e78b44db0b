---------------------------- MODULE ByteBuffer ----------------------------
(***************************************************************************)
(* common/Util/ByteBuffer: a fixed array of m_Size bytes of which the      *)
(* first m_Length are data.  The value of a buffer is the sequence of its  *)
(* m_Length data bytes; what lies beyond m_Length is never read by a       *)
(* caller and is left out.                                                 *)
(*                                                                         *)
(* RemoveData closes the gap with a memcpy whose source and destination    *)
(* overlap whenever more bytes stay than go.  The C standard leaves that   *)
(* undefined; what a build does depends on the direction in which its libc *)
(* copies.  The direction is a parameter, so that a specification can say  *)
(* which libc it is about.                                                 *)
(***************************************************************************)
EXTENDS Integers, Sequences

\* The directions in which a libc's memcpy may walk over its bytes.
CopyOrders == {"ascending", "descending"}

Fits(buf, len, size) == Len(buf) + len <= size

\* Mutants of AddData: no bounds check; as much as fits is copied.
AddDataUnchecked(buf, data, size) == buf \o data
AddDataTruncating(buf, data, size) ==
    IF Fits(buf, Len(data), size) THEN buf \o data
    ELSE buf \o SubSeq(data, 1, size - Len(buf))

AddData(buf, data, size) == IF Fits(buf, Len(data), size) THEN buf \o data ELSE buf

GetData(buf, index, len) == SubSeq(buf, index + 1, index + len)

(***************************************************************************)
(* memcpy(m_pData, m_pData + len, n).  Ascending, every byte is read       *)
(* before the walk overwrites it.  Descending, a source byte among the     *)
(* first n has been overwritten by the time it is read, so what arrives at *)
(* position i is the byte of the last len positions that lies a multiple   *)
(* of len after i.                                                         *)
(***************************************************************************)
MoveBack(buf, len, order) ==
    LET n == Len(buf) - len
    IN  IF order = "ascending"
        THEN SubSeq(buf, len + 1, Len(buf))
        ELSE [i \in 1 .. n |-> buf[n + 1 + ((i - n - 1) % len)]]

RemoveData(buf, len, order) ==
    IF Len(buf) - len > 0 THEN MoveBack(buf, len, order) ELSE << >>
===========================================================================
