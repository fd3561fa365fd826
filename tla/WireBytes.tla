------------------------------ MODULE WireBytes ------------------------------
(***************************************************************************)
(* Bytes and unsigned integers as the wire formats of the workspace see    *)
(* them.  An integer of n bytes is written by place value: it is the       *)
(* function w with w[i] the coefficient of 256^i.  TLC's own integers have *)
(* 32 bits, a u64 field does not fit them, and every conversion the codecs *)
(* make is a statement about places.  Lengths and counts, all below 2^16,  *)
(* are plain numbers.                                                      *)
(***************************************************************************)
EXTENDS Integers, Sequences

CONSTANT
    MAX_MESSAGE_LEN     \* the cap each framing crate puts on one message: 1024

ASSUME CapAssumption == MAX_MESSAGE_LEN \in 1..(65535 - 2)

Byte == 0..255

Word(n) == [0..(n - 1) -> Byte]

Bytes(n) == [1..n -> Byte]

\* Big-endian order: the first byte is the highest place.
to_be_bytes(w, n) == [k \in 1..n |-> w[n - k]]

from_be_bytes(s) == [i \in 0..(Len(s) - 1) |-> s[Len(s) - i]]

\* A u48 is a u64 in memory: its six low places go on the wire, and come back
\* under two zero places.
write_u48(w) == SubSeq(to_be_bytes(w, 8), 3, 8)

read_u48(s) == from_be_bytes(<<0, 0>> \o s)

\* Lengths and counts.
u16_bytes(n) == <<n \div 256, n % 256>>

u16_of(s) == 256 * s[1] + s[2]

\* The n bytes of buf from offset off.
slice_n(buf, off, n) == SubSeq(buf, off + 1, off + n)

\* The ASCII byte of every character the formats give a meaning to.
LOCAL Letters == <<"A", "B", "C", "D", "E", "F", "G", "H", "I", "J", "K", "L", "M",
                   "N", "O", "P", "Q", "R", "S", "T", "U", "V", "W", "X", "Y", "Z">>
LOCAL Digits == <<"0", "1", "2", "3", "4", "5", "6", "7", "8", "9">>

Space == 32

Ascii ==
    [c \in {Letters[i] : i \in 1..26} \cup {Digits[i] : i \in 1..10} \cup {" ", "+"} |->
        CASE c = " " -> Space
          [] c = "+" -> 43
          [] \E i \in 1..26 : Letters[i] = c -> 64 + (CHOOSE i \in 1..26 : Letters[i] = c)
          [] OTHER -> 47 + (CHOOSE i \in 1..10 : Digits[i] = c)]

\* The outcome of a fallible conversion: Rust's Result.
Ok(v) == [ok |-> TRUE, val |-> v]

Err(e) == [ok |-> FALSE, err |-> e]
=============================================================================
