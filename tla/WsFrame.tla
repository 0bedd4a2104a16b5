------------------------------ MODULE WsFrame -------------------------------
(***************************************************************************)
(* The bytes of a WebSocket frame: EncodeWsFrame writes the header, the    *)
(* mask key and the masked payload, Read takes them apart again.  A byte   *)
(* of the header is a number, and a flag of it the value of its bit.  A    *)
(* byte of the key or of the payload is the set of its bits, so that ^ is  *)
(* the symmetric difference.                                               *)
(***************************************************************************)
EXTENDS Integers, Sequences

Bits == 0..7
SanityBound == 67108864     \* 64 * 1024 * 1024

(* x >> 8, x & 0xFF *)
Shr8(x) == x \div 256
Low8(x) == x % 256

(* A length that fits the eight bytes of the longest form, as a uint64_t. *)
Fits64(len) ==
    Shr8(Shr8(Shr8(Shr8(Shr8(Shr8(Shr8(len))))))) < 256

-----------------------------------------------------------------------------
(* EncodeWsFrame *)

(* The eight bytes of len, most significant first. *)
Ext64(len) ==
    LET s1 == Shr8(len)   s2 == Shr8(s1)   s3 == Shr8(s2)   s4 == Shr8(s3)
        s5 == Shr8(s4)    s6 == Shr8(s5)   s7 == Shr8(s6)
    IN  << Low8(s7), Low8(s6), Low8(s5), Low8(s4),
           Low8(s3), Low8(s2), Low8(s1), Low8(len) >>

(* The header, with the seven-bit, the 16-bit or the 64-bit form of the *)
(* length; mask is the mask bit, 0 or 128.                              *)
EncodeHeader(opcode, len, mask) ==
    IF len < 126 THEN << 128 + opcode, mask + len >>
    ELSE IF len <= 65535
      THEN << 128 + opcode, mask + 126, Low8(Shr8(len)), Low8(len) >>
      ELSE << 128 + opcode, mask + 127 >> \o Ext64(len)

(* payload[i] ^ key[i % 4] *)
Xor(a, b) == (a \ b) \cup (b \ a)
MaskPayload(payload, key) ==
    [i \in 1..Len(payload) |-> Xor(payload[i], key[((i - 1) % 4) + 1])]

-----------------------------------------------------------------------------
(* Read *)

(* How many bytes of extended length the second byte announces. *)
ExtSize(second) ==
    IF second % 128 = 126 THEN 2 ELSE IF second % 128 = 127 THEN 8 ELSE 0

(* The fault: the two bytes are taken in the order of a little-endian machine. *)
Value16Swapped(w) == 256 * w[4] + w[3]

(* The length in the header w. *)
Value16(w) == 256 * w[3] + w[4]
Value64(w) ==
    LET v2 == Value16(w)          v3 == 256 * v2 + w[5]   v4 == 256 * v3 + w[6]
        v5 == 256 * v4 + w[7]     v6 == 256 * v5 + w[8]   v7 == 256 * v6 + w[9]
    IN  256 * v7 + w[10]
HeaderLength(w) ==
    IF ExtSize(w[2]) = 0 THEN w[2] % 128
    ELSE IF ExtSize(w[2]) = 2 THEN Value16(w) ELSE Value64(w)

(* What Read makes of a header: its fields and the bytes it took of it. *)
DecodeHeader(w) ==
    [fin |-> 128 * (w[1] \div 128), opcode |-> w[1] % 16,
     mask |-> 128 * (w[2] \div 128), len |-> HeaderLength(w),
     taken |-> 2 + ExtSize(w[2])]

(* payload[i] ^= mask_key[i % 4] *)
UnmaskPayload(payload, key) ==
    [i \in 1..Len(payload) |-> Xor(payload[i], key[((i - 1) % 4) + 1])]
=============================================================================
