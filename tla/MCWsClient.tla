----------------------------- MODULE MCWsClient -----------------------------
(* Small instances of WsClient for TLC. *)
EXTENDS WsClient

Frame(opcode, mask, len) == [opcode |-> opcode, mask |-> mask, len |-> len]

(* A ping without a rest, a pong, a message and a frame beyond the length *)
(* bound: every form of the length, at its boundaries.                    *)
MCKinds ==
    {Frame(9, 0, 0), Frame(10, 128, 126), Frame(1, 0, 67108864),
     Frame(1, 0, 67108865)}

(* A rest of no byte, one byte or two, told apart by the length; of a frame  *)
(* beyond the bound nothing is read.                                         *)
MCRest(mask, len) ==
    IF len < 126 THEN 0 ELSE IF len \in 256..SanityBound THEN 2 ELSE 1
=============================================================================
