------------------------- MODULE MCSpeechRecognizer -------------------------
(* Small instances of SpeechRecognizer for TLC. *)
EXTENDS SpeechRecognizer, TLC

Text(code, final, has_result, slice) ==
    [opcode |-> "text", parses |-> TRUE, code |-> code, final_flag |-> final,
     has_result |-> has_result, slice_type |-> slice]
Raw(opcode) ==
    [opcode |-> opcode, parses |-> FALSE, code |-> 0, final_flag |-> 0,
     has_result |-> FALSE, slice_type |-> 0]

(* One frame of every kind the reader tells apart; the error is flagged as *)
(* the final response too, since the code is looked at first.              *)
MCAllFrames ==
    {Text(0, 0, FALSE, 0), Text(0, 0, TRUE, 1), Text(0, 0, TRUE, 3),
     Text(4001, 1, TRUE, 2),
     Text(0, 1, TRUE, 0), Text(0, 1, TRUE, 2),
     Raw("text"), Raw("close"), Raw("other")}

(* An event, a final response with a sentence end and an error. *)
MCLiveFrames ==
    {Text(0, 0, TRUE, 1), Text(0, 1, TRUE, 2), Text(4001, 0, FALSE, 0)}

MCSymmetry == Permutations(Callers)
=============================================================================
