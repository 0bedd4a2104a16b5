------------------------ MODULE MCSpeechRecognizerV3 ------------------------
(* Small instances of SpeechRecognizerV3 for TLC. *)
EXTENDS SpeechRecognizerV3

Text(code, final, slice) ==
    [opcode |-> "text", parses |-> TRUE, code |-> code, final_flag |-> final,
     has_result |-> TRUE, slice_type |-> slice]

(* An event and a final response with a sentence end. *)
MCLiveFrames == {Text(0, 0, 1), Text(0, 1, 2)}

(* The final response with a sentence end alone. *)
MCFinalFrame == {Text(0, 1, 2)}
=============================================================================
