--------------------------- MODULE MCRequestCalls ---------------------------
(* Small instances of RequestCalls for TLC. *)
EXTENDS RequestCalls

Role(name, url) == [role_name |-> name, audio_url |-> url]
Piece(index, url, label) == [index |-> index, url |-> url, label |-> label]

(* Legal values and, where validation looks, illegal ones. *)
IntValues(api0, f) ==
    CASE f = "source_type" -> {0, 1, 2}
      [] f = "channel_num" -> {0, 1, 2}
      [] f = "res_text_format" -> {0, 4}
      [] f = "speaker_diarization" -> {0, 1, 2, 3}
      [] f = "speaker_number" -> {-1, 2}
      [] f = "enable_speaker_context" -> {1, 3}
      [] f = "input_sample_rate" -> {8000, 16000}
      [] f = "need_vad" -> {0, 2}
      [] f = "convert_num_mode" -> {0, 3}
      [] f = "vad_silence_time" -> {100, 500}
      [] f = "max_speak_time" -> {100, 6000}
      [] f = "voice_format" -> {4, 5}
      [] OTHER -> {2}

ListValues(f) ==
    CASE f = "data" -> {Base64Encode(<<7>>)}
      [] f = "speaker_roles" ->
           {<<Role("host", "http")>>, <<Role("latin", "http")>>, <<Role("host", "http"), Role("", "http")>>,
            <<Role("host", "hostless")>>}
      [] f = "voiceprint_ids" -> {<<"id">>, <<"id", "">>}
      [] f = "audio_urls" ->
           {<<Piece(0, "http", "a"), Piece(1, "http", "")>>,
            <<Piece(0, "http", ""), Piece(0, "http", "")>>, <<Piece(-1, "http", "")>>,
            <<Piece(2, "ftp", "")>>}
      [] f = "keyword_lib_id_list" -> {<<"lib">>}

StringValues(api0, f) ==
    CASE f = "engine_model_type" -> IF api0 \in Streams THEN {} ELSE {"engine"}
      [] f = "url" -> {"http"}
      [] f = "hotword_list" -> IF api0 = "stream_v3" THEN {"words", "huge"} ELSE {"words"}
      [] f = "voice_id" -> {"id", "long"}
      [] f = "speaker_context_id" -> {"id", "padded", "blank"}
      [] f = "language" -> IF api0 \in Streams THEN {"latin"} ELSE {"text", "latin"}
      [] OTHER -> {"text"}

MCValues(api0, f) ==
    IF f \in Ints(api0) THEN IntValues(api0, f)
    ELSE IF f \in Strings(api0) THEN StringValues(api0, f)
    ELSE IF f = "noise_threshold" THEN {<<0>>, <<4>>, <<40000>>, <<40001>>}
    ELSE IF f \in Optionals(api0) THEN {<<0>>, <<2>>}
    ELSE ListValues(f)

(* Nothing, one and three bytes, and more than the limit of three. *)
MCRawData == {<< >>, <<251>>, <<97, 0, 255>>, <<1, 2, 3, 4>>}

(* A stream has no answers to multiply its states with. *)
MCMaxEdits(api0) == IF api0 \in Streams THEN 3 ELSE 2

(* Texts with characters that a query must escape: & = + % space, the bytes *)
(* of a UTF-8 character, and one that is not UTF-8.                         *)
MCNotUTF8 == {"latin"}
MCText(v) ==
    CASE v = "words" -> <<97, 38, 61, 124, 49, 49>>
      [] v = "id" -> <<43, 37, 50, 66>>
      [] v = "text" -> <<228, 184, 173, 32, 95>>
      [] v = "latin" -> <<228, 95>>
      [] OTHER -> <<101, 45, 49>>

(* Five bytes whose Base64 has both special characters and padding. *)
MCTicket == <<251, 239, 255, 0, 63>>
=============================================================================
