------------------------------ MODULE Requests ------------------------------
(***************************************************************************)
(* What the SDK sends: the members of each request, the local validation   *)
(* that accepts or rejects it, and the parameters that reach the wire.     *)
(* Six requests are modelled, sentence recognition, file recognition and   *)
(* the start of a stream, each in v2 and v3.  A request is a function from *)
(* its members to values: integers as they are, an optional as a sequence  *)
(* of at most one value, a list as a sequence, any text as "" or a name of *)
(* what it is.  A wire is a function from the parameters that are present. *)
(* v2 spells its parameters in CamelCase; here they have the members'      *)
(* names.                                                                  *)
(***************************************************************************)
EXTENDS Integers, Sequences, FiniteSets

Apis == {"sentence_v2", "sentence_v3", "create_v2", "create_v3",
         "stream_v2", "stream_v3"}
Streams == {"stream_v2", "stream_v3"}
V2 == {"sentence_v2", "create_v2", "stream_v2"}

(* kSourceTypeUrl and kSourceTypeData; kSpeakerDiarizationVoiceprint *)
Url == 0
Data == 1
Voiceprint == 3

(* Limits of validation; a noise threshold is in units of 1/10000. *)
MaxNoiseThreshold == 40000
MinVadSilenceTimeMs == 240
MaxVadSilenceTimeMs == 2000
MinMaxSpeakTime == 5000
MaxMaxSpeakTime == 90000

(* The empty string *)
NoText == ""

-----------------------------------------------------------------------------
(* The members, by type *)

SentenceStrings ==
    {"engine_model_type", "voice_format", "url", "hotword_id", "hotword_list",
     "customization_id", "language"}
CreateStrings ==
    {"engine_model_type", "url", "callback_url", "hotword_id", "hotword_list",
     "customization_id", "replace_text_id", "language"}
StreamStrings ==
    {"engine_model_type", "hotword_id", "hotword_list", "voice_id", "language",
     "speaker_context_id"}

Strings(api) ==
    CASE api \in {"sentence_v2", "sentence_v3"} -> SentenceStrings
      [] api = "create_v2" -> CreateStrings
      [] api = "create_v3" -> CreateStrings \cup {"extra"}
      [] api = "stream_v2" -> StreamStrings \cup {"customization_id", "replace_text_id"}
      [] api = "stream_v3" -> StreamStrings

Filters == {"filter_dirty", "filter_modal", "filter_punc", "convert_num_mode"}
Speakers == {"speaker_diarization", "speaker_number"}
StreamInts ==
    Filters \cup Speakers \cup
    {"voice_format", "need_vad", "word_info", "vad_silence_time",
     "max_speak_time", "input_sample_rate", "enable_speaker_context"}

Ints(api) ==
    CASE api = "sentence_v2" ->
           Filters \cup {"source_type", "data_len", "word_info", "input_sample_rate"}
      [] api = "sentence_v3" ->
           Filters \cup Speakers \cup
           {"source_type", "data_len", "word_info", "input_sample_rate"}
      [] api = "create_v2" ->
           Filters \cup Speakers \cup
           {"channel_num", "res_text_format", "source_type", "data_len", "vad_silence_ms"}
      [] api = "create_v3" ->
           Filters \cup Speakers \cup
           {"channel_num", "res_text_format", "source_type", "data_len",
            "vad_silence_ms", "sentence_max_length"}
      [] api = "stream_v2" -> StreamInts
      [] api = "stream_v3" -> StreamInts \cup {"word_with_space"}

Optionals(api) ==
    CASE api = "sentence_v2" -> {}
      [] api = "sentence_v3" -> {"needvad", "vad_silence_time"}
      [] api \in {"create_v2", "create_v3"} -> {"vad_level", "noise_threshold"}
      [] api \in Streams -> {"filter_empty_result", "vad_level", "noise_threshold"}

(* Lists, and data, the Base64 text of the audio. *)
Lists(api) ==
    CASE api \in {"sentence_v2", "sentence_v3"} -> {"data"}
      [] api = "create_v2" -> {"data", "speaker_roles", "voiceprint_ids"}
      [] api = "create_v3" ->
           {"data", "speaker_roles", "voiceprint_ids", "audio_urls", "keyword_lib_id_list"}
      [] api \in Streams -> {"speaker_roles", "voiceprint_ids"}

Members(api) == Strings(api) \cup Ints(api) \cup Optionals(api) \cup Lists(api)

(* The zero value of a member: 0, the empty string, nullopt, empty. *)
Zero(api, f) ==
    IF f \in Ints(api) THEN 0 ELSE IF f \in Strings(api) THEN NoText ELSE << >>

(* The member initializers that are not the zero value. *)
Default(api) ==
    [f \in Members(api) |->
        CASE api = "sentence_v3" /\ f = "source_type" -> Data
          [] api = "sentence_v3" /\ f = "voice_format" -> "pcm"
          [] api = "create_v3" /\ f \in {"channel_num", "res_text_format"} -> 1
          [] api = "create_v3" /\ f = "source_type" -> Data
          [] api \in Streams /\ f = "engine_model_type" -> "engine"
          [] api \in Streams /\ f \in {"voice_format", "need_vad", "convert_num_mode"} -> 1
          [] OTHER -> Zero(api, f)]

-----------------------------------------------------------------------------
(* Validation *)

(* ValidateEnrollmentURL of v2 wants an http or https URL with a host, v3 *)
(* only looks at the scheme.                                              *)
EnrollmentURLs(api) == IF api \in V2 THEN {"http"} ELSE {"http", "hostless"}

EnrollmentOK(api, r) ==
    /\ \A i \in DOMAIN r.speaker_roles :
          /\ r.speaker_roles[i].role_name # NoText
          /\ r.speaker_roles[i].audio_url \in EnrollmentURLs(api)
    /\ \A i \in DOMAIN r.voiceprint_ids : r.voiceprint_ids[i] # NoText

DiarizationOK(r) == r.speaker_diarization \in {0, 1, Voiceprint} /\ r.speaker_number >= 0

(* The fault: the enrollment does not need the voiceprint mode. *)
ValidateDiarizationAnyMode(api, r) == DiarizationOK(r) /\ EnrollmentOK(api, r)

ValidateSpeakerDiarization(api, r) ==
    /\ DiarizationOK(r)
    /\ \/ r.speaker_diarization = Voiceprint
       \/ r.speaker_roles = << >> /\ r.voiceprint_ids = << >>
    /\ EnrollmentOK(api, r)

ValidateSpeakerContext(mode, diarization) ==
    /\ mode \in 0..2
    /\ mode # 0 => diarization # 0

ValidateEnumOption(optional, allowed) ==
    \A i \in DOMAIN optional : optional[i] \in allowed

ValidateVadTuning(level, threshold) ==
    /\ ValidateEnumOption(level, {0, 1})
    /\ ValidateEnumOption(threshold, 0..MaxNoiseThreshold)

(* The fault: only the pieces themselves are looked at. *)
ValidateAudioURLsAlone(r) ==
    \A i \in DOMAIN r.audio_urls :
        r.audio_urls[i].index >= 0 /\ r.audio_urls[i].url = "http"

(* Distributed pieces exclude every other source and have different indices. *)
ValidateAudioURLs(r) ==
    /\ r.source_type = Url /\ r.url = NoText /\ r.data = << >>
    /\ \A i \in DOMAIN r.audio_urls :
          /\ r.audio_urls[i].index >= 0
          /\ r.audio_urls[i].url = "http"
          /\ \A j \in 1..(i - 1) : r.audio_urls[j].index # r.audio_urls[i].index

(* The audio that source_type names is there. *)
SourceGiven(r) ==
    /\ r.source_type = Url => r.url # NoText
    /\ r.source_type = Data => r.data # << >>

ValidateSentence(r) ==
    r.engine_model_type # NoText /\ r.voice_format # NoText /\ SourceGiven(r)

ValidateTranscribe(r) ==
    /\ ValidateSentence(r)
    /\ DiarizationOK(r)
    /\ ValidateEnumOption(r.needvad, {0, 1})
    /\ r.input_sample_rate \in {0, 8000}

ValidateCreateRequest(r) ==
    /\ r.engine_model_type # NoText /\ r.channel_num > 0
    /\ SourceGiven(r)
    /\ ValidateSpeakerDiarization("create_v2", r)
    /\ ValidateVadTuning(r.vad_level, r.noise_threshold)

ValidateCreateTranscription(r) ==
    /\ r.engine_model_type # NoText
    /\ r.channel_num \in {1, 2} /\ r.res_text_format \in 0..3
    /\ r.channel_num = 2 => r.speaker_diarization = 0
    /\ IF r.audio_urls # << >> THEN ValidateAudioURLs(r) ELSE SourceGiven(r)
    /\ ValidateSpeakerDiarization("create_v3", r)
    /\ ValidateVadTuning(r.vad_level, r.noise_threshold)

(* ValidateOptions of v2, and what v3 has in common with it. *)
ValidateOptions(api, r) ==
    /\ ValidateSpeakerDiarization(api, r)
    /\ ValidateVadTuning(r.vad_level, r.noise_threshold)
    /\ ValidateSpeakerContext(r.enable_speaker_context, r.speaker_diarization)
    /\ ValidateEnumOption(r.filter_empty_result, {0, 1})
    /\ r.input_sample_rate \in {0, 8000}

ValidateOptionsV3(r) ==
    /\ ValidateOptions("stream_v3", r)
    /\ r.voice_id # "long"
    /\ r.max_speak_time \in {0} \cup MinMaxSpeakTime..MaxMaxSpeakTime
    /\ r.need_vad = 1 =>
          r.vad_silence_time \in {0} \cup MinVadSilenceTimeMs..MaxVadSilenceTimeMs
    /\ r.need_vad \in {0, 1} /\ r.word_with_space \in {0, 1} /\ r.filter_punc \in {0, 1}
    /\ r.convert_num_mode \in {0, 1, 3} /\ r.filter_dirty \in 0..2
    /\ r.filter_modal \in 0..2 /\ r.word_info \in {0, 1, 2, 100}
    /\ r.voice_format \in {1, 4, 6, 8, 10, 11, 12, 14, 16}

Validate(api, r) ==
    CASE api = "sentence_v2" -> ValidateSentence(r)
      [] api = "sentence_v3" -> ValidateTranscribe(r)
      [] api = "create_v2" -> ValidateCreateRequest(r)
      [] api = "create_v3" -> ValidateCreateTranscription(r)
      [] api = "stream_v2" -> ValidateOptions("stream_v2", r)
      [] api = "stream_v3" -> ValidateOptionsV3(r)

(* The v3 start frame, which carries the hotwords, has a size limit. *)
FrameTooLong(api, r) == api = "stream_v3" /\ r.hotword_list = "huge"

-----------------------------------------------------------------------------
(* Serialization: the parameters that are sent *)

(* The fault: a zero in an optional is taken for "not configured". *)
PresentUnlessZero(api, r, S) ==
    {f \in S : IF f \in Optionals(api) THEN r[f] \notin {<< >>, <<0>>}
                                       ELSE r[f] # Zero(api, f)}

(* omitempty and has_value: those of S that are not at their zero value. *)
Present(api, r, S) == {f \in S : r[f] # Zero(api, f)}

(* The speaker count goes with the mode, the enrollment with the voiceprint *)
(* mode, the context id with the context.                                   *)
DiarizationSent(api, r) ==
    IF r.speaker_diarization = 0 THEN {}
    ELSE {"speaker_diarization"} \cup Present(api, r, {"speaker_number"})
EnrollmentSent(api, r) ==
    IF r.speaker_diarization # Voiceprint THEN {}
    ELSE Present(api, r, {"speaker_roles", "voiceprint_ids"})
ContextSent(api, r) ==
    IF r.enable_speaker_context = 0 THEN {}
    ELSE {"enable_speaker_context"} \cup Present(api, r, {"speaker_context_id"})

SerializeSentence(r) ==
    {"engine_model_type", "source_type", "voice_format"} \cup
    Present("sentence_v2", r,
        {"url", "data", "data_len", "word_info", "filter_dirty", "filter_modal",
         "filter_punc", "convert_num_mode", "hotword_id", "hotword_list",
         "customization_id", "input_sample_rate", "language"})

TranscribeRequestToWire(r) ==
    {"engine_model_type", "source_type", "voice_format"} \cup
    (IF r.source_type = Url THEN {"url"} ELSE {"data", "data_len"}) \cup
    Present("sentence_v3", r,
        {"word_info", "filter_dirty", "filter_modal", "filter_punc",
         "convert_num_mode", "hotword_id", "customization_id", "hotword_list",
         "input_sample_rate", "needvad", "vad_silence_time", "language"}) \cup
    DiarizationSent("sentence_v3", r)

SerializeCreate(r) ==
    {"engine_model_type", "channel_num", "res_text_format", "source_type"} \cup
    Present("create_v2", r,
        {"url", "data", "data_len", "callback_url", "filter_dirty", "filter_modal",
         "filter_punc", "convert_num_mode", "hotword_id", "hotword_list",
         "customization_id", "replace_text_id", "language", "speaker_diarization",
         "speaker_number", "speaker_roles", "voiceprint_ids", "vad_silence_ms",
         "vad_level", "noise_threshold"})

(* The source that source_type names, unless there are audio_urls. *)
CreateTranscriptionRequestToWire(r) ==
    {"engine_model_type", "channel_num", "res_text_format", "source_type"} \cup
    (IF r.source_type = Url /\ r.url # NoText THEN {"url"}
     ELSE IF r.source_type = Data /\ r.data # << >> THEN {"data", "data_len"}
     ELSE {}) \cup
    Present("create_v3", r,
        {"audio_urls", "callback_url", "hotword_id", "customization_id",
         "hotword_list", "keyword_lib_id_list", "replace_text_id",
         "convert_num_mode", "filter_dirty", "filter_punc", "filter_modal",
         "sentence_max_length", "extra", "vad_silence_ms", "vad_level",
         "noise_threshold", "language"}) \cup
    DiarizationSent("create_v3", r) \cup EnrollmentSent("create_v3", r)

(* Connect copies the options into SignatureParams, whose ToMap writes the *)
(* query; of an integer that is 0 nothing is sent but the VAD switch.      *)
ToMap(r) ==
    {"engine_model_type", "voice_id", "voice_format", "need_vad"} \cup
    Present("stream_v2", r,
        {"hotword_id", "hotword_list", "customization_id", "replace_text_id",
         "filter_dirty", "filter_modal", "filter_punc", "filter_empty_result",
         "convert_num_mode", "word_info", "vad_silence_time", "max_speak_time",
         "input_sample_rate", "vad_level", "noise_threshold", "language"}) \cup
    ContextSent("stream_v2", r) \cup DiarizationSent("stream_v2", r) \cup
    EnrollmentSent("stream_v2", r)

StartFrame(r) ==
    {"voice_id", "engine_model_type", "voice_format", "need_vad",
     "convert_num_mode"} \cup
    Present("stream_v3", r,
        {"language", "hotword_id", "hotword_list", "filter_dirty", "filter_modal",
         "filter_punc", "filter_empty_result", "word_info", "word_with_space",
         "vad_silence_time", "vad_level", "noise_threshold", "max_speak_time",
         "input_sample_rate"}) \cup
    DiarizationSent("stream_v3", r) \cup EnrollmentSent("stream_v3", r) \cup
    ContextSent("stream_v3", r)

Sent(api, r) ==
    CASE api = "sentence_v2" -> SerializeSentence(r)
      [] api = "sentence_v3" -> TranscribeRequestToWire(r)
      [] api = "create_v2" -> SerializeCreate(r)
      [] api = "create_v3" -> CreateTranscriptionRequestToWire(r)
      [] api = "stream_v2" -> ToMap(r)
      [] api = "stream_v3" -> StartFrame(r)

(* "%.3f" of a threshold in 1/10000. *)
Thousandths(v) == 10 * ((v + 5) \div 10)

(* The keys of an item of audio_urls as CreateTranscriptionRequestToWire    *)
(* writes them; a label only if there is one.                               *)
AudioURLItemToWire(item) ==
    [k \in {"index", "req.url"} \cup (IF item.label # NoText THEN {"label"} ELSE {}) |->
        CASE k = "index" -> item.index [] k = "req.url" -> item.url
          [] k = "label" -> item.label]

WireValue(api, r, f) ==
    CASE api = "stream_v2" /\ f = "noise_threshold" ->
           [i \in DOMAIN r[f] |-> Thousandths(r[f][i])]
      [] f = "audio_urls" -> [i \in DOMAIN r[f] |-> AudioURLItemToWire(r[f][i])]
      [] OTHER -> r[f]

ToWire(api, r) == [f \in Sent(api, r) |-> WireValue(api, r, f)]

(* The texts that are put into JSON: all that are sent, but of a v2 stream    *)
(* only the enrollment, since its query takes the other texts as they are.    *)
JsonTexts(api, r) ==
    LET S == Sent(api, r)
        items(f) == IF f \in S THEN {r[f][i] : i \in DOMAIN r[f]} ELSE {}
    IN  {r[f] : f \in IF api = "stream_v2" THEN {} ELSE S \cap Strings(api)} \cup
        items("voiceprint_ids") \cup items("keyword_lib_id_list") \cup
        UNION {{role.role_name, role.audio_url} : role \in items("speaker_roles")} \cup
        UNION {{piece.url, piece.label} : piece \in items("audio_urls")}
=============================================================================
