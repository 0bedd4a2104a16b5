------------------------- MODULE RequestCallsProofs -------------------------
(***************************************************************************)
(* The proofs about RequestCalls, for every set of values an application   *)
(* may assign, every audio, every text and every number of calls.          *)
(*                                                                         *)
(* CallInv is inductive: an assignment of a value of the right type leaves *)
(* a request, and what a call sends was validated.  Each property is then  *)
(* a consequence of CallInv, request by request, with the round trips of   *)
(* EncodingProofs for the audio and the query; only NoFalseSuccess, which  *)
(* is about the answer, is an induction of its own.                        *)
(***************************************************************************)
EXTENDS RequestCalls, EncodingProofs, FiniteSetTheorems

-----------------------------------------------------------------------------
(* The cases of the operators of Requests, one line for each request. *)

LEMMA StringsOf ==
  /\ Strings("sentence_v2") = SentenceStrings
  /\ Strings("sentence_v3") = SentenceStrings
  /\ Strings("create_v2") = CreateStrings
  /\ Strings("create_v3") = CreateStrings \cup {"extra"}
  /\ Strings("stream_v2") = StreamStrings \cup {"customization_id", "replace_text_id"}
  /\ Strings("stream_v3") = StreamStrings
  BY Zenon DEF Strings

LEMMA IntsOf ==
  /\ Ints("sentence_v2") =
       Filters \cup {"source_type", "data_len", "word_info", "input_sample_rate"}
  /\ Ints("sentence_v3") =
       Filters \cup Speakers \cup
       {"source_type", "data_len", "word_info", "input_sample_rate"}
  /\ Ints("create_v2") =
       Filters \cup Speakers \cup
       {"channel_num", "res_text_format", "source_type", "data_len", "vad_silence_ms"}
  /\ Ints("create_v3") =
       Filters \cup Speakers \cup
       {"channel_num", "res_text_format", "source_type", "data_len",
        "vad_silence_ms", "sentence_max_length"}
  /\ Ints("stream_v2") = StreamInts
  /\ Ints("stream_v3") = StreamInts \cup {"word_with_space"}
  BY Zenon DEF Ints

LEMMA OptionalsOf ==
  /\ Optionals("sentence_v2") = {}
  /\ Optionals("sentence_v3") = {"needvad", "vad_silence_time"}
  /\ Optionals("create_v2") = {"vad_level", "noise_threshold"}
  /\ Optionals("create_v3") = {"vad_level", "noise_threshold"}
  /\ Optionals("stream_v2") = {"filter_empty_result", "vad_level", "noise_threshold"}
  /\ Optionals("stream_v3") = {"filter_empty_result", "vad_level", "noise_threshold"}
  BY Zenon DEF Optionals, Streams

LEMMA ListsOf ==
  /\ Lists("sentence_v2") = {"data"}
  /\ Lists("sentence_v3") = {"data"}
  /\ Lists("create_v2") = {"data", "speaker_roles", "voiceprint_ids"}
  /\ Lists("create_v3") =
       {"data", "speaker_roles", "voiceprint_ids", "audio_urls", "keyword_lib_id_list"}
  /\ Lists("stream_v2") = {"speaker_roles", "voiceprint_ids"}
  /\ Lists("stream_v3") = {"speaker_roles", "voiceprint_ids"}
  BY Zenon DEF Lists, Streams

LEMMA ValidateOf ==
  ASSUME NEW r
  PROVE  /\ Validate("sentence_v2", r) = ValidateSentence(r)
         /\ Validate("sentence_v3", r) = ValidateTranscribe(r)
         /\ Validate("create_v2", r) = ValidateCreateRequest(r)
         /\ Validate("create_v3", r) = ValidateCreateTranscription(r)
         /\ Validate("stream_v2", r) = ValidateOptions("stream_v2", r)
         /\ Validate("stream_v3", r) = ValidateOptionsV3(r)
  BY Zenon DEF Validate

LEMMA SentOf ==
  ASSUME NEW r
  PROVE  /\ Sent("sentence_v2", r) = SerializeSentence(r)
         /\ Sent("sentence_v3", r) = TranscribeRequestToWire(r)
         /\ Sent("create_v2", r) = SerializeCreate(r)
         /\ Sent("create_v3", r) = CreateTranscriptionRequestToWire(r)
         /\ Sent("stream_v2", r) = ToMap(r)
         /\ Sent("stream_v3", r) = StartFrame(r)
  BY Zenon DEF Sent

LEMMA WireOf ==
  ASSUME NEW a, NEW r
  PROVE  /\ DOMAIN ToWire(a, r) = Sent(a, r)
         /\ \A f \in Sent(a, r) : ToWire(a, r)[f] = WireValue(a, r, f)
  BY DEF ToWire

LEMMA MembersOf ==
  ASSUME NEW a
  PROVE  /\ Strings(a) \subseteq Members(a) /\ Ints(a) \subseteq Members(a)
         /\ Optionals(a) \subseteq Members(a) /\ Lists(a) \subseteq Members(a)
  BY DEF Members

(* A member has one type. *)
LEMMA OneType ==
  ASSUME NEW a \in Apis, NEW f
  PROVE  /\ f \in Ints(a) => f \notin Strings(a)
         /\ f \in Optionals(a) \cup Lists(a) => f \notin Strings(a) /\ f \notin Ints(a)
  <1> USE DEF SentenceStrings, CreateStrings, StreamStrings, Filters, Speakers, StreamInts
  <1>1. CASE a = "sentence_v2"
    BY <1>1, StringsOf, IntsOf, OptionalsOf, ListsOf
  <1>2. CASE a = "sentence_v3"
    BY <1>2, StringsOf, IntsOf, OptionalsOf, ListsOf
  <1>3. CASE a = "create_v2"
    BY <1>3, StringsOf, IntsOf, OptionalsOf, ListsOf
  <1>4. CASE a = "create_v3"
    BY <1>4, StringsOf, IntsOf, OptionalsOf, ListsOf
  <1>5. CASE a = "stream_v2"
    BY <1>5, StringsOf, IntsOf, OptionalsOf, ListsOf
  <1>6. CASE a = "stream_v3"
    BY <1>6, StringsOf, IntsOf, OptionalsOf, ListsOf
  <1> QED
    BY <1>1, <1>2, <1>3, <1>4, <1>5, <1>6 DEF Apis

(* The types of the members that have an initializer of their own. *)
LEMMA InitializedTypes ==
  ASSUME NEW a \in Apis
  PROVE  /\ "engine_model_type" \in Strings(a)
         /\ {"convert_num_mode"} \subseteq Ints(a)
         /\ a \in Streams => {"voice_format", "need_vad"} \subseteq Ints(a)
         /\ a \in {"sentence_v2", "sentence_v3"} => "voice_format" \in Strings(a)
         /\ a \in {"create_v2", "create_v3"} => "voice_format" \notin Members(a)
         /\ a \in {"create_v2", "create_v3"} => {"channel_num", "res_text_format"} \subseteq Ints(a)
         /\ a \notin {"create_v2", "create_v3"} =>
               "channel_num" \notin Members(a) /\ "res_text_format" \notin Members(a)
         /\ a \notin Streams =>
               /\ {"source_type", "data_len"} \subseteq Ints(a)
               /\ "url" \in Strings(a) /\ "data" \in Lists(a)
         /\ a \in Streams => {"voice_id", "speaker_context_id"} \subseteq Strings(a)
         /\ a \notin Streams => "speaker_context_id" \notin Members(a)
  <1> USE DEF SentenceStrings, CreateStrings, StreamStrings, Filters, Speakers, StreamInts,
              Members, Streams
  <1>1. CASE a = "sentence_v2"
    BY <1>1, StringsOf, IntsOf, OptionalsOf, ListsOf
  <1>2. CASE a = "sentence_v3"
    BY <1>2, StringsOf, IntsOf, OptionalsOf, ListsOf
  <1>3. CASE a = "create_v2"
    BY <1>3, StringsOf, IntsOf, OptionalsOf, ListsOf
  <1>4. CASE a = "create_v3"
    BY <1>4, StringsOf, IntsOf, OptionalsOf, ListsOf
  <1>5. CASE a = "stream_v2"
    BY <1>5, StringsOf, IntsOf, OptionalsOf, ListsOf
  <1>6. CASE a = "stream_v3"
    BY <1>6, StringsOf, IntsOf, OptionalsOf, ListsOf
  <1> QED
    BY <1>1, <1>2, <1>3, <1>4, <1>5, <1>6 DEF Apis

-----------------------------------------------------------------------------
(* Requests *)

LEMMA Names ==
  /\ IsText(NoText) /\ IsText("engine") /\ IsText("pcm") /\ IsText("http") /\ IsText("uuid")
  /\ IsList(<< >>) /\ NoText \in ContextIds
  <1>1. IsList(<< >>)
    BY DEF IsList
  <1> QED
    BY <1>1, ValuesAssumption DEF ContextIds

LEMMA DefaultRequest ==
  ASSUME api \in Apis
  PROVE  IsRequest(Default(api))
  <1> DEFINE d == Default(api)
  <1>1. DOMAIN d = Members(api)
    BY DEF Default
  <1>2. \A f \in Ints(api) : d[f] \in Int
    <2> SUFFICES ASSUME NEW f \in Ints(api) PROVE d[f] \in Int
      OBVIOUS
    <2>1. /\ f \in Members(api) /\ f \notin Strings(api)
      BY MembersOf, OneType
    <2>2. Zero(api, f) = 0
      BY DEF Zero
    <2>3. f # "engine_model_type" /\ ~(api = "sentence_v3" /\ f = "voice_format")
      BY <2>1, InitializedTypes
    <2> QED
      BY <2>1, <2>2, <2>3 DEF Default, Data
  <1>3. \A f \in Strings(api) : IsText(d[f])
    <2> SUFFICES ASSUME NEW f \in Strings(api) PROVE IsText(d[f])
      OBVIOUS
    <2>1. /\ f \in Members(api) /\ f \notin Ints(api)
      BY MembersOf, OneType
    <2>2. Zero(api, f) = NoText
      BY <2>1 DEF Zero
    <2>3. /\ f # "convert_num_mode"
          /\ api \in Streams => f \notin {"voice_format", "need_vad"}
          /\ api = "create_v3" => f \notin {"channel_num", "res_text_format", "source_type"}
          /\ api = "sentence_v3" => f # "source_type"
      BY <2>1, InitializedTypes DEF Streams
    <2>4. d[f] \in {NoText, "pcm", "engine"}
      BY <2>1, <2>2, <2>3 DEF Default
    <2> QED
      BY <2>4, Names
  <1>4. \A f \in Optionals(api) \cup Lists(api) : IsList(d[f])
    <2> SUFFICES ASSUME NEW f \in Optionals(api) \cup Lists(api) PROVE d[f] = << >>
      BY Names
    <2>1. /\ f \in Members(api) /\ f \notin Ints(api) /\ f \notin Strings(api)
      BY MembersOf, OneType
    <2>2. Zero(api, f) = << >>
      BY <2>1 DEF Zero
    <2>3. /\ f # "convert_num_mode" /\ f # "engine_model_type"
          /\ api \in Streams => f \notin {"voice_format", "need_vad"}
          /\ api = "create_v3" => f \notin {"channel_num", "res_text_format", "source_type"}
          /\ api = "sentence_v3" => f # "source_type" /\ f # "voice_format"
      BY <2>1, InitializedTypes DEF Streams
    <2> QED
      BY <2>1, <2>2, <2>3 DEF Default
  <1>5. api \in Streams => d.speaker_context_id = NoText
    <2> SUFFICES ASSUME api \in Streams PROVE d["speaker_context_id"] = NoText
      OBVIOUS
    <2>1. /\ "speaker_context_id" \in Strings(api) /\ "speaker_context_id" \in Members(api)
          /\ "speaker_context_id" \notin Ints(api)
      BY InitializedTypes, MembersOf, OneType
    <2>2. Zero(api, "speaker_context_id") = NoText
      BY <2>1 DEF Zero
    <2>3. api # "sentence_v3" /\ api # "create_v3"
      BY DEF Streams
    <2> QED
      BY <2>1, <2>2, <2>3 DEF Default
  <1> QED
    BY <1>1, <1>2, <1>3, <1>4, <1>5, Names DEF IsRequest

(* What the convenience calls fill in. *)
LEMMA FreshRequest ==
  ASSUME api \in Apis, NEW engine \in {NoText, "engine"}
  PROVE  IsRequest(Fresh(engine))
  <1> DEFINE d == Default(api)
             r == Fresh(engine)
  <1>1. IsRequest(d)
    BY DefaultRequest
  <1>2. DOMAIN r = Members(api)
    BY DEF Fresh
  <1>3. ASSUME NEW f \in Members(api)
        PROVE  r[f] = IF f = "engine_model_type" THEN engine
                      ELSE IF f = "voice_format" /\ api \notin Streams THEN "pcm"
                      ELSE IF f \in {"channel_num", "res_text_format"} THEN 1
                      ELSE d[f]
    BY DEF Fresh
  <1>4. \A f \in Ints(api) : r[f] \in Int
    <2> SUFFICES ASSUME NEW f \in Ints(api) PROVE r[f] \in Int
      OBVIOUS
    <2>1. f \in Members(api) /\ f \notin Strings(api) /\ d[f] \in Int
      BY <1>1, MembersOf, OneType DEF IsRequest
    <2>2. f # "engine_model_type" /\ ~(f = "voice_format" /\ api \notin Streams)
      BY <2>1, InitializedTypes DEF Streams, Apis
    <2> HIDE DEF d, r
    <2>3. r[f] = 1 \/ r[f] = d[f]
      BY <1>3, <2>1, <2>2, Zenon
    <2>4. 1 \in Int
      OBVIOUS
    <2> QED
      BY <2>1, <2>3, <2>4, Zenon
  <1>5. \A f \in Strings(api) : IsText(r[f])
    <2> SUFFICES ASSUME NEW f \in Strings(api) PROVE IsText(r[f])
      OBVIOUS
    <2>1. f \in Members(api) /\ f \notin Ints(api) /\ IsText(d[f])
      BY <1>1, MembersOf, OneType DEF IsRequest
    <2>2. f \notin {"channel_num", "res_text_format"}
      BY <2>1, InitializedTypes
    <2>3. IsText(engine) /\ IsText("pcm")
      BY Names
    <2> HIDE DEF d, r
    <2> QED
      BY <1>3, <2>1, <2>2, <2>3, Zenon
  <1>6. \A f \in Optionals(api) \cup Lists(api) : IsList(r[f])
    <2> SUFFICES ASSUME NEW f \in Optionals(api) \cup Lists(api) PROVE IsList(r[f])
      OBVIOUS
    <2>1. f \in Members(api) /\ f \notin Ints(api) /\ f \notin Strings(api) /\ IsList(d[f])
      BY <1>1, MembersOf, OneType DEF IsRequest
    <2>2. /\ f \notin {"channel_num", "res_text_format"} /\ f # "engine_model_type"
          /\ ~(f = "voice_format" /\ api \notin Streams)
      BY <2>1, InitializedTypes DEF Streams, Apis
    <2> HIDE DEF d, r
    <2> QED
      BY <1>3, <2>1, <2>2, Zenon
  <1>7. api \in Streams => r.speaker_context_id \in ContextIds
    <2> SUFFICES ASSUME api \in Streams PROVE r["speaker_context_id"] \in ContextIds
      OBVIOUS
    <2>1. "speaker_context_id" \in Members(api) /\ d["speaker_context_id"] \in ContextIds
      BY <1>1, InitializedTypes, MembersOf DEF IsRequest
    <2>2. r["speaker_context_id"] = d["speaker_context_id"]
      BY <1>3, <2>1
    <2> QED
      BY <2>1, <2>2
  <1> QED
    BY <1>2, <1>4, <1>5, <1>6, <1>7 DEF IsRequest

(* A request stays one when a member is assigned a value of its type. *)
LEMMA AssignRequest ==
  ASSUME api \in Apis, NEW r, IsRequest(r), NEW f \in Members(api), NEW v,
         f \in Ints(api) => v \in Int, f \in Strings(api) => IsText(v),
         f \in Optionals(api) \cup Lists(api) => IsList(v),
         f = "speaker_context_id" => v \in ContextIds
  PROVE  IsRequest([r EXCEPT ![f] = v])
  <1> DEFINE s == [r EXCEPT ![f] = v]
  <1>1. DOMAIN s = Members(api) /\ \A g \in Members(api) : s[g] = IF g = f THEN v ELSE r[g]
    BY DEF IsRequest
  <1> HIDE DEF s
  <1>2. \A g \in Ints(api) : s[g] \in Int
    BY <1>1, MembersOf DEF IsRequest
  <1>3. \A g \in Strings(api) : IsText(s[g])
    BY <1>1, MembersOf DEF IsRequest
  <1>4. \A g \in Optionals(api) \cup Lists(api) : IsList(s[g])
    BY <1>1, MembersOf DEF IsRequest
  <1>5. api \in Streams => s["speaker_context_id"] \in ContextIds
    <2> SUFFICES ASSUME api \in Streams PROVE s["speaker_context_id"] \in ContextIds
      OBVIOUS
    <2>1. "speaker_context_id" \in Members(api)
      BY InitializedTypes, MembersOf
    <2> QED
      BY <1>1, <2>1 DEF IsRequest
  <1>6. IsRequest(s)
    BY <1>1, <1>2, <1>3, <1>4, <1>5 DEF IsRequest
  <1> QED
    BY <1>6 DEF s

(* ... with the audio of a call in it. *)
LEMMA AudioRequest ==
  ASSUME api \in Apis, api \notin Streams, NEW r, IsRequest(r), NEW data \in Seq(Byte)
  PROVE  /\ IsRequest(WithAudio(r, data))
         /\ WithAudio(r, data).source_type = Data
         /\ WithAudio(r, data).data = Base64Encode(data)
         /\ WithAudio(r, data).data_len = Len(data)
  <1>1. PICK code : code = Base64Encode(data)
    OBVIOUS
  <1>2. PICK n : n = Len(data)
    OBVIOUS
  <1>3. n \in Int
    BY <1>2
  <1>4. IsList(code)
    <2>1. PICK x : x \in Seq(Text64) /\ x = code
      BY <1>1, EncodeType
    <2>2. DOMAIN x = 1..Len(x) /\ Len(x) \in Nat
      BY <2>1
    <2>3. x = [i \in 1..Len(x) |-> x[i]]
      BY <2>1
    <2>4. x \in Seq({x[i] : i \in DOMAIN x})
      BY <2>2, <2>3
    <2> QED
      BY <2>1, <2>4 DEF IsList
  <1>5. /\ {"source_type", "data_len"} \subseteq Ints(api) /\ "data" \in Lists(api)
        /\ {"source_type", "data_len", "data"} \subseteq Members(api)
    BY InitializedTypes, MembersOf
  <1>6. /\ "source_type" \notin Strings(api) /\ "source_type" \notin Optionals(api) \cup Lists(api)
        /\ "data_len" \notin Strings(api) /\ "data_len" \notin Optionals(api) \cup Lists(api)
        /\ "data" \notin Strings(api) /\ "data" \notin Ints(api)
    BY <1>5, OneType
  <1> DEFINE r1 == [r EXCEPT !["source_type"] = Data]
             r2 == [r1 EXCEPT !["data"] = code]
             r3 == [r2 EXCEPT !["data_len"] = n]
  <1>7. IsRequest(r1)
    <2>1. Data \in Int
      BY DEF Data
    <2> QED
      BY <1>5, <1>6, <2>1, AssignRequest, Zenon
  <1>8. IsRequest(r2)
    <2> HIDE DEF r1
    <2> QED
      BY <1>4, <1>5, <1>6, <1>7, AssignRequest
  <1>9. IsRequest(r3)
    <2> HIDE DEF r2
    <2> QED
      BY <1>3, <1>5, <1>6, <1>8, AssignRequest
  <1>10. WithAudio(r, data) = r3
    BY <1>1, <1>2 DEF WithAudio
  <1>11. DOMAIN r = Members(api)
    BY DEF IsRequest
  <1>12. r3["source_type"] = Data /\ r3["data"] = code /\ r3["data_len"] = n
    BY <1>5, <1>11
  <1> QED
    BY <1>1, <1>2, <1>9, <1>10, <1>12

(* ... with the URL of a call in it. *)
LEMMA UrlRequest ==
  ASSUME api \in Apis, api \notin Streams, NEW r, IsRequest(r)
  PROVE  IsRequest([r EXCEPT !.source_type = Url, !.url = "http"])
  <1> DEFINE r1 == [r EXCEPT !["source_type"] = Url]
             r2 == [r1 EXCEPT !["url"] = "http"]
  <1>1. /\ "source_type" \in Ints(api) /\ "url" \in Strings(api)
        /\ {"source_type", "url"} \subseteq Members(api)
    BY InitializedTypes, MembersOf
  <1>2. /\ "source_type" \notin Strings(api) /\ "source_type" \notin Optionals(api) \cup Lists(api)
        /\ "url" \notin Ints(api) /\ "url" \notin Optionals(api) \cup Lists(api)
    BY <1>1, OneType
  <1>3. IsRequest(r1)
    BY <1>1, <1>2, AssignRequest DEF Url
  <1>4. IsRequest(r2)
    <2> HIDE DEF r1
    <2> QED
      BY <1>1, <1>2, <1>3, Names, AssignRequest
  <1> QED
    BY <1>4

(* ... with a voice id made for it. *)
LEMMA VoiceRequest ==
  ASSUME api \in Apis, api \in Streams, NEW r, IsRequest(r)
  PROVE  IsRequest([r EXCEPT !.voice_id = "uuid"])
  <1>1. "voice_id" \in Strings(api) /\ "voice_id" \in Members(api)
    BY InitializedTypes, MembersOf
  <1>2. "voice_id" \notin Ints(api) /\ "voice_id" \notin Optionals(api) \cup Lists(api)
    BY <1>1, OneType
  <1> QED
    BY <1>1, <1>2, Names, AssignRequest

(* ... with what the application assigns. *)
LEMMA EditRequest ==
  ASSUME api \in Apis, IsRequest(req), NEW f \in Members(api), NEW v \in Values(api, f)
  PROVE  IsRequest([req EXCEPT ![f] = Stored(f, v)])
  <1>1. f \in Ints(api) => Stored(f, v) \in Int
    <2> SUFFICES ASSUME f \in Ints(api) PROVE Stored(f, v) \in Int
      OBVIOUS
    <2>1. f \notin Strings(api)
      BY OneType
    <2>2. f # "speaker_context_id"
      BY <2>1, InitializedTypes
    <2>3. Stored(f, v) = v
      BY <2>2 DEF Stored
    <2> QED
      BY <2>3, ValuesAssumption
  <1>2. f \in Strings(api) => IsText(Stored(f, v))
    BY ValuesAssumption
  <1>3. f \in Optionals(api) \cup Lists(api) => IsList(Stored(f, v))
    <2> SUFFICES ASSUME f \in Optionals(api) \cup Lists(api) PROVE IsList(Stored(f, v))
      OBVIOUS
    <2>1. f \notin Strings(api)
      BY OneType
    <2>2. f # "speaker_context_id"
      BY <2>1, InitializedTypes
    <2>3. Stored(f, v) = v
      BY <2>2 DEF Stored
    <2> QED
      BY <2>3, ValuesAssumption
  <1>4. f = "speaker_context_id" => Stored(f, v) \in ContextIds
    BY InitializedTypes, ValuesAssumption
  <1> QED
    BY <1>1, <1>2, <1>3, <1>4, AssignRequest

-----------------------------------------------------------------------------
(* The inductive invariant *)

LEMMA SentParts ==
  ASSUME NEW a, NEW r, NEW S
  PROVE  /\ Present(a, r, S) \subseteq S
         /\ DiarizationSent(a, r) \subseteq {"speaker_diarization", "speaker_number"}
         /\ EnrollmentSent(a, r) \subseteq {"speaker_roles", "voiceprint_ids"}
         /\ ContextSent(a, r) \subseteq {"enable_speaker_context", "speaker_context_id"}
  BY DEF Present, DiarizationSent, EnrollmentSent, ContextSent

LEMMA SentMembers ==
  ASSUME NEW a \in Apis, NEW r
  PROVE  Sent(a, r) \subseteq Members(a)
  <1> USE DEF SentenceStrings, CreateStrings, StreamStrings, Filters, Speakers, StreamInts,
              Members
  <1>1. CASE a = "sentence_v2"
    <2> SUFFICES ASSUME NEW f \in SerializeSentence(r)
                 PROVE  f \in Members("sentence_v2")
      BY <1>1, SentOf, Zenon
    <2> QED
      BY StringsOf, IntsOf, OptionalsOf, ListsOf, SentParts DEF SerializeSentence
  <1>2. CASE a = "sentence_v3"
    <2> SUFFICES ASSUME NEW f \in TranscribeRequestToWire(r)
                 PROVE  f \in Members("sentence_v3")
      BY <1>2, SentOf, Zenon
    <2>1. CASE r.source_type = Url
      BY <2>1, StringsOf, IntsOf, OptionalsOf, ListsOf, SentParts DEF TranscribeRequestToWire
    <2>2. CASE r.source_type # Url
      BY <2>2, StringsOf, IntsOf, OptionalsOf, ListsOf, SentParts DEF TranscribeRequestToWire
    <2> QED
      BY <2>1, <2>2
  <1>3. CASE a = "create_v2"
    <2> SUFFICES ASSUME NEW f \in SerializeCreate(r)
                 PROVE  f \in Members("create_v2")
      BY <1>3, SentOf, Zenon
    <2> QED
      BY StringsOf, IntsOf, OptionalsOf, ListsOf, SentParts DEF SerializeCreate
  <1>4. CASE a = "create_v3"
    <2> SUFFICES ASSUME NEW f \in CreateTranscriptionRequestToWire(r)
                 PROVE  f \in Members("create_v3")
      BY <1>4, SentOf, Zenon
    <2> QED
      BY StringsOf, IntsOf, OptionalsOf, ListsOf, SentParts DEF CreateTranscriptionRequestToWire
  <1>5. CASE a = "stream_v2"
    <2> SUFFICES ASSUME NEW f \in ToMap(r)
                 PROVE  f \in Members("stream_v2")
      BY <1>5, SentOf, Zenon
    <2> QED
      BY StringsOf, IntsOf, OptionalsOf, ListsOf, SentParts DEF ToMap
  <1>6. CASE a = "stream_v3"
    <2> SUFFICES ASSUME NEW f \in StartFrame(r)
                 PROVE  f \in Members("stream_v3")
      BY <1>6, SentOf, Zenon
    <2> QED
      BY StringsOf, IntsOf, OptionalsOf, ListsOf, SentParts DEF StartFrame
  <1> QED
    BY <1>1, <1>2, <1>3, <1>4, <1>5, <1>6 DEF Apis

(* A call that sends a request, or rejects it. *)
LEMMA RejectStep ==
  ASSUME CallInv, pc = "idle", NEW e \in Results \ {"none"}, Reject(e),
         IsRequest(req'), raw' \in RawData
  PROVE  CallInv'
  <1>1. RequestsTypeOK'
    <2>1. DOMAIN req' = Members(api)
      BY DEF IsRequest
    <2> QED
      BY <2>1 DEF CallInv, RequestsTypeOK, Reject
  <1>2. api' = api /\ pc' = "returned" /\ sent' = << >> /\ wire' = << >>
    BY DEF CallInv, Reject
  <1>3. IsRequest(req)'
    BY <1>2 DEF IsRequest
  <1> QED
    BY <1>1, <1>2, <1>3 DEF CallInv

LEMMA PostStep ==
  ASSUME CallInv, pc = "idle", NEW r, IsRequest(r), Post(r),
         IsRequest(req'), raw' \in RawData,
         raw' # << >> => /\ api \notin Streams
                         /\ r.source_type = Data /\ r.data = Base64Encode(raw')
                         /\ r.data_len = Len(raw')
  PROVE  CallInv'
  <1>1. CASE Reject("InvalidParam") \/ Reject("AuthFailed") \/ Reject("ForeignException")
    BY <1>1, RejectStep DEF Results
  <1>2. CASE /\ Validate(api, r) /\ HasUserSig /\ Dumpable(r) /\ ~FrameTooLong(api, r)
             /\ sent' = r /\ wire' = ToWire(api, r)
             /\ pc' = "posted"
             /\ UNCHANGED <<api, cred, edits, reply, result>>
    <2>1. api \in Apis
      BY DEF CallInv, RequestsTypeOK
    <2>2. DOMAIN req' = Members(api) /\ DOMAIN r = Members(api)
      BY DEF IsRequest
    <2>3. DOMAIN wire' \subseteq Members(api)
      BY <1>2, <2>1, WireOf, SentMembers
    <2>4. r # << >>
      <3>1. "engine_model_type" \in DOMAIN r
        BY <2>1, <2>2, InitializedTypes, MembersOf
      <3> QED
        BY <3>1
    <2>5. RequestsTypeOK'
      BY <1>2, <2>2, <2>3, <2>4 DEF CallInv, RequestsTypeOK
    <2>6. IsRequest(req)' /\ IsRequest(sent)'
      BY <1>2 DEF IsRequest
    <2>7. Posted'
      BY <1>2, <2>6 DEF Posted, HasUserSig, Dumpable
    <2> QED
      BY <1>2, <2>5, <2>6, <2>7 DEF CallInv
  <1> QED
    BY <1>1, <1>2 DEF Post

LEMMA CallInvInit == Init => CallInv
  <1> SUFFICES ASSUME Init PROVE CallInv
    OBVIOUS
  <1>1. IsRequest(req)
    BY DefaultRequest, FreshRequest DEF Init
  <1>2. DOMAIN req = Members(api)
    BY <1>1 DEF IsRequest
  <1>3. DOMAIN sent = {} /\ DOMAIN wire = {}
    BY DEF Init
  <1>4. RequestsTypeOK
    BY <1>2, <1>3, CallsAssumption DEF Init, RequestsTypeOK, Results
  <1> QED
    BY <1>1, <1>4 DEF CallInv, Init

(* A body on which a call may return success. *)
Success(p) ==
    /\ p.status # "other"
    /\ p.body \in {"result", "bare", "odd_error"}

(* How a call may end that got an answer. *)
LEMMA OutcomeType ==
  ASSUME NEW p \in Replies
  PROVE  /\ OutcomeV2(p) \in Results \ {"none"} /\ OutcomeV3(p) \in Results \ {"none"}
         /\ OutcomeV2(p) = "success" => Success(p) /\ (api = "create_v2" => p.body = "result")
         /\ OutcomeV3(p) = "success" => Success(p) /\ (api = "create_v3" => p.body = "result")
  <1>1. p.status \in {"200", "2xx", "other"}
    BY DEF Replies
  <1>2. p.body \in {"result", "error", "bare", "bad_types", "bad_error", "odd_error",
                    "other_json", "not_json"}
    BY DEF Replies
  <1>3. ASSUME p.status # "200" PROVE OutcomeV2(p) = "ServerError"
    BY <1>3, Zenon DEF OutcomeV2
  <1>4. ASSUME p.status = "200"
        PROVE  \/ OutcomeV2(p) \in {"ServerError", "ReadFailed"}
               \/ /\ OutcomeV2(p) = "success" /\ p.body \in {"result", "bare", "odd_error"}
                  /\ api = "create_v2" => p.body = "result"
    <2>1. CASE p.body = "not_json"
      <3>1. OutcomeV2(p) = "ReadFailed"
        BY <1>4, <2>1, Zenon DEF OutcomeV2
      <3> QED
        BY <2>1, <3>1
    <2>2. CASE p.body = "other_json"
      <3>1. OutcomeV2(p) = "ServerError"
        BY <1>4, <2>2, Zenon DEF OutcomeV2
      <3> QED
        BY <2>2, <3>1
    <2>3. CASE p.body = "error"
      <3>1. OutcomeV2(p) = "ServerError"
        BY <1>4, <2>3, Zenon DEF OutcomeV2
      <3> QED
        BY <2>3, <3>1
    <2>4. CASE p.body = "bad_error"
      <3>1. OutcomeV2(p) = "ServerError"
        BY <1>4, <2>4, Zenon DEF OutcomeV2
      <3> QED
        BY <2>4, <3>1
    <2>5. CASE p.body = "bad_types"
      <3>1. OutcomeV2(p) = "ReadFailed"
        BY <1>4, <2>5, Zenon DEF OutcomeV2
      <3> QED
        BY <2>5, <3>1
    <2>6. CASE p.body = "bare"
      <3>1. OutcomeV2(p) = IF api = "create_v2" THEN "ServerError" ELSE "success"
        BY <1>4, <2>6, Zenon DEF OutcomeV2
      <3> QED
        BY <2>6, <3>1
    <2>7. CASE p.body = "odd_error"
      <3>1. OutcomeV2(p) = IF api = "create_v2" THEN "ServerError" ELSE "success"
        BY <1>4, <2>7, Zenon DEF OutcomeV2
      <3> QED
        BY <2>7, <3>1
    <2>8. CASE p.body = "result"
      <3>1. OutcomeV2(p) = "success"
        BY <1>4, <2>8, Zenon DEF OutcomeV2
      <3> QED
        BY <2>8, <3>1
    <2> QED
      BY <1>2, <2>1, <2>2, <2>3, <2>4, <2>5, <2>6, <2>7, <2>8
  <1>5. \/ OutcomeV3(p) \in {"ServerError", "ForeignException"}
        \/ /\ OutcomeV3(p) = "success" /\ p.status # "other"
           /\ p.body \in {"result", "bare", "odd_error"}
           /\ api = "create_v3" => p.body = "result"
    <2>1. CASE p.body = "not_json"
      <3>1. OutcomeV3(p) = "ServerError"
        BY <2>1, Zenon DEF OutcomeV3
      <3> QED
        BY <2>1, <3>1
    <2>2. CASE p.body = "other_json"
      <3>1. OutcomeV3(p) = "ServerError"
        BY <2>2, Zenon DEF OutcomeV3
      <3> QED
        BY <2>2, <3>1
    <2>3. CASE p.body = "error"
      <3>1. OutcomeV3(p) = "ServerError"
        BY <2>3, Zenon DEF OutcomeV3
      <3> QED
        BY <2>3, <3>1
    <2>4. CASE p.body = "bad_error"
      <3>1. OutcomeV3(p) = "ForeignException"
        BY <2>4, Zenon DEF OutcomeV3
      <3> QED
        BY <2>4, <3>1
    <2>5. CASE p.body = "bad_types"
      <3>1. OutcomeV3(p) \in {"ServerError", "ForeignException"}
        BY <2>5, Zenon DEF OutcomeV3
      <3> QED
        BY <2>5, <3>1
    <2>6. CASE p.body = "bare"
      <3>1. \/ OutcomeV3(p) = "ServerError"
            \/ OutcomeV3(p) = "success" /\ p.status # "other" /\ api # "create_v3"
        BY <2>6, Zenon DEF OutcomeV3
      <3> QED
        BY <2>6, <3>1
    <2>7. CASE p.body = "odd_error"
      <3>1. \/ OutcomeV3(p) = "ServerError"
            \/ OutcomeV3(p) = "success" /\ p.status # "other" /\ api # "create_v3"
        BY <2>7, Zenon DEF OutcomeV3
      <3> QED
        BY <2>7, <3>1
    <2>8. CASE p.body = "result"
      <3>1. OutcomeV3(p) = "ServerError" \/ (OutcomeV3(p) = "success" /\ p.status # "other")
        BY <2>8, Zenon DEF OutcomeV3
      <3> QED
        BY <2>8, <3>1
    <2> QED
      BY <1>2, <2>1, <2>2, <2>3, <2>4, <2>5, <2>6, <2>7, <2>8
  <1> QED
    BY <1>3, <1>4, <1>5 DEF Results, Success

LEMMA CallInvNext == CallInv /\ [Next]_vars => CallInv'
  <1> SUFFICES ASSUME CallInv, [Next]_vars
               PROVE  CallInv'
    OBVIOUS
  <1> USE DEF Results
  <1>1. api \in Apis /\ IsRequest(req) /\ edits \in 0..MaxEdits(api)
    BY DEF CallInv, RequestsTypeOK
  <1>2. MaxEdits(api) \in Nat /\ << >> \in RawData
    BY <1>1, CallsAssumption
  <1>3. ASSUME Edit PROVE CallInv'
    <2>1. IsRequest(req')
      BY <1>1, <1>3, EditRequest DEF Edit
    <2>2. DOMAIN req' = Members(api)
      BY <2>1 DEF IsRequest
    <2>3. api' = api /\ UNCHANGED <<cred, pc, raw, sent, wire, reply, result>> /\ pc = "idle"
      BY <1>3 DEF Edit, callVars
    <2>4. edits' \in 0..MaxEdits(api)
      BY <1>1, <1>2, <1>3 DEF Edit
    <2>5. IsRequest(req)'
      BY <2>1, <2>3 DEF IsRequest
    <2>6. RequestsTypeOK'
      BY <2>2, <2>3, <2>4 DEF CallInv, RequestsTypeOK
    <2> QED
      BY <2>3, <2>5, <2>6 DEF CallInv
  <1>4. CASE Assign
    BY <1>3, <1>4 DEF Assign
  <1>5. CASE SetOption
    BY <1>3, <1>5 DEF SetOption
  <1>6. CASE Resume
    <2>1. IsRequest(req)'
      BY <1>1, <1>6 DEF Resume, IsRequest
    <2>2. RequestsTypeOK'
      BY <1>2, <1>6 DEF Resume, CallInv, RequestsTypeOK
    <2> QED
      BY <1>6, <2>1, <2>2 DEF Resume, CallInv
  <1>7. CASE Call
    <2>1. pc = "idle" /\ Post(req) /\ req' = req /\ raw' = << >>
      BY <1>7 DEF Call
    <2> QED
      BY <1>1, <1>2, <2>1, PostStep
  <1>8. CASE CallData
    <2>1. PICK data \in RawData, engine \in {NoText, "engine"} :
             /\ raw' = data
             /\ \/ ~AudioOK(data) /\ Reject("InvalidParam")
                \/ AudioOK(data) /\ Post(WithAudio(Fresh(engine), data))
      BY <1>8 DEF CallData
    <2>2. pc = "idle" /\ api \notin Streams /\ IsRequest(req')
      BY <1>1, <1>8 DEF CallData
    <2>3. data \in Seq(Byte)
      BY CallsAssumption DEF Byte
    <2>4. PICK r : r = WithAudio(Fresh(engine), data)
      OBVIOUS
    <2>5. /\ IsRequest(r) /\ r.source_type = Data /\ r.data = Base64Encode(raw')
          /\ r.data_len = Len(raw')
      BY <1>1, <2>1, <2>2, <2>3, <2>4, FreshRequest, AudioRequest
    <2>6. CASE Reject("InvalidParam")
      BY <2>1, <2>2, <2>6, RejectStep
    <2>7. CASE Post(r)
      BY <2>1, <2>2, <2>5, <2>7, PostStep
    <2> QED
      BY <2>1, <2>4, <2>6, <2>7
  <1>9. CASE CallURL
    <2>1. pc = "idle" /\ api \notin Streams /\ IsRequest(req') /\ raw' = << >>
      BY <1>1, <1>9 DEF CallURL
    <2>2. CASE Reject("InvalidParam")
      BY <1>2, <2>1, <2>2, RejectStep
    <2>3. ASSUME NEW engine \in {NoText, "engine"},
                 Post([Fresh(engine) EXCEPT !.source_type = Url, !.url = "http"])
          PROVE  CallInv'
      <3>1. PICK r : r = [Fresh(engine) EXCEPT !.source_type = Url, !.url = "http"]
        OBVIOUS
      <3>2. IsRequest(r)
        BY <1>1, <2>1, <3>1, FreshRequest, UrlRequest
      <3>3. Post(r)
        BY <2>3, <3>1
      <3> QED
        BY <1>2, <2>1, <3>2, <3>3, PostStep
    <2> QED
      BY <1>9, <2>2, <2>3 DEF CallURL
  <1>10. CASE CallWithOptions
    <2>1. PICK data \in RawData :
             /\ raw' = data
             /\ \/ ~AudioOK(data) /\ Reject("InvalidParam") /\ UNCHANGED req
                \/ /\ AudioOK(data)
                   /\ req' = WithAudio(req, data)
                   /\ Post(WithAudio(req, data))
      BY <1>10 DEF CallWithOptions
    <2>2. pc = "idle" /\ api \notin Streams
      BY <1>10 DEF CallWithOptions
    <2>3. data \in Seq(Byte)
      BY CallsAssumption DEF Byte
    <2>4. PICK r : r = WithAudio(req, data)
      OBVIOUS
    <2>5. /\ IsRequest(r) /\ r.source_type = Data /\ r.data = Base64Encode(raw')
          /\ r.data_len = Len(raw')
      BY <1>1, <2>1, <2>2, <2>3, <2>4, AudioRequest
    <2>6. CASE Reject("InvalidParam") /\ UNCHANGED req
      BY <1>1, <2>1, <2>2, <2>6, RejectStep
    <2>7. CASE req' = r /\ Post(r)
      BY <2>1, <2>2, <2>5, <2>7, PostStep
    <2> QED
      BY <2>1, <2>4, <2>6, <2>7
  <1>11. CASE CallWithoutRequest
    <2>1. pc = "idle" /\ Reject("InvalidParam") /\ IsRequest(req') /\ raw' \in RawData
      BY <1>1, <1>11 DEF CallWithoutRequest, CallInv, RequestsTypeOK
    <2> QED
      BY <2>1, RejectStep
  <1>12. CASE Start
    <2>1. PICK r : r = IF req.voice_id = NoText THEN [req EXCEPT !.voice_id = "uuid"] ELSE req
      OBVIOUS
    <2>2. /\ pc = "idle" /\ api \in Streams /\ raw' = raw
          /\ req' = (IF Validate(api, req) THEN r ELSE req)
          /\ Post(r)
      BY <1>12, <2>1 DEF Start
    <2>3. IsRequest(r)
      BY <1>1, <2>1, <2>2, VoiceRequest
    <2>4. IsRequest(req')
      BY <1>1, <2>2, <2>3
    <2>5. raw' = << >>
      BY <2>2 DEF CallInv
    <2> QED
      BY <1>2, <2>2, <2>3, <2>4, <2>5, PostStep
  <1>13. ASSUME UNCHANGED <<api, cred, req, edits>>, Forget, pc' \notin {"posted", "idle"},
                pc' \in {"returned", "started", "dead"},
                reply' \in Replies \cup {NoReply}, result' \in Results \ {"none"}
         PROVE  CallInv'
    <2>1. IsRequest(req)'
      BY <1>1, <1>13 DEF IsRequest
    <2>2. sent' = << >> /\ wire' = << >> /\ raw' = << >>
      BY <1>13 DEF Forget
    <2>3. DOMAIN sent' = {} /\ DOMAIN wire' = {}
      BY <2>2
    <2>4. RequestsTypeOK'
      BY <1>2, <1>13, <2>2, <2>3 DEF CallInv, RequestsTypeOK
    <2> QED
      BY <1>13, <2>1, <2>2, <2>4 DEF CallInv
  <1>14. CASE Receive
    <2>1. PICK p \in Replies :
             reply' = p /\ result' = IF api \in V2 THEN OutcomeV2(p) ELSE OutcomeV3(p)
      BY <1>14 DEF Receive
    <2>2. OutcomeV2(p) \in Results \ {"none"} /\ OutcomeV3(p) \in Results \ {"none"}
      BY OutcomeType
    <2> QED
      BY <1>13, <1>14, <2>1, <2>2 DEF Receive
  <1>15. CASE TransportFails
    BY <1>13, <1>15 DEF TransportFails, CallInv, RequestsTypeOK
  <1>16. CASE Dialled
    BY <1>13, <1>16 DEF Dialled, CallInv, RequestsTypeOK
  <1>17. CASE UNCHANGED vars
    <2>1. /\ UNCHANGED <<api, cred, req, edits>>
          /\ UNCHANGED <<pc, raw, sent, wire, reply, result>>
      BY <1>17 DEF vars, callVars
    <2> QED
      BY <2>1 DEF CallInv, RequestsTypeOK, IsRequest, Posted, HasUserSig, Dumpable
  <1>18. CASE Terminated
    BY <1>17, <1>18 DEF Terminated
  <1> QED
    BY <1>4, <1>5, <1>6, <1>7, <1>8, <1>9, <1>10, <1>11, <1>12, <1>14, <1>15, <1>16, <1>17,
       <1>18 DEF Next

(* What the application edits is always a request; a call that waits for its *)
(* answer has sent a request that validation accepted, as it was then, with  *)
(* the audio of this call in it; between calls nothing of a call is left.    *)
THEOREM CallInvariance == Spec => []CallInv
  BY CallInvInit, CallInvNext, PTL DEF Spec

(* The types of the variables, and which of them go together at each control *)
(* point of a call.                                                          *)
THEOREM CallTypes == Spec => []RequestsTypeOK
  <1>1. CallInv => RequestsTypeOK
    BY DEF CallInv
  <1> QED
    BY <1>1, CallInvariance, PTL

-----------------------------------------------------------------------------
(* The answer *)

(* A call of the file and sentence recognizers returns success only on an    *)
(* object with a success status that is no error in the service's own form,  *)
(* and a task is created only by an answer that names it.                    *)
THEOREM SuccessIsAnswered == Spec => []NoFalseSuccess
  <1>1. Init => NoFalseSuccess
    BY DEF Init, NoFalseSuccess
  <1>2. CallInv /\ NoFalseSuccess /\ [Next]_vars => NoFalseSuccess'
    <2> SUFFICES ASSUME CallInv, NoFalseSuccess, [Next]_vars, result' = "success",
                        api' \notin Streams
                 PROVE  /\ Success(reply')
                        /\ api' \in {"create_v2", "create_v3"} => reply'.body = "result"
      BY DEF NoFalseSuccess, Success
    <2>1. CASE UNCHANGED <<api, reply, result>>
      BY <2>1 DEF NoFalseSuccess, Success
    <2>2. ASSUME NEW e, Reject(e), e # "success" PROVE FALSE
      BY <2>2 DEF Reject
    <2>3. ASSUME NEW r, Post(r) PROVE UNCHANGED <<api, reply, result>>
      BY <2>2, <2>3 DEF Post
    <2>4. CASE Assign \/ SetOption
      BY <2>1, <2>4 DEF Assign, SetOption, Edit, callVars
    <2>5. CASE Resume
      BY <2>5 DEF Resume
    <2>6. CASE Call \/ CallData \/ CallURL \/ CallWithOptions \/ CallWithoutRequest \/ Start
      <3>1. (\E r : Post(r)) \/ Reject("InvalidParam")
        BY <2>6, Zenon DEF Call, CallData, CallURL, CallWithOptions, CallWithoutRequest, Start
      <3> QED
        BY <2>1, <2>2, <2>3, <3>1
    <2>7. CASE Receive
      <3>1. PICK p \in Replies :
               reply' = p /\ result' = IF api \in V2 THEN OutcomeV2(p) ELSE OutcomeV3(p)
        BY <2>7 DEF Receive
      <3>2. api' = api
        BY <2>7 DEF Receive
      <3> QED
        BY <3>1, <3>2, OutcomeType DEF V2
    <2>8. CASE TransportFails
      BY <2>8 DEF TransportFails
    <2>9. CASE Dialled
      BY <2>9 DEF Dialled
    <2>10. CASE Terminated \/ UNCHANGED vars
      BY <2>1, <2>10 DEF Terminated, vars, callVars
    <2> QED
      BY <2>4, <2>5, <2>6, <2>7, <2>8, <2>9, <2>10 DEF Next
  <1> QED
    BY <1>1, <1>2, CallInvariance, PTL DEF Spec

-----------------------------------------------------------------------------
(* The wire *)

LEMMA ZeroOf ==
  ASSUME NEW a \in Apis, NEW f
  PROVE  /\ f \in Ints(a) => Zero(a, f) = 0
         /\ f \in Strings(a) => Zero(a, f) = NoText
         /\ f \in Optionals(a) \cup Lists(a) => Zero(a, f) = << >>
  BY OneType DEF Zero

LEMMA DefaultOf ==
  ASSUME NEW a \in Apis, NEW f \in Members(a)
  PROVE  \/ Default(a)[f] = Zero(a, f)
         \/ a = "sentence_v3" /\ f \in {"source_type", "voice_format"}
         \/ a = "create_v3" /\ f \in {"channel_num", "res_text_format", "source_type"}
         \/ /\ a \in Streams
            /\ f \in {"engine_model_type", "voice_format", "need_vad", "convert_num_mode"}
  BY Zenon DEF Default

LEMMA WireValueOf ==
  ASSUME NEW a, NEW r, NEW f
  PROVE  /\ a = "stream_v2" /\ f = "noise_threshold" =>
               WireValue(a, r, f) = [i \in DOMAIN r[f] |-> Thousandths(r[f][i])]
         /\ f = "audio_urls" =>
               WireValue(a, r, f) = [i \in DOMAIN r[f] |-> AudioURLItemToWire(r[f][i])]
         /\ f # "audio_urls" /\ ~(a = "stream_v2" /\ f = "noise_threshold") =>
               WireValue(a, r, f) = r[f]
  <1>1. a = "stream_v2" /\ f = "noise_threshold" =>
           WireValue(a, r, f) = [i \in DOMAIN r[f] |-> Thousandths(r[f][i])]
    BY Zenon DEF WireValue
  <1>2. f = "audio_urls" =>
           WireValue(a, r, f) = [i \in DOMAIN r[f] |-> AudioURLItemToWire(r[f][i])]
    BY Zenon DEF WireValue
  <1>3. f # "audio_urls" /\ ~(a = "stream_v2" /\ f = "noise_threshold") =>
           WireValue(a, r, f) = r[f]
    BY Zenon DEF WireValue
  <1> QED
    BY <1>1, <1>2, <1>3

(* What validation of the requests has in common. *)
LEMMA ValidParts ==
  ASSUME NEW a \in Apis, a \notin {"sentence_v2", "sentence_v3"}, NEW r, Validate(a, r)
  PROVE  /\ ValidateSpeakerDiarization(a, r)
         /\ ValidateVadTuning(r.vad_level, r.noise_threshold)
         /\ a \in Streams => ValidateSpeakerContext(r.enable_speaker_context, r.speaker_diarization)
  <1>1. CASE a = "create_v2"
    BY <1>1, ValidateOf, Zenon DEF ValidateCreateRequest, Streams
  <1>2. CASE a = "create_v3"
    BY <1>2, ValidateOf, Zenon DEF ValidateCreateTranscription, Streams
  <1>3. ASSUME ValidateOptions(a, r)
        PROVE  /\ ValidateSpeakerDiarization(a, r)
               /\ ValidateVadTuning(r.vad_level, r.noise_threshold)
               /\ ValidateSpeakerContext(r.enable_speaker_context, r.speaker_diarization)
    BY <1>3, SMT DEF ValidateOptions
  <1>4. ASSUME ValidateOptionsV3(r) PROVE ValidateOptions("stream_v3", r)
    BY <1>4, SMT DEF ValidateOptionsV3
  <1>5. CASE a = "stream_v2"
    BY <1>3, <1>5, ValidateOf, Zenon
  <1>6. CASE a = "stream_v3"
    BY <1>3, <1>4, <1>6, ValidateOf, Zenon
  <1> QED
    BY <1>1, <1>2, <1>5, <1>6, Zenon DEF Apis

LEMMA ValidSpeakers ==
  ASSUME NEW a \in Apis, a \notin {"sentence_v2", "sentence_v3"}, NEW r, Validate(a, r)
  PROVE  /\ r.speaker_diarization # Voiceprint =>
               r.speaker_roles = << >> /\ r.voiceprint_ids = << >>
         /\ a \in Streams /\ r.enable_speaker_context # 0 => r.speaker_diarization # 0
  BY ValidParts, Zenon DEF ValidateSpeakerDiarization, ValidateSpeakerContext

LEMMA ValidThreshold ==
  ASSUME NEW level, NEW threshold, ValidateVadTuning(level, threshold),
         NEW i \in DOMAIN threshold
  PROVE  threshold[i] \in 0..MaxNoiseThreshold
  BY DEF ValidateVadTuning, ValidateEnumOption

(* Two channels exclude diarization in v3. *)
LEMMA ValidChannels ==
  ASSUME NEW r, Validate("create_v3", r), r.speaker_diarization # 0
  PROVE  r.channel_num = 1
  BY ValidateOf, Zenon DEF ValidateCreateTranscription

(* A member that was moved off its initial value is sent. *)
LEMMA MovedIsSent ==
  ASSUME CallInv, pc = "posted", NEW f \in Members(api), sent[f] # Default(api)[f], ~LeftOut(f)
  PROVE  f \in Sent(api, sent)
  <1> USE DEF SentenceStrings, CreateStrings, StreamStrings, Filters, Speakers, StreamInts
  <1>1. api \in Apis /\ Validate(api, sent)
    BY DEF CallInv, RequestsTypeOK, Posted
  <1>2. \/ sent[f] # Zero(api, f)
        \/ api = "sentence_v3" /\ f \in {"source_type", "voice_format"}
        \/ api = "create_v3" /\ f \in {"channel_num", "res_text_format", "source_type"}
        \/ /\ api \in Streams
           /\ f \in {"engine_model_type", "voice_format", "need_vad", "convert_num_mode"}
    BY <1>1, DefaultOf
  <1>3. f \in {"speaker_roles", "voiceprint_ids"} =>
           Zero(api, f) = << >> /\ api \notin {"sentence_v2", "sentence_v3"}
    <2>1. /\ "speaker_roles" \notin Members("sentence_v2")
          /\ "voiceprint_ids" \notin Members("sentence_v2")
      BY StringsOf, IntsOf, OptionalsOf, ListsOf DEF Members
    <2>2. /\ "speaker_roles" \notin Members("sentence_v3")
          /\ "voiceprint_ids" \notin Members("sentence_v3")
      BY StringsOf, IntsOf, OptionalsOf, ListsOf DEF Members
    <2>3. api \in {"create_v2", "create_v3", "stream_v2", "stream_v3"} =>
             {"speaker_roles", "voiceprint_ids"} \subseteq Lists(api)
      BY ListsOf
    <2>4. f \in {"speaker_roles", "voiceprint_ids"} => f \in Lists(api)
      BY <1>1, <2>1, <2>2, <2>3 DEF Apis
    <2> QED
      BY <1>1, <2>1, <2>2, <2>4, ZeroOf
  <1>4. f \in {"speaker_diarization", "speaker_number", "enable_speaker_context"} =>
           f \in Ints(api) /\ Zero(api, f) = 0
    <2>1. f \in {"speaker_diarization", "speaker_number", "enable_speaker_context"} =>
             f \notin Strings(api) /\ f \notin Optionals(api) /\ f \notin Lists(api)
      BY <1>1, StringsOf, OptionalsOf, ListsOf DEF Apis
    <2> QED
      BY <1>1, <2>1, ZeroOf DEF Members
  <1>5. f \in {"speaker_roles", "voiceprint_ids"} => sent.speaker_diarization = Voiceprint
    BY <1>1, <1>2, <1>3, ValidSpeakers
  <1>6. f \in {"speaker_diarization", "speaker_number"} => f \in DiarizationSent(api, sent)
    BY <1>2, <1>4 DEF LeftOut, DiarizationSent, Present
  <1>7. f \in {"speaker_roles", "voiceprint_ids"} => f \in EnrollmentSent(api, sent)
    BY <1>2, <1>5 DEF EnrollmentSent, Present
  <1>8. f \in {"enable_speaker_context", "speaker_context_id"} => f \in ContextSent(api, sent)
    BY <1>2, <1>4 DEF LeftOut, ContextSent, Present
  <1>9. CASE api = "sentence_v2"
    <2>1. f \in SerializeSentence(sent)
      BY <1>2, <1>9, StringsOf, IntsOf, OptionalsOf, ListsOf
         DEF Members, SerializeSentence, Present, Streams
    <2> QED
      BY <1>9, <2>1, SentOf
  <1>10. CASE api = "create_v2"
    <2>1. f \in SerializeCreate(sent)
      BY <1>2, <1>10, StringsOf, IntsOf, OptionalsOf, ListsOf
         DEF Members, SerializeCreate, Present, Streams
    <2> QED
      BY <1>10, <2>1, SentOf
  <1>11. CASE api = "sentence_v3"
    <2>1. f \in {"url", "data", "data_len"} => f \in TranscribeRequestToWire(sent)
      BY <1>11 DEF LeftOut, TranscribeRequestToWire, Url, Data
    <2>2. f \notin {"url", "data", "data_len"} => f \in TranscribeRequestToWire(sent)
      BY <1>2, <1>6, <1>11, StringsOf, IntsOf, OptionalsOf, ListsOf
         DEF Members, TranscribeRequestToWire, Present, Streams
    <2> QED
      BY <1>11, <2>1, <2>2, SentOf
  <1>12. CASE api = "create_v3"
    <2>1. f = "url" => sent.url # NoText /\ sent.source_type = Url
      <3>1. "url" \in Strings("create_v3")
        BY StringsOf
      <3> QED
        BY <1>2, <1>12, <3>1, ZeroOf DEF LeftOut, Streams, Apis
    <2>2. f \in {"data", "data_len"} => sent.data # << >> /\ sent.source_type = Data
      <3>1. "data" \in Lists("create_v3")
        BY ListsOf
      <3> QED
        BY <1>2, <1>12, <3>1, ZeroOf DEF LeftOut, Streams, Apis
    <2>3. f \in {"url", "data", "data_len"} => f \in CreateTranscriptionRequestToWire(sent)
      BY <2>1, <2>2 DEF CreateTranscriptionRequestToWire, Url, Data
    <2>4. f \notin {"url", "data", "data_len"} => f \in CreateTranscriptionRequestToWire(sent)
      BY <1>2, <1>6, <1>7, <1>12, StringsOf, IntsOf, OptionalsOf, ListsOf
         DEF Members, CreateTranscriptionRequestToWire, Present, Streams
    <2> QED
      BY <1>12, <2>3, <2>4, SentOf
  <1>13. CASE api = "stream_v2"
    <2>1. f = "convert_num_mode" => sent[f] # Zero(api, f)
      <3>1. "convert_num_mode" \in Ints("stream_v2")
        BY IntsOf
      <3> QED
        BY <1>13, <3>1, ZeroOf DEF LeftOut, Apis
    <2>2. f \in ToMap(sent)
      BY <1>2, <1>6, <1>7, <1>8, <1>13, <2>1, StringsOf, IntsOf, OptionalsOf, ListsOf
         DEF Members, ToMap, Present, Streams
    <2> QED
      BY <1>13, <2>2, SentOf
  <1>14. CASE api = "stream_v3"
    <2>1. f \in StartFrame(sent)
      BY <1>2, <1>6, <1>7, <1>8, <1>14, StringsOf, IntsOf, OptionalsOf, ListsOf
         DEF Members, StartFrame, Present, Streams
    <2> QED
      BY <1>14, <2>1, SentOf
  <1> QED
    BY <1>1, <1>9, <1>10, <1>11, <1>12, <1>13, <1>14 DEF Apis

LEMMA ThousandthsClose ==
  ASSUME NEW v \in Int
  PROVE  v - Thousandths(v) \in -5..5
  BY DEF Thousandths

(* A member that is on the wire has the value it was given. *)
LEMMA SentIsSame ==
  ASSUME CallInv, pc = "posted", NEW f \in Sent(api, sent)
  PROVE  f \in DOMAIN wire /\ SameValue(f)
  <1>1. /\ api \in Apis /\ Validate(api, sent) /\ IsRequest(sent)
        /\ wire = ToWire(api, sent) /\ f \in Members(api)
    BY SentMembers DEF CallInv, RequestsTypeOK, Posted
  <1>2. f \in DOMAIN wire /\ wire[f] = WireValue(api, sent, f)
    BY <1>1, WireOf
  <1>3. CASE f = "noise_threshold"
    <2>1. "noise_threshold" \notin Members("sentence_v2")
      BY StringsOf, IntsOf, OptionalsOf, ListsOf DEF Members, SentenceStrings, Filters
    <2>2. "noise_threshold" \notin Members("sentence_v3")
      BY StringsOf, IntsOf, OptionalsOf, ListsOf DEF Members, SentenceStrings, Filters, Speakers
    <2>3. PICK t : t = sent["noise_threshold"]
      OBVIOUS
    <2>4. \A i \in DOMAIN t : t[i] \in Int
      <3>1. ValidateVadTuning(sent.vad_level, t)
        BY <1>1, <1>3, <2>1, <2>2, <2>3, ValidParts
      <3>2. MaxNoiseThreshold \in Int
        BY SMT DEF MaxNoiseThreshold
      <3> QED
        BY <3>1, <3>2, ValidThreshold
    <2>5. \/ wire[f] = t
          \/ wire[f] = [i \in DOMAIN t |-> Thousandths(t[i])]
      BY <1>2, <1>3, <2>3, WireValueOf
    <2>6. PICK w : w = wire[f]
      OBVIOUS
    <2>7. \A i \in DOMAIN t : t[i] - w[i] \in -5..5
      <3> SUFFICES ASSUME NEW i \in DOMAIN t PROVE t[i] - w[i] \in -5..5
        OBVIOUS
      <3>1. PICK v \in Int : v = t[i]
        BY <2>4
      <3>2. w[i] = v \/ w[i] = Thousandths(v)
        BY <2>5, <2>6, <3>1
      <3>3. v - v \in -5..5
        OBVIOUS
      <3> QED
        BY <3>1, <3>2, <3>3, ThousandthsClose
    <2> QED
      BY <1>2, <1>3, <2>3, <2>6, <2>7 DEF SameValue
  <1>4. CASE f = "audio_urls"
    <2>1. f \in Lists(api)
      BY <1>1, <1>4, StringsOf, IntsOf, OptionalsOf, ListsOf
         DEF Members, SentenceStrings, CreateStrings, StreamStrings, Filters, Speakers,
             StreamInts, Apis
    <2>2. PICK t : t = sent[f]
      OBVIOUS
    <2>3. PICK S : t \in Seq(S)
      BY <1>1, <2>1, <2>2 DEF IsRequest, IsList
    <2>4. wire[f] = [i \in DOMAIN t |-> AudioURLItemToWire(t[i])]
      BY <1>2, <1>4, <2>2, WireValueOf
    <2>5. DOMAIN t = 1..Len(t) /\ Len(t) \in Nat
      BY <2>3
    <2>6. Len(wire[f]) = Len(t)
      BY <2>4, <2>5
    <2> QED
      BY <1>2, <1>4, <2>2, <2>6 DEF SameValue
  <1>5. CASE f # "noise_threshold" /\ f # "audio_urls"
    BY <1>2, <1>5, WireValueOf DEF SameValue
  <1> QED
    BY <1>3, <1>4, <1>5

(* Every member that the caller moved off its initial value is on the wire   *)
(* of the request that was sent, an explicit zero included, with its value.  *)
THEOREM RequestIsComplete == Spec => []NothingDropped
  <1>1. CallInv => NothingDropped
    BY MovedIsSent, SentIsSame DEF NothingDropped
  <1> QED
    BY <1>1, CallInvariance, PTL

(* The members that go together are sent together. *)
LEMMA SpeakersSent ==
  ASSUME NEW a \in Apis, NEW r, Validate(a, r)
  PROVE  /\ "speaker_diarization" \in Sent(a, r) => r.speaker_diarization # 0
         /\ a # "sentence_v2" /\ r.speaker_diarization # 0 => "speaker_diarization" \in Sent(a, r)
         /\ Sent(a, r) \cap {"speaker_roles", "voiceprint_ids"} # {} =>
               a # "sentence_v2" /\ r.speaker_diarization = Voiceprint
         /\ Sent(a, r) \cap {"enable_speaker_context", "speaker_context_id"} # {} =>
               /\ a \in Streams /\ r.enable_speaker_context # 0
               /\ "enable_speaker_context" \in Sent(a, r)
         /\ "speaker_context_id" \in Sent(a, r) => r.speaker_context_id # NoText
         /\ "speaker_number" \in Sent(a, r) /\ a # "create_v2" =>
               "speaker_diarization" \in Sent(a, r)
  <1>1. CASE a = "sentence_v2"
    BY <1>1, SentOf DEF SerializeSentence, Present, Streams
  <1>2. CASE a = "sentence_v3"
    BY <1>2, SentOf DEF TranscribeRequestToWire, DiarizationSent, Present, Streams
  <1>3. CASE a = "create_v2"
    <2>1. /\ "speaker_diarization" \in Ints(a)
          /\ {"speaker_roles", "voiceprint_ids"} \subseteq Lists(a)
      BY <1>3, IntsOf, ListsOf DEF Speakers
    <2>2. /\ Zero(a, "speaker_diarization") = 0
          /\ Zero(a, "speaker_roles") = << >> /\ Zero(a, "voiceprint_ids") = << >>
      BY <2>1, ZeroOf
    <2>3. r.speaker_diarization # Voiceprint => r.speaker_roles = << >> /\ r.voiceprint_ids = << >>
      BY <1>3, ValidSpeakers
    <2>4. Sent(a, r) = SerializeCreate(r)
      BY <1>3, SentOf
    <2> QED
      BY <1>3, <2>2, <2>3, <2>4 DEF SerializeCreate, Present, Streams
  <1>4. CASE a = "create_v3"
    BY <1>4, SentOf
       DEF CreateTranscriptionRequestToWire, DiarizationSent, EnrollmentSent, Present, Streams
  <1>5. ASSUME a \in Streams PROVE Zero(a, "speaker_context_id") = NoText
    <2>1. "speaker_context_id" \in Strings(a)
      BY <1>5, InitializedTypes
    <2> QED
      BY <2>1, ZeroOf
  <1>6. CASE a = "stream_v2"
    BY <1>5, <1>6, SentOf
       DEF ToMap, DiarizationSent, EnrollmentSent, ContextSent, Present, Streams
  <1>7. CASE a = "stream_v3"
    BY <1>5, <1>7, SentOf
       DEF StartFrame, DiarizationSent, EnrollmentSent, ContextSent, Present, Streams
  <1> QED
    BY <1>1, <1>2, <1>3, <1>4, <1>6, <1>7 DEF Apis

LEMMA WireIsSent ==
  ASSUME CallInv, pc = "posted"
  PROVE  /\ api \in Apis /\ Validate(api, sent) /\ IsRequest(sent)
         /\ DOMAIN wire = Sent(api, sent)
         /\ \A f \in Sent(api, sent) :
               f \notin {"noise_threshold", "audio_urls"} => wire[f] = sent[f]
  BY WireOf, WireValueOf DEF CallInv, RequestsTypeOK, Posted

(* The speaker context and its id, the enrollment and, but for CreateTask of *)
(* v2, the speaker count are sent only with the diarization they belong to,  *)
(* and a v3 task with diarization has one channel.                           *)
THEOREM RequestIsConsistent == Spec => []NothingIgnored
  <1>1. CallInv => NothingIgnored
    <2> SUFFICES ASSUME CallInv PROVE NothingIgnored
      OBVIOUS
    <2>1. CASE pc # "posted"
      <3>1. DOMAIN wire = {}
        BY <2>1 DEF CallInv
      <3> QED
        BY <3>1 DEF NothingIgnored
    <2>2. CASE pc = "posted"
      <3> DEFINE S == Sent(api, sent)
      <3>1. /\ api \in Apis /\ Validate(api, sent) /\ IsRequest(sent) /\ DOMAIN wire = S
        BY <2>2, WireIsSent
      <3>2. /\ "speaker_diarization" \in S => wire["speaker_diarization"] = sent["speaker_diarization"]
            /\ "speaker_context_id" \in S => wire["speaker_context_id"] = sent["speaker_context_id"]
            /\ "channel_num" \in S => wire["channel_num"] = sent["channel_num"]
        BY <2>2, WireIsSent
      <3> HIDE DEF S
      <3>3. /\ "speaker_diarization" \in S => sent.speaker_diarization # 0
            /\ api # "sentence_v2" /\ sent.speaker_diarization # 0 => "speaker_diarization" \in S
            /\ S \cap {"speaker_roles", "voiceprint_ids"} # {} =>
                  api # "sentence_v2" /\ sent.speaker_diarization = Voiceprint
            /\ S \cap {"enable_speaker_context", "speaker_context_id"} # {} =>
                  /\ api \in Streams /\ sent.enable_speaker_context # 0
                  /\ "enable_speaker_context" \in S
            /\ "speaker_context_id" \in S => sent.speaker_context_id # NoText
            /\ "speaker_number" \in S /\ api # "create_v2" => "speaker_diarization" \in S
        BY <3>1, SpeakersSent DEF S
      <3>4. "enable_speaker_context" \in S => "speaker_diarization" \in S
        BY <3>1, <3>3, ValidSpeakers DEF Streams
      <3>5. S \cap {"speaker_roles", "voiceprint_ids"} # {} =>
               "speaker_diarization" \in S /\ wire.speaker_diarization = Voiceprint
        BY <3>2, <3>3 DEF Voiceprint
      <3>6. "speaker_context_id" \in S =>
               "enable_speaker_context" \in S /\ wire.speaker_context_id = "id"
        BY <3>1, <3>2, <3>3 DEF IsRequest, ContextIds
      <3>7. api = "create_v3" /\ "speaker_diarization" \in S => wire.channel_num = 1
        <4>1. api = "create_v3" => "channel_num" \in S
          BY SentOf DEF S, CreateTranscriptionRequestToWire
        <4> QED
          BY <3>1, <3>2, <3>3, <4>1, ValidChannels
      <3> QED
        BY <3>1, <3>3, <3>4, <3>5, <3>6, <3>7 DEF NothingIgnored
    <2> QED
      BY <2>1, <2>2
  <1> QED
    BY <1>1, CallInvariance, PTL

(* The audio that the service decodes is the audio of this call, and         *)
(* data_len is its length.                                                   *)
THEOREM AudioArrives == Spec => []AudioIntact
  <1>1. CallInv => AudioIntact
    <2> SUFFICES ASSUME CallInv, pc = "posted", raw # << >> PROVE AudioIntact
      BY DEF AudioIntact
    <2>1. /\ api \notin Streams /\ sent.source_type = Data /\ sent.data = Base64Encode(raw)
          /\ sent.data_len = Len(raw)
      BY DEF CallInv, Posted
    <2>2. raw \in Seq(Byte)
      BY CallsAssumption DEF CallInv, RequestsTypeOK, Byte
    <2>3. PICK code : code = Base64Encode(raw)
      OBVIOUS
    <2>4. PICK n : n = Len(raw)
      OBVIOUS
    <2>5. code # << >> /\ n # 0
      BY <2>2, <2>3, <2>4, EncodeType
    <2>6. Decodable(code) /\ Base64Decode(code) = raw
      BY <2>2, <2>3, Base64RoundTrip
    <2>7. {"source_type", "data", "data_len"} \subseteq Sent(api, sent)
      <3>1. api \in Apis
        BY WireIsSent
      <3>2. Zero(api, "data") = << >> /\ Zero(api, "data_len") = 0
        <4>1. "data" \in Lists(api) /\ "data_len" \in Ints(api)
          BY <2>1, <3>1, InitializedTypes
        <4> QED
          BY <3>1, <4>1, ZeroOf
      <3>3. sent["data"] = code /\ sent["data_len"] = n /\ sent["source_type"] = Data
        BY <2>1, <2>3, <2>4
      <3>4. CASE api = "sentence_v2"
        BY <2>5, <3>2, <3>3, <3>4, SentOf DEF SerializeSentence, Present
      <3>5. CASE api = "sentence_v3"
        BY <3>3, <3>5, SentOf DEF TranscribeRequestToWire, Url, Data
      <3>6. CASE api = "create_v2"
        BY <2>5, <3>2, <3>3, <3>6, SentOf DEF SerializeCreate, Present
      <3>7. CASE api = "create_v3"
        BY <2>5, <3>3, <3>7, SentOf DEF CreateTranscriptionRequestToWire, Url, Data
      <3> QED
        BY <2>1, <3>1, <3>4, <3>5, <3>6, <3>7 DEF Apis, Streams
    <2>8. /\ wire["source_type"] = sent["source_type"] /\ wire["data"] = sent["data"]
          /\ wire["data_len"] = sent["data_len"]
      BY <2>7, WireIsSent
    <2> QED
      BY <2>1, <2>3, <2>6, <2>8 DEF AudioIntact
  <1> QED
    BY <1>1, CallInvariance, PTL

(* The audio that source_type names is on the wire, and in v3 no other.      *)
THEOREM OneSource == Spec => []SourceOnWire
  <1>1. CallInv => SourceOnWire
    <2> SUFFICES ASSUME CallInv, pc = "posted", api \notin Streams,
                        sent.source_type \in {Url, Data}
                 PROVE  LET sources == DOMAIN wire \cap {"url", "data", "audio_urls"}
                        IN  /\ \/ /\ wire.source_type = Url
                                  /\ sources \cap {"url", "audio_urls"} # {}
                               \/ wire.source_type = Data /\ "data" \in sources
                            /\ api \notin V2 => Cardinality(sources) = 1
      BY DEF SourceOnWire
    <2> DEFINE S == Sent(api, sent)
               sources == S \cap {"url", "data", "audio_urls"}
    <2>1. api \in Apis /\ Validate(api, sent) /\ DOMAIN wire = S
      BY WireIsSent
    <2>2. "source_type" \in S
      BY <2>1, SentOf DEF SerializeSentence, TranscribeRequestToWire, SerializeCreate,
         CreateTranscriptionRequestToWire, Apis, Streams
    <2>3. wire.source_type = sent.source_type
      BY <2>2, WireIsSent
    <2>4. Zero(api, "url") = NoText /\ Zero(api, "data") = << >>
      <3>1. "url" \in Strings(api) /\ "data" \in Lists(api)
        BY <2>1, InitializedTypes
      <3> QED
        BY <2>1, <3>1, ZeroOf
    <2>5. ASSUME SourceGiven(sent)
          PROVE  /\ sent.source_type = Url => sent.url # NoText
                 /\ sent.source_type = Data => sent.data # << >>
      BY <2>5 DEF SourceGiven
    <2>6. CASE api = "sentence_v2"
      <3>1. SourceGiven(sent)
        BY <2>1, <2>6, ValidateOf DEF ValidateSentence
      <3>2. /\ sent.source_type = Url => "url" \in S
            /\ sent.source_type = Data => "data" \in S
        BY <2>4, <2>5, <2>6, <3>1, SentOf DEF SerializeSentence, Present
      <3> QED
        BY <2>1, <2>3, <2>6, <3>2 DEF V2
    <2>7. CASE api = "create_v2"
      <3>1. SourceGiven(sent)
        BY <2>1, <2>7, ValidateOf, Zenon DEF ValidateCreateRequest
      <3>2. /\ sent.source_type = Url => "url" \in S
            /\ sent.source_type = Data => "data" \in S
        BY <2>4, <2>5, <2>7, <3>1, SentOf DEF SerializeCreate, Present
      <3> QED
        BY <2>1, <2>3, <2>7, <3>2 DEF V2
    <2>8. \A x : Cardinality({x}) = 1
      BY FS_Singleton
    <2>9. CASE api = "sentence_v3"
      <3>1. S = TranscribeRequestToWire(sent)
        BY <2>9, SentOf
      <3>2. /\ sent.source_type = Url => sources = {"url"}
            /\ sent.source_type = Data => sources = {"data"}
        BY <3>1 DEF TranscribeRequestToWire, Present, DiarizationSent, Url, Data
      <3> QED
        BY <2>1, <2>3, <2>8, <3>2
    <2>10. CASE api = "create_v3"
      <3>1. S = CreateTranscriptionRequestToWire(sent)
        BY <2>10, SentOf
      <3>2. IF sent.audio_urls # << >> THEN ValidateAudioURLs(sent) ELSE SourceGiven(sent)
        BY <2>1, <2>10, ValidateOf, Zenon DEF ValidateCreateTranscription
      <3>3. Zero("create_v3", "audio_urls") = << >>
        <4>1. "audio_urls" \in Lists("create_v3")
          BY ListsOf
        <4> QED
          BY <4>1, ZeroOf DEF Apis
      <3>4. "audio_urls" \in S <=> sent.audio_urls # << >>
        BY <3>1, <3>3 DEF CreateTranscriptionRequestToWire, Present, DiarizationSent, EnrollmentSent
      <3>5. "url" \in S <=> sent.source_type = Url /\ sent.url # NoText
        BY <3>1 DEF CreateTranscriptionRequestToWire, Present, DiarizationSent, EnrollmentSent
      <3>6. "data" \in S <=> sent.source_type = Data /\ sent.data # << >>
        BY <3>1 DEF CreateTranscriptionRequestToWire, Present, DiarizationSent, EnrollmentSent,
           Url, Data
      <3>7. CASE sent.audio_urls # << >>
        <4>1. sent.source_type = Url /\ sent.url = NoText
          BY <3>2, <3>7 DEF ValidateAudioURLs
        <4>2. sources = {"audio_urls"}
          BY <3>4, <3>5, <3>6, <3>7, <4>1 DEF Url, Data
        <4> QED
          BY <2>1, <2>3, <2>8, <4>1, <4>2
      <3>8. CASE sent.audio_urls = << >>
        <4>1. /\ sent.source_type = Url => sources = {"url"}
              /\ sent.source_type = Data => sources = {"data"}
          BY <2>5, <3>2, <3>4, <3>5, <3>6, <3>8 DEF Url, Data
        <4> QED
          BY <2>1, <2>3, <2>8, <4>1
      <3> QED
        BY <3>7, <3>8
    <2> QED
      BY <2>1, <2>6, <2>7, <2>9, <2>10 DEF Apis, Streams
  <1> QED
    BY <1>1, CallInvariance, PTL

-----------------------------------------------------------------------------
(* The query string of a v2 stream *)

Has(t, x) == \E i \in DOMAIN t : t[i] = x

LEMMA HasConcat ==
  ASSUME NEW A, NEW t \in Seq(A), NEW u \in Seq(A), NEW x, Has(t, x) \/ Has(u, x)
  PROVE  Has(t \o u, x)
  <1>1. PICK w : w = t \o u
    OBVIOUS
  <1>2. /\ DOMAIN t = 1..Len(t) /\ DOMAIN u = 1..Len(u) /\ Len(t) \in Nat /\ Len(u) \in Nat
        /\ DOMAIN w = 1..(Len(t) + Len(u))
    BY <1>1
  <1>3. CASE Has(t, x)
    <2>1. PICK i \in DOMAIN t : t[i] = x
      BY <1>3 DEF Has
    <2>2. i \in DOMAIN w /\ w[i] = x
      BY <1>1, <1>2, <2>1
    <2> QED
      BY <1>1, <2>2 DEF Has
  <1>4. CASE Has(u, x)
    <2>1. PICK i \in DOMAIN u : u[i] = x
      BY <1>4 DEF Has
    <2>2. Len(t) + i \in DOMAIN w
      BY <1>2, <2>1
    <2>3. w[Len(t) + i] = x
      BY <1>1, <1>2, <2>1
    <2> QED
      BY <1>1, <2>2, <2>3 DEF Has
  <1> QED
    BY <1>3, <1>4

LEMMA FlattenHas ==
  ASSUME NEW A, NEW ss \in Seq(Seq(A)), NEW k \in DOMAIN ss, NEW x, Has(ss[k], x)
  PROVE  Has(FlattenSeq(ss), x)
  <1> DEFINE Kept(n) == \A t \in Seq(Seq(A)) : Len(t) = n =>
                           \A i \in DOMAIN t : Has(t[i], x) => Has(FlattenSeq(t), x)
             I == {n \in Nat : Kept(n)}
  <1>1. 0 \in I
    OBVIOUS
  <1>2. ASSUME NEW n \in I PROVE n + 1 \in I
    <2>1. n \in Nat /\ Kept(n)
      OBVIOUS
    <2> SUFFICES ASSUME NEW t \in Seq(Seq(A)), Len(t) = n + 1, NEW i \in DOMAIN t, Has(t[i], x)
                 PROVE  Has(FlattenSeq(t), x)
      BY <2>1
    <2>2. PICK b \in Seq(Seq(A)), c \in Seq(A) : t = Append(b, c) /\ Len(b) = n
      BY <2>1, Last1
    <2>3. FlattenSeq(t) = FlattenSeq(b) \o c
      BY <2>2, FlattenAppend
    <2>4. FlattenSeq(b) \in Seq(A)
      BY FlattenType
    <2>5. CASE i = n + 1
      <3>1. t[i] = c
        BY <2>1, <2>2, <2>5
      <3> QED
        BY <2>3, <2>4, <3>1, HasConcat
    <2>6. CASE i # n + 1
      <3>1. i \in DOMAIN b /\ t[i] = b[i]
        BY <2>1, <2>2, <2>6
      <3>2. Has(FlattenSeq(b), x)
        BY <2>1, <2>2, <3>1
      <3> QED
        BY <2>3, <2>4, <3>2, HasConcat
    <2> QED
      BY <2>5, <2>6
  <1>3. I = Nat
    <2>1. I \subseteq Nat
      OBVIOUS
    <2> HIDE DEF I
    <2> QED
      BY <1>1, <1>2, <2>1, Induction
  <1>4. Len(ss) \in I
    BY <1>3
  <1> QED
    BY <1>4

LEMMA TextKeysOf ==
  /\ DOMAIN TextKeys = 1..10 /\ Len(TextKeys) = 10
  /\ TextKeys[7] = "signature" /\ TextKeys[9] = "usersig"
  /\ \A i \in 1..10 : TextKeys[i] \in Signed \/ TextKeys[i] \in Strings("stream_v2")
  /\ \A i \in 1..10 : TextKeys[i] \in Strings("stream_v2") =>
        TextKeys[i] \notin Signed /\ TextKeys[i] \notin {"noise_threshold", "audio_urls"}
  <1>1. DOMAIN TextKeys = 1..10 /\ Len(TextKeys) = 10
    BY DEF TextKeys
  <1>2. TextKeys[7] = "signature" /\ TextKeys[9] = "usersig"
    BY DEF TextKeys
  <1>3. ASSUME NEW i \in 1..10
        PROVE  TextKeys[i] \in Signed \/ TextKeys[i] \in Strings("stream_v2")
    BY StringsOf DEF TextKeys, Signed, StreamStrings
  <1>4. \A f \in Strings("stream_v2") : f \notin Signed /\ f \notin {"noise_threshold", "audio_urls"}
    BY StringsOf DEF Signed, StreamStrings
  <1> QED
    BY <1>1, <1>2, <1>3, <1>4

LEMMA Letters ==
  /\ \A i \in 1..10 : Letter(i) \in Seq(QueryChar)
  /\ \A i, j \in 1..10 : Letter(i) = Letter(j) => i = j
  <1>1. ASSUME NEW i \in 1..10 PROVE Letter(i) \in Seq(QueryChar)
    <2>1. PICK c : c = 96 + i
      OBVIOUS
    <2>2. c \in QueryChar
      BY <2>1 DEF QueryChar, Byte, Amp, Equals
    <2> QED
      BY <2>1, <2>2 DEF Letter
  <1>2. ASSUME NEW i \in 1..10, NEW j \in 1..10, Letter(i) = Letter(j) PROVE i = j
    <2>1. Letter(i)[1] = 96 + i /\ Letter(j)[1] = 96 + j
      BY DEF Letter
    <2> QED
      BY <1>2, <2>1
  <1> QED
    BY <1>1, <1>2

(* The keys of the two copies of the signature, and the parameters of a *)
(* query that carries it under no other.                                *)
SignedKeys == {Letter(i) : i \in {j \in DOMAIN TextKeys : TextKeys[j] \in Signed}}
SignedParam == {p \in Param : p.key \in SignedKeys => p.value = GenUserSig}

LEMMA QueryEntry ==
  ASSUME NEW i \in 1..10, NEW text \in Seq(Byte),
         TextKeys[i] \in Signed => text = GenUserSig
  PROVE  << [key |-> Letter(i), value |-> text] >> \in Seq(SignedParam)
  <1>1. PICK k : k = Letter(i)
    OBVIOUS
  <1>2. PICK p : p = [key |-> k, value |-> text]
    OBVIOUS
  <1>3. k \in Seq(QueryChar)
    BY <1>1, Letters
  <1>4. p \in Param /\ p.key = k /\ p.value = text
    BY <1>2, <1>3 DEF Param
  <1>5. k \in SignedKeys => TextKeys[i] \in Signed
    BY <1>1, Letters, TextKeysOf DEF SignedKeys
  <1>6. p \in SignedParam
    BY <1>4, <1>5 DEF SignedParam
  <1> QED
    BY <1>1, <1>2, <1>6

LEMMA QueryParamsOf ==
  ASSUME CallInv, pc = "posted", api = "stream_v2"
  PROVE  /\ QueryParams \in Seq(SignedParam)
         /\ \A k \in SignedKeys : Has(QueryParams, [key |-> k, value |-> GenUserSig])
  <1> DEFINE entry(i, text) == << [key |-> Letter(i), value |-> text] >>
             cell(i) == IF TextKeys[i] \in Signed THEN entry(i, GenUserSig)
                        ELSE IF TextKeys[i] \in DOMAIN wire
                        THEN entry(i, Text(wire[TextKeys[i]])) ELSE << >>
             cells == [i \in DOMAIN TextKeys |-> cell(i)]
  <1>1. QueryParams = FlattenSeq(cells)
    BY DEF QueryParams
  <1>2. GenUserSig \in Seq(Byte)
    <2>1. Ticket \in Seq(Byte)
      BY CallsAssumption DEF Byte
    <2> QED
      BY <2>1, Base64UrlRoundTrip DEF GenUserSig
  <1>3. ASSUME NEW i \in 1..10 PROVE cell(i) \in Seq(SignedParam)
    <2>1. CASE TextKeys[i] \in Signed
      <3>1. entry(i, GenUserSig) \in Seq(SignedParam)
        BY <1>2, QueryEntry
      <3> QED
        BY <2>1, <3>1
    <2>2. CASE TextKeys[i] \notin Signed /\ TextKeys[i] \in DOMAIN wire
      <3>1. PICK f : f = TextKeys[i]
        OBVIOUS
      <3>2. f \in Strings(api) /\ f \notin {"noise_threshold", "audio_urls"}
        BY <2>2, <3>1, TextKeysOf
      <3>3. wire[f] = sent[f] /\ IsText(sent[f])
        BY <2>2, <3>1, <3>2, WireIsSent DEF IsRequest
      <3>4. PICK text \in Seq(Byte) : text = Text(wire[f])
        BY <3>3 DEF IsText, Byte
      <3>5. entry(i, text) \in Seq(SignedParam)
        BY <2>2, QueryEntry
      <3> QED
        BY <2>2, <3>1, <3>4, <3>5
    <2>3. CASE TextKeys[i] \notin Signed /\ TextKeys[i] \notin DOMAIN wire
      BY <2>3
    <2> QED
      BY <2>1, <2>2, <2>3
  <1>4. cells \in Seq(Seq(SignedParam)) /\ DOMAIN cells = 1..10
    <2>1. cells = [i \in 1..10 |-> cell(i)]
      BY TextKeysOf
    <2> HIDE DEF cell
    <2> QED
      BY <1>3, <2>1
  <1>5. ASSUME NEW k \in SignedKeys PROVE Has(QueryParams, [key |-> k, value |-> GenUserSig])
    <2>1. PICK i \in 1..10 : TextKeys[i] \in Signed /\ k = Letter(i)
      BY TextKeysOf DEF SignedKeys
    <2>2. PICK x : x = [key |-> k, value |-> GenUserSig]
      OBVIOUS
    <2>3. i \in DOMAIN cells /\ cells[i] = << x >>
      BY <2>1, <2>2, TextKeysOf
    <2>4. Has(cells[i], x)
      BY <2>3 DEF Has
    <2> HIDE DEF cells
    <2> QED
      BY <1>1, <1>4, <2>2, <2>3, <2>4, FlattenHas
  <1>6. FlattenSeq(cells) \in Seq(SignedParam)
    <2> HIDE DEF cells
    <2> QED
      BY <1>4, FlattenType
  <1> QED
    BY <1>1, <1>5, <1>6

(* The gateway reads from the query string of a v2 stream the parameters     *)
(* that were put into it, and both copies of the signature decode to the     *)
(* document that was signed, whatever the texts and the document are.        *)
THEOREM QueryArrives == Spec => []QueryIntact
  <1>1. CallInv => QueryIntact
    <2> SUFFICES ASSUME CallInv, pc = "posted", api = "stream_v2" PROVE QueryIntact
      BY DEF QueryIntact
    <2>1. PICK q : q = QueryParams
      OBVIOUS
    <2>2. q \in Seq(SignedParam) /\ \A k \in SignedKeys : Has(q, [key |-> k, value |-> GenUserSig])
      BY <2>1, QueryParamsOf
    <2>3. Letter(7) \in SignedKeys
      BY TextKeysOf DEF SignedKeys, Signed
    <2>4. q # << >>
      <3>1. PICK i \in DOMAIN q : TRUE
        BY <2>2, <2>3 DEF Has
      <3> QED
        BY <3>1
    <2>5. q \in Seq(Param)
      BY <2>2 DEF SignedParam
    <2>6. ParseQuery(BuildQueryString(q)) = q
      BY <2>4, <2>5, QueryRoundTrip
    <2>7. ASSUME NEW k \in SignedKeys PROVE \E i \in DOMAIN q : q[i].key = k
      <3>1. PICK i \in DOMAIN q : q[i] = [key |-> k, value |-> GenUserSig]
        BY <2>2 DEF Has
      <3> QED
        BY <3>1
    <2>8. ASSUME NEW i \in DOMAIN q, q[i].key \in SignedKeys
          PROVE  Base64UrlDecode(q[i].value) = Ticket
      <3>1. q[i] \in SignedParam
        BY <2>2
      <3>2. q[i].value = GenUserSig
        BY <2>8, <3>1 DEF SignedParam
      <3>3. Ticket \in Seq(Byte)
        BY CallsAssumption DEF Byte
      <3> QED
        BY <3>2, <3>3, Base64UrlRoundTrip DEF GenUserSig
    <2> QED
      BY <2>1, <2>6, <2>7, <2>8, Zenon DEF QueryIntact, SignedKeys
  <1> QED
    BY <1>1, CallInvariance, PTL
=============================================================================
