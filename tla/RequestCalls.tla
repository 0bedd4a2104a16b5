---------------------------- MODULE RequestCalls ----------------------------
(***************************************************************************)
(* An application fills a request and calls the SDK with it, again and     *)
(* again: Recognize and CreateTask with their *Data, *URL and *WithOptions *)
(* forms, and Start of the two streams.  A recognizer of files or          *)
(* sentences keeps no state between calls; what lasts is the caller's      *)
(* request object, which the *WithOptions calls write to, and, in a        *)
(* stream, the options of the recognizer.  The HTTP service is external.   *)
(***************************************************************************)
EXTENDS Requests, Encoding

CONSTANTS
    Values(_, _),   \* what the application assigns to a member of a request
    RawData,        \* the audio it passes
    Text(_),        \* the characters of a text value
    NotUTF8,        \* the text values whose characters are not UTF-8
    Ticket,         \* the signed and compressed document of a UserSig
    MaxAudioSize,   \* kMaxAudioSize, in bytes
    MaxEdits(_)     \* bound: assignments to a request

(* SetSpeakerContextId trims what it is given. *)
Stored(f, v) ==
    IF f # "speaker_context_id" THEN v
    ELSE IF v = "padded" THEN "id" ELSE IF v = "blank" THEN NoText ELSE v

(* What a member may hold, by its C++ type; a context id is trimmed. *)
IsText(v) == Text(v) \in Seq(0..255)
IsList(v) == v \in Seq({v[i] : i \in DOMAIN v})
ContextIds == {NoText, "id"}

ASSUME CallsAssumption ==
    /\ MaxAudioSize \in Nat /\ \A a \in Apis : MaxEdits(a) \in Nat
    /\ << >> \in RawData /\ RawData \subseteq Seq(0..255)
    /\ Ticket \in Seq(0..255)

ASSUME ValuesAssumption ==
    /\ \A a \in Apis :
          /\ \A f \in Ints(a) : Values(a, f) \subseteq Int
          /\ \A f \in Strings(a) : \A v \in Values(a, f) : IsText(Stored(f, v))
          /\ \A f \in Optionals(a) \cup Lists(a) : \A v \in Values(a, f) : IsList(v)
    /\ \A a \in Streams : \A v \in Values(a, "speaker_context_id") :
          Stored("speaker_context_id", v) \in ContextIds
    /\ \A v \in {NoText, "engine", "pcm", "http", "uuid"} : IsText(v)

VARIABLES
    api,        \* the request in use
    cred,       \* "signed": a UserSig or the key to make one; or "none"
    req,        \* the caller's request, or the options of the stream
    edits,      \* assignments so far
    pc,         \* between calls, waiting for the answer, returned; a stream
                \* that started and a process that crashed do not call again
    raw,        \* the audio of the call, if it took any
    sent,       \* the request that the call in progress sent
    wire,       \* the parameters of it
    reply,      \* the answer, until the application looked at the result
    result      \* how the call ended

callVars == <<pc, raw, sent, wire, reply, result>>
vars == <<api, cred, req, edits, callVars>>

NoReply == [status |-> "none", body |-> "none"]

(* The service and what may stand between it and the client: a result, an  *)
(* error in the service's own form, an object without any of the fields, a *)
(* result or an error with fields of a wrong type, an object whose error   *)
(* is not where or not what the SDK looks for, JSON of another shape,      *)
(* something else.                                                         *)
Replies ==
    [status : {"200", "2xx", "other"},
     body : {"result", "error", "bare", "bad_types", "bad_error", "odd_error",
             "other_json", "not_json"}]

Results ==
    {"none", "success", "InvalidParam", "AuthFailed", "ConnectFailed",
     "ServerError", "ReadFailed", "ForeignException", "crash"}

(* The types, and what a call leaves behind at each control point. *)
RequestsTypeOK ==
    /\ api \in Apis /\ cred \in {"signed", "none"}
    /\ DOMAIN req = Members(api) /\ DOMAIN sent \in {Members(api), {}}
    /\ DOMAIN wire \subseteq Members(api)
    /\ edits \in 0..MaxEdits(api)
    /\ pc \in {"idle", "posted", "returned", "started", "dead"}
    /\ raw \in RawData
    /\ reply \in Replies \cup {NoReply}
    /\ result \in Results
    /\ pc = "posted" <=> sent # << >>
    /\ pc \in {"idle", "posted"} <=> result = "none"

(* What RecognizeData, RecognizeURL and their CreateTask forms fill in. *)
Fresh(engine) ==
    [f \in Members(api) |->
        CASE f = "engine_model_type" -> engine
          [] f = "voice_format" /\ api \notin Streams -> "pcm"
          [] f \in {"channel_num", "res_text_format"} -> 1
          [] OTHER -> Default(api)[f]]

(* The request as it is constructed, or with its required members filled in. *)
Init ==
    /\ api \in Apis /\ cred \in {"signed", "none"}
    /\ req \in {Default(api), Fresh("engine")} /\ edits = 0
    /\ pc = "idle" /\ raw = << >>
    /\ sent = << >> /\ wire = << >> /\ reply = NoReply /\ result = "none"

-----------------------------------------------------------------------------
(* The application between two calls *)

Edit ==
    /\ pc = "idle" /\ edits < MaxEdits(api)
    /\ \E f \in Members(api) : \E v \in Values(api, f) :
          req' = [req EXCEPT ![f] = Stored(f, v)]
    /\ req' # req
    /\ edits' = edits + 1
    /\ UNCHANGED <<api, cred, callVars>>

(* A member of a request is assigned. *)
Assign == api \notin Streams /\ Edit

(* The setter of an option of a stream is called. *)
SetOption == api \in Streams /\ Edit

(* It has looked at the result of a call, or caught what it threw. *)
Resume ==
    /\ pc = "returned"
    /\ pc' = "idle"
    /\ raw' = << >> /\ reply' = NoReply /\ result' = "none"
    /\ UNCHANGED <<api, cred, req, edits, sent, wire>>

-----------------------------------------------------------------------------
(* Calls *)

(* The fault: the error is reported and the call goes on as if it were idle. *)
RejectGoesOn(e) ==
    /\ result' = e
    /\ UNCHANGED <<api, cred, edits, pc, sent, wire, reply>>

Reject(e) ==
    /\ result' = e
    /\ pc' = "returned"
    /\ UNCHANGED <<api, cred, edits, sent, wire, reply>>

(* The credential has a UserSig, or a secret key that makes one; an empty key *)
(* throws.                                                                    *)
HasUserSig == cred = "signed"

(* GenUserSig: the document is signed and compressed by libraries, its text *)
(* form is the SDK's.                                                       *)
GenUserSig == Base64UrlEncode(Ticket)

(* The JSON library serializes UTF-8 only and throws its own exception on any *)
(* other text.                                                                *)
Dumpable(r) == JsonTexts(api, r) \cap NotUTF8 = {}

(* Recognize, CreateTask and Connect: validate r, resolve the UserSig,         *)
(* serialize, send.  CreateTask of v2 serializes before it resolves the        *)
(* UserSig.                                                                    *)
Post(r) ==
    \/ ~Validate(api, r) /\ Reject("InvalidParam")
    \/ /\ Validate(api, r) /\ ~HasUserSig /\ (Dumpable(r) \/ api # "create_v2")
       /\ Reject("AuthFailed")
    \/ /\ Validate(api, r) /\ ~Dumpable(r) /\ (HasUserSig \/ api = "create_v2")
       /\ Reject("ForeignException")
    \/ /\ Validate(api, r) /\ HasUserSig /\ Dumpable(r) /\ FrameTooLong(api, r)
       /\ Reject("InvalidParam")
    \/ /\ Validate(api, r) /\ HasUserSig /\ Dumpable(r) /\ ~FrameTooLong(api, r)
       /\ sent' = r /\ wire' = ToWire(api, r)
       /\ pc' = "posted"
       /\ UNCHANGED <<api, cred, edits, reply, result>>

(* Recognize(req), CreateTask(req) *)
Call ==
    /\ pc = "idle" /\ api \notin Streams
    /\ raw' = << >>
    /\ Post(req)
    /\ UNCHANGED req

(* The text parameters of BuildQueryStringWithSignature in the order of      *)
(* std::map, each under a letter in place of its key; two carry the UserSig. *)
TextKeys ==
    << "customization_id", "engine_model_type", "hotword_id", "hotword_list",
       "language", "replace_text_id", "signature", "speaker_context_id",
       "usersig", "voice_id" >>

Signed == {"signature", "usersig"}
Letter(i) == << 96 + i >>

QueryParams ==
    LET entry(i, text) == << [key |-> Letter(i), value |-> text] >>
    IN  FlattenSeq([i \in DOMAIN TextKeys |->
            IF TextKeys[i] \in Signed THEN entry(i, GenUserSig)
            ELSE IF TextKeys[i] \in DOMAIN wire THEN entry(i, Text(wire[TextKeys[i]]))
            ELSE << >>])

(* Start of a stream.  Validation comes first; then Connect makes a voice id *)
(* if there is none, and keeps it although a later step may fail.            *)
Start ==
    /\ pc = "idle" /\ api \in Streams
    /\ LET r == IF req.voice_id = NoText THEN [req EXCEPT !.voice_id = "uuid"] ELSE req
       IN  /\ req' = IF Validate(api, req) THEN r ELSE req
           /\ Post(r)
    /\ UNCHANGED raw

AudioOK(data) == data # << >> /\ Len(data) <= MaxAudioSize

(* The fault: audio that is already in the request is kept. *)
WithAudioOnce(r, data) ==
    IF r.data # << >> THEN [r EXCEPT !.source_type = Data]
    ELSE [r EXCEPT !.source_type = Data, !.data = Base64Encode(data), !.data_len = Len(data)]

(* The request with the audio in it. *)
WithAudio(r, data) ==
    [r EXCEPT !.source_type = Data, !.data = Base64Encode(data), !.data_len = Len(data)]

(* RecognizeData, CreateTaskFromData *)
CallData ==
    /\ pc = "idle" /\ api \notin Streams
    /\ \E data \in RawData, engine \in {NoText, "engine"} :
          /\ raw' = data
          /\ \/ ~AudioOK(data) /\ Reject("InvalidParam")
             \/ AudioOK(data) /\ Post(WithAudio(Fresh(engine), data))
    /\ UNCHANGED req

(* RecognizeURL, CreateTaskFromURL; an empty URL is rejected. *)
CallURL ==
    /\ pc = "idle" /\ api \notin Streams
    /\ raw' = << >>
    /\ \/ Reject("InvalidParam")
       \/ \E engine \in {NoText, "engine"} :
             Post([Fresh(engine) EXCEPT !.source_type = Url, !.url = "http"])
    /\ UNCHANGED req

(* RecognizeDataWithOptions, CreateTaskFromDataWithOptions: the audio goes *)
(* into the caller's request, and stays there.                             *)
CallWithOptions ==
    /\ pc = "idle" /\ api \notin Streams
    /\ \E data \in RawData :
          /\ raw' = data
          /\ \/ ~AudioOK(data) /\ Reject("InvalidParam") /\ UNCHANGED req
             \/ /\ AudioOK(data)
                /\ req' = WithAudio(req, data)
                /\ Post(WithAudio(req, data))

(* ... with a null request. *)
CallWithoutRequest ==
    /\ pc = "idle" /\ api \notin Streams
    /\ Reject("InvalidParam")
    /\ UNCHANGED <<req, raw>>

-----------------------------------------------------------------------------
(* The answer *)

(* v2: any status but 200 is an error; the envelope and its Error are looked *)
(* at, and the fields are read inside a try block.  An Error that is no      *)
(* object is passed over.  Without its fields the object of a sentence is an *)
(* empty result, that of a task has no id.                                   *)
OutcomeV2(p) ==
    IF p.status # "200" THEN "ServerError"
    ELSE CASE p.body = "not_json" -> "ReadFailed"
           [] p.body \in {"other_json", "error", "bad_error"} -> "ServerError"
           [] p.body = "bad_types" -> "ReadFailed"
           [] p.body \in {"bare", "odd_error"} ->
                IF api = "create_v2" THEN "ServerError" ELSE "success"
           [] p.body = "result" -> "success"

(* The fault: PostFlat does not look at the status. *)
OutcomeV3AnyStatus(p) ==
    CASE p.body \in {"not_json", "other_json", "error"} -> "ServerError"
      [] p.body \in {"bad_error", "bad_types"} -> "ForeignException"
      [] p.body \in {"bare", "odd_error"} ->
           IF api = "create_v3" THEN "ServerError" ELSE "success"
      [] p.body = "result" -> "success"

(* v3: a body that is not an object, and a status that is no success and    *)
(* whose body has no code, are errors; then the code decides, and an error  *)
(* in any other form is passed over.  No try block is around the fields.    *)
OutcomeV3(p) ==
    CASE p.body \in {"not_json", "other_json", "error"} -> "ServerError"
      [] p.body = "bad_error" -> "ForeignException"
      [] p.body \in {"bare", "odd_error", "bad_types", "result"} /\ p.status = "other" ->
           "ServerError"
      [] p.body = "bad_types" /\ p.status # "other" -> "ForeignException"
      [] p.body \in {"bare", "odd_error"} /\ p.status # "other" ->
           IF api = "create_v3" THEN "ServerError" ELSE "success"
      [] p.body = "result" /\ p.status # "other" -> "success"

(* The call is over: what it sent is looked at no more. *)
Forget == raw' = << >> /\ sent' = << >> /\ wire' = << >>

(* The answer arrives and the call returns or throws. *)
Receive ==
    /\ pc = "posted" /\ api \notin Streams
    /\ \E p \in Replies :
          /\ reply' = p
          /\ result' = IF api \in V2 THEN OutcomeV2(p) ELSE OutcomeV3(p)
    /\ pc' = "returned"
    /\ Forget
    /\ UNCHANGED <<api, cred, req, edits>>

(* The transport fails: v2 throws, v3 stores through a null pointer. *)
TransportFails ==
    /\ pc = "posted" /\ api \notin Streams
    /\ IF api \in V2 THEN result' = "ConnectFailed" /\ pc' = "returned"
                     ELSE result' = "crash" /\ pc' = "dead"
    /\ Forget
    /\ UNCHANGED <<api, cred, req, edits, reply>>

(* The stream is connected, or the dial fails and Start may be tried again. *)
Dialled ==
    /\ pc = "posted" /\ api \in Streams
    /\ \/ pc' = "started" /\ result' = "success"
       \/ pc' = "returned" /\ result' = "ConnectFailed"
    /\ Forget
    /\ UNCHANGED <<api, cred, req, edits, reply>>

Terminated == pc \in {"started", "dead"} /\ UNCHANGED vars

Next ==
    \/ Assign \/ SetOption \/ Resume
    \/ Call \/ CallData \/ CallURL \/ CallWithOptions \/ CallWithoutRequest \/ Start
    \/ Receive \/ TransportFails \/ Dialled
    \/ Terminated

Spec == Init /\ [][Next]_vars

-----------------------------------------------------------------------------
(* Properties *)

(* The inductive invariant: what the application edits is always a request,  *)
(* and a call that waits for its answer has sent a request that validation   *)
(* accepted, that JSON can carry and that fits a frame, as it was then, with *)
(* the audio of this call in it.                                             *)
IsRequest(r) ==
    /\ DOMAIN r = Members(api)
    /\ \A f \in Ints(api) : r[f] \in Int
    /\ \A f \in Strings(api) : IsText(r[f])
    /\ \A f \in Optionals(api) \cup Lists(api) : IsList(r[f])
    /\ api \in Streams => r.speaker_context_id \in ContextIds

Posted ==
    /\ IsRequest(sent)
    /\ Validate(api, sent) /\ HasUserSig /\ Dumpable(sent) /\ ~FrameTooLong(api, sent)
    /\ wire = ToWire(api, sent)
    /\ raw # << >> =>
          /\ api \notin Streams
          /\ sent.source_type = Data /\ sent.data = Base64Encode(raw)
          /\ sent.data_len = Len(raw)

CallInv ==
    /\ RequestsTypeOK
    /\ IsRequest(req)
    /\ pc = "idle" => raw = << >>
    /\ IF pc = "posted" THEN Posted ELSE sent = << >> /\ wire = << >>

(* Every member that the caller moved off its initial value is on the wire   *)
(* of the request that was sent, an explicit zero included, with its value,  *)
(* to the half of a thousandth for the threshold of a v2 stream.  Left out   *)
(* are only a speaker count or context id whose mode is off, the audio that  *)
(* source_type does not name in v3, and the 0 of convert_num_mode that a v2  *)
(* stream cannot express.                                                    *)
LeftOut(f) ==
    \/ f = "speaker_number" /\ sent.speaker_diarization = 0
    \/ f = "speaker_context_id" /\ sent.enable_speaker_context = 0
    \/ api \in {"sentence_v3", "create_v3"} /\ f = "url" /\ sent.source_type # Url
    \/ /\ api \in {"sentence_v3", "create_v3"} /\ f \in {"data", "data_len"}
       /\ sent.source_type # Data
    \/ api = "create_v3" /\ f = "data_len" /\ sent.data = << >>
    \/ api = "stream_v2" /\ f = "convert_num_mode" /\ sent.convert_num_mode = 0

SameValue(f) ==
    IF f = "noise_threshold"
    THEN \A i \in DOMAIN sent[f] : sent[f][i] - wire[f][i] \in -5..5
    ELSE IF f = "audio_urls" THEN Len(wire[f]) = Len(sent[f])
    ELSE wire[f] = sent[f]

NothingDropped ==
    pc = "posted" =>
        \A f \in Members(api) :
            sent[f] # Default(api)[f] /\ ~LeftOut(f) => f \in DOMAIN wire /\ SameValue(f)

(* Nothing is sent that the service would silently ignore: a speaker context *)
(* and a speaker count go only with diarization, an enrollment only with the *)
(* voiceprint mode, a context id only trimmed and with its mode, and in v3   *)
(* diarization never with two channels.  CreateTask of v2 is an exception:   *)
(* it sends its speaker count whatever the diarization is, and it does not   *)
(* look at the channels.                                                     *)
NothingIgnored ==
    /\ "enable_speaker_context" \in DOMAIN wire => "speaker_diarization" \in DOMAIN wire
    /\ DOMAIN wire \cap {"speaker_roles", "voiceprint_ids"} # {} =>
          "speaker_diarization" \in DOMAIN wire /\ wire.speaker_diarization = Voiceprint
    /\ "speaker_context_id" \in DOMAIN wire =>
          "enable_speaker_context" \in DOMAIN wire /\ wire.speaker_context_id = "id"
    /\ "speaker_number" \in DOMAIN wire =>
          "speaker_diarization" \in DOMAIN wire \/ api = "create_v2"
    /\ api = "create_v3" /\ "speaker_diarization" \in DOMAIN wire => wire.channel_num = 1

(* The audio the service decodes is the audio of this very call, although    *)
(* the request object still holds that of an earlier one, and data_len is    *)
(* its length.                                                               *)
AudioIntact ==
    pc = "posted" /\ raw # << >> =>
        /\ wire.source_type = Data
        /\ Decodable(wire.data) /\ Base64Decode(wire.data) = raw
        /\ wire.data_len = Len(raw)

(* The gateway reads from the query string of a v2 stream the texts and the   *)
(* UserSig that were put into it: no &, =, + or % of a value (hotwords, a     *)
(* persisted context id, the signature) moves into its neighbour or is lost,  *)
(* and both copies of the signature decode to the document that was signed.   *)
QueryIntact ==
    pc = "posted" /\ api = "stream_v2" =>
        LET parsed == ParseQuery(BuildQueryString(QueryParams))
            signed == {Letter(i) : i \in {j \in DOMAIN TextKeys : TextKeys[j] \in Signed}}
        IN  /\ parsed = QueryParams
            /\ \A k \in signed : \E i \in DOMAIN parsed : parsed[i].key = k
            /\ \A i \in DOMAIN parsed :
                  parsed[i].key \in signed => Base64UrlDecode(parsed[i].value) = Ticket

(* The audio that source_type names is on the wire, and in v3 exactly one    *)
(* source is: a URL, data, or the pieces of a distributed recording.         *)
SourceOnWire ==
    pc = "posted" /\ api \notin Streams /\ sent.source_type \in {Url, Data} =>
        LET sources == DOMAIN wire \cap {"url", "data", "audio_urls"}
        IN  /\ \/ wire.source_type = Url /\ sources \cap {"url", "audio_urls"} # {}
               \/ wire.source_type = Data /\ "data" \in sources
            /\ api \notin V2 => Cardinality(sources) = 1

(* A call succeeds only on an object that came with a success status: no     *)
(* error page of a gateway and no error in the service's own form is taken   *)
(* for a result, and a task is created only by an answer that names it.  A   *)
(* sentence has no member that must be there: an object without any of them, *)
(* although it holds an error in another form, is an empty text.             *)
NoFalseSuccess ==
    result = "success" /\ api \notin Streams =>
        /\ reply.status # "other"
        /\ reply.body \in {"result", "bare", "odd_error"}
        /\ api \in {"create_v2", "create_v3"} => reply.body = "result"

(* Each piece of a distributed recording reaches the service under the keys  *)
(* documented for audio_urls: index and url.                                 *)
PiecesAsDocumented ==
    "audio_urls" \in DOMAIN wire =>
        \A i \in DOMAIN wire.audio_urls : {"index", "url"} \subseteq DOMAIN wire.audio_urls[i]
=============================================================================
