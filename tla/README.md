# Verification of the TRTC ASR C++ SDK

TLA+ models of `trtc-asr-sdk-cpp`, model-checked with TLC and proved with TLAPS:
the realtime recognizers, the WebSocket client and its frames, the SIGPIPE guard,
the file recognizer, and the requests of all APIs. The reference is the code under
`src/`; `PROJECT.json` maps every definition to the lines it stands for.

## 1. The system

The SDK is a C++ client library for a speech recognition service. An
application either streams audio over a WebSocket and hears results through a
listener, or sends HTTP requests about recorded audio. Each API exists twice:
v2 (`speech_recognizer.cc`, `file_recognizer.cc`, `sentence_recognizer.cc`) and
v3 (`v3.cc`).

| Component | State | Operations | Interaction |
|---|---|---|---|
| `RecognizerSharedState` (`speech_recognizer.h`, `.cc` 17-71) | lifecycle `state`, `conn` under `conn_mu`, `write_mu`, `done`/`terminal_received` under `done_mu`, `finish_once`, reader thread id | `Finish`, `Close`, `WaitForReadLoopOrClose`, `MarkTerminalReceived`, `SignalDone`, `CalledFromListenerCallback` | shared by application threads, the reader thread and a detached watchdog through `shared_ptr` |
| v2 `SpeechRecognizer` | options, the shared state, the reader thread | `Start` (validate, dial), `Write`, `Stop`, destructor, `ReadLoop` | calls `WsClient`; the reader calls the listener, whose callbacks may call back |
| v3 `SpeechRecognizer` | the same | the same, with a start frame and an acknowledgement awaited inside `Start` | the same |
| v2, v3 `FileRecognizer` | none between calls | `CreateTask`, `DescribeTask`, `WaitForResultWithInterval` | one HTTP request at a time, a server task in the background |
| v2, v3 `SentenceRecognizer` | none; the caller's request object | `Recognize`, `RecognizeData`, `RecognizeURL`, `RecognizeDataWithOptions` | HTTP; the last one writes into the caller's request |
| `WsClient` | socket or SSL object, `write_mu_` | `Connect`, `SendText`, `SendBinary`, `Read`, `Close` | a reader and writers use it concurrently |
| Frame codec (`EncodeWsFrame`, `Read`) | none | header and mask of a frame | inside `WsClient` |
| `HttpPost` | none | one libcurl request with a total timeout | called by the file and sentence recognizers |
| `ScopedSigpipeSuppressor` | signal mask and pending signals of the thread | enter, leave | around SSL calls; shares the signal state with the host |
| Option validation, request building | the options of a stream, a request object | setters, `Validate*`, the serializers | called by every API before it sends |
| UserSig, query string | none | `GenUserSig`, Base64, `QueryEscape` | in every request |
| Response parsing | none | pure functions | called by the recognizers |

What is hard here:

* **Interleavings.** Two application threads, the reader, and a watchdog work on
  six shared fields under four locks and an atomic. `Write` checks the state
  twice; `Stop` reads the connection after its compare-exchange.
* **Callbacks on the reader thread.** They may call `Stop` and `Write`, block, or
  throw in the middle of a terminal dispatch.
* **Several ways to end.** The server's final response, its error, a broken
  connection, a throwing callback, `Stop`, a `Stop` that times out, the
  destructor: each must release the socket, report once and let everyone return.
* **Timeouts racing late answers.** The stop timeout against a terminal response,
  the ack deadline against a silent server, the polling deadline of the file
  recognizer against a task that finishes during the last sleep.
* **Signals.** A SIGPIPE of the SDK and one of the host look alike, one pending
  signal hides a second, and another thread may take what was seen a call ago.
* **Requests that live longer than a call.** Options are set one at a time, and
  `*WithOptions` leaves audio in the caller's request.
* **Failures half way.** A `Start` that fails after publishing its connection, a
  send that blocks with a lock held, a request whose transport fails.

`hazards` in `PROJECT.json` lists each one at its line, with the properties that
would catch it going wrong.

What makes each component correct:

* realtime recognizers: nothing follows the end signal; one outcome, delivered
  last and on a stopped session; every ending releases the connection; nothing
  waits on itself; `Stop`, `Start` and the destructor return; a failed `Start`
  can be repeated;
* file recognizers: a wait ends, not much after its timeout, and reports what
  the task really came to; a failure is reported as an `ASRError`;
* WebSocket client: frames go out unmixed and come in whole, once and in order,
  however their bytes arrive and whatever their length; `Close` unblocks everyone;
* SIGPIPE guard: the SDK's signal does not reach the host, the host's is not
  taken, mask and errno are as before, nothing waits;
* requests: what the caller configured reaches the wire, an explicit zero
  included, and nothing goes out that the service would ignore; the audio is that
  of this call; an answer that is no success is not reported as one.

## 2. The modules

```
RecognitionSession          the abstract session
      ^ refinement
RecognizerCore              shared state, Start/Write/Stop/destructor, reader
   ^            ^
SpeechRecognizer  SpeechRecognizerV3      + Connect of v2, of v3
   ^                  ^
MCSpeechRecognizer  MCSpeechRecognizerV3  instances for TLC

FileRecognizer              v2 and v3 file recognizer, service and clock

WsFrame                     bytes of a header, masking
   ^
WsClient                    Connect, Read, SendText/SendBinary, Close over bytes
   ^
MCWsClient                  instances for TLC

Sigpipe                     the SIGPIPE guard, the kernel and the host

Requests   Encoding         members, validation, wire; Base64, query string
     ^       ^
    RequestCalls            an application, its request and the calls
        ^
    MCRequestCalls          instances for TLC

RecognizerCoreProofs -> SpeechRecognizerProofs
                     -> SpeechRecognizerV3Proofs
EncodingProofs -> RequestCallsProofs
WsClientProofs, FileRecognizerProofs, SigpipeProofs
```

### RecognizerCore

The code of `speech_recognizer.cc` without `Connect`. v3 repeats `Write`, `Stop`,
the destructor and the reader on the same `RecognizerSharedState`, so both
versions extend this module; `SpeechRecognizerV3` groups its steps under the
method names of `v3.cc`.

*State.* `state`, `conn`, `write_mu`, `done`, `terminal_received` and
`finish_once` are the fields of `RecognizerSharedState`; `conn` is whether the
connection is published (`Close` resets the pointer and shuts the socket down).
`rd` is the reader's control point, `resume` where it goes on after `Finish` or
a callback, `cur` the terminal response in hand. `api[t]` is the control point of
the call thread `t` is in, `ret[t]` what follows its wait, `expired[t]` whether
the deadline of its wait has passed, `res` how the last call ended. `wire`, `log`, `frames` and
`stopped_by_user` are history: frames sent, callbacks delivered, frames read,
whether `Stop` was entered.

*Granularity.* One step is one access to shared memory: an atomic operation, or a
critical section that does no I/O. `conn_mu`, `done_mu` and the thread id lock
are only held over such sections, so they are not variables; `write_mu` is held across a send and
is one. `Finish` is two steps (store, close), because other threads see the state
in between; `WaitForReadLoopOrClose` is split at every wait, where `done_mu` is
released.

*Calls.* `Start`: `StartCas`, Connect, `StartRunning`, `StartSpawn` or
`StartSpawnFails` (`std::system_error`). `Write`: `WriteInvalid`, `WriteEnter`,
`WriteGetConn`, `WriteLock` (second state check), `WriteBegin` (poll),
`WriteDone`, `WriteFails`. `Stop`: `StopCas`, `StopGetConn`, `StopLock`,
`StopSend`, the failure branch `StopFailed`, `StopClose`, `StopFailedStore`, and
`StopSent`, which waits or, inside a callback, hands the wait to the watchdog, or
`StopSpawnFails`, when the watchdog thread cannot be created and
`std::system_error` leaves `Stop` (`WatchdogMayFail`).
The destructor runs the same `Stop` and swallows its error, then joins the
reader.

*Who may call.* Application threads call `Write` and `Stop` when no `Start` is
in progress and the destructor when no other call is, as the class comment
(`speech_recognizer.h` 109-125) demands. A callback may call anything, any
number of times, while it runs on the reader thread.

*The reader.* `ReaderBegins` to `SignalDone`, with a frame as the record of
fields the code looks at. `DispatchEvent` is the table of slice types. Only
`OnFail` and `OnRecognitionComplete` are shielded against exceptions.

*Environment.* Any frame may arrive at any time, or none. A frame already in the
socket buffer is still read after `Close`. A deadline may pass at any moment.

### SpeechRecognizer and SpeechRecognizerV3

v2 dials and publishes. v3 sends a start frame, publishes, and reads until the
acknowledgement. `AckRead` is a read that came back, empty or with something. The
deadline (`AckDeadlinePasses`) is looked at after an empty one only: `AckPolled` reads
again, `AckTimesOut` gives up. Anything else is handled whatever the time is:
`AckFails` over `BadAcks`, `AckSkips` (not a text frame: read again, any number of
times), `AckOk`. `AckResult` says which exception leaves `Start`.
One bad ack keeps the connection published: the one whose field accessors throw
(`v3.cc` 834).

### RecognitionSession

What the application is promised, without threads: a single-use lifecycle, a
stream the end signal closes, a series of callbacks the outcome closes, and no
outcome before the session is stopped. The mapping is `phase <- state`,
`stream <- wire`, `events <- log`.

### FileRecognizer

One application thread (the class keeps and shares nothing), a service that works
on a task at its own pace (external), and a discrete clock. A request takes any
time up to curl's timeout, a sleep exactly its interval. `answer` is the
snapshot the server took, received later. `version`, chosen once by `Init`, says
how failures surface: v2 turns all of them into `ASRError`, v3 reads fields
outside any `try` and passes `HttpPost` a null `err`. `AuthFails` is the UserSig
that cannot be made. An answer without a status pends in both versions, since the
missing number reads as 0. A `RequestTimeout` of 0 is curl's "no limit", which only
v3's `SetTimeout` can ask for (v2 has 60 s): a request may then stay open forever, and
the properties about time say so.

### WsClient

`RecognizerCore` sends and reads whole frames; this module is what lies below.
The server's stream is the upgrade response followed by frames, and a position in
it is a unit and a byte offset: `<<af, ab>>` is how far it has arrived,
`<<cf, cb>>` how far the client has read. `rpc` is the control point of `Connect`
and `Read`, `late` and `slow` say that the poll window and the frame budget have
passed. `wpc`, `left` and `write_mu` are the sends in progress; the reader is one
of the senders, through its pongs. `delivered`, `out`, `begun` and `torn` are
history: the frames `Read` returned, the pieces on the wire, and the frames given
up half way.

`ReadHead` and `ReadHeadTimesOut` are the `ReadExact` of the two header bytes
under the poll deadline, `ReadRest` and `ReadRestFails` the reads of extended
length, mask key and payload under the frame budget, `FrameRead` the dispatch on
the opcode. A frame is what the server meant (`opcode`, `mask`, `len`); `HeaderSent`
are the bytes that say so, and `Read` acts only on `HeaderRead`, what it decodes
from them. `LengthsUnderstood` compares the two. `Rest` gives the bytes after the two
of the header for a mask bit and a length; what is on the wire (`Size`) follows from the
fields the server meant, what `Read` takes (`Wanted`) from the fields it decoded, so a
length decoded wrongly puts `Read` out of step (`Aligned`). A byte that `ReadExact` took before it timed out is not put back
(`read_buf_` is never filled), so `cb` stays where it is. A `Read` that starts
with `cb # 0` is `garbled`: from there on the model says nothing.
`SendLock`/`PongLock`, `SendPiece`, `SendDone` and `SendFails` are `WriteAll` under
`write_mu_`. Plain sockets and TLS take the same steps. `SplitHeaders` says
whether the two header bytes may be delivered apart, as TCP allows.

### WsFrame

`EncodeHeader` and `MaskPayload` are `EncodeWsFrame`, `DecodeHeader` and
`UnmaskPayload` the corresponding parts of `Read`. A header byte is a number; a
byte of key or payload is the set of its bits, so that `^` is the symmetric
difference. `Fits64` says that a length is a `uint64_t`.

### Sigpipe

One step is one system call of a scope: `EnterScope` (`sigpending`), `Block`
(`pthread_sigmask`), the SSL call, `LeaveScope` (`errno`, `sigpending`), `Drain`
(`sigtimedwait` with a zero timeout, which may find nothing), `Restore`. The
kernel is external: one pending SIGPIPE per thread and one for the process, merged
when raised twice, delivered when unblocked, discarded by `SIG_IGN`. The host may
mask and unmask its threads, write to a dead peer of its own, `kill` the process,
install a handler, or opt in to `IgnoreSigpipeProcessWide`.

### Requests, Encoding and RequestCalls

`Requests` has the six requests (sentence, file task and stream, each in v2 and
v3): the members by type, `Validate`, and which members a serializer puts on the
wire with which value. An optional is a sequence of at most one value, so that
"not configured" and an explicit 0 differ; texts are names of what they are.
`Encoding` has Base64, its URL form and the query string as operators on
character codes, and, external, the way a gateway takes a query apart. What reads
a text character by character (`Base64Decode`, the gateway) is an automaton, a step
and a state, that `Run` carries through the text. `Base64Decode` keeps 24 bits of
its accumulator instead of 32, since it reads at most the low 14 of them again.

In `RequestCalls` an application assigns members or calls setters, and calls.
`Post` is validate, resolve the UserSig, serialize, send, in the order of the
code (`CreateTask` of v2 serializes before it resolves the UserSig). The JSON library
throws on a text that is not UTF-8: `NotUTF8` are those texts, `JsonTexts` the texts a
request puts into JSON, and the call ends in `ForeignException`. `CallData`, `CallURL` and `CallWithOptions` are the convenience forms, of
which the last writes into `req` and leaves it so although the call may fail.
`Start` is validation and the building of the query (v2) or the start frame (v3),
up to the dial; the generated `voice_id` is kept. An answer is a status class and
one of eight kinds of body. `Values` are what the application may assign,
`Text` the characters of a text value, `Ticket` the document of a UserSig; the
assumptions say only that integers are integers, texts and audio are bytes, lists are
lists, and a stored context id is trimmed, as the setter does. `OutcomeV2` and `OutcomeV3` say what becomes of it: v2
reads fields inside a `try`, v3 does not, and a failing v3 transport crashes
(finding 5). A body `odd_error` is an object with an error in a form the SDK does not
look for, such as an `Error` that is no object: it is read as an object without fields.

The definitions introduced by "The fault:" are plausible bugs of the code next to
them; no specification uses them, each is the mutated form that `mutants` in
`PROJECT.json` pairs with a property it must break.

## 3. The runs

| Run | Instance | What it shows |
|---|---|---|
| `v2_safety` | 2 callers, all nine kinds of frame, 2 frames read, 1 frame sent, a watchdog that may fail to start | stream order, single outcome, terminal callbacks on a stopped session, release on every path, no self-wait, no silent end, clean idle state, the invariant of the proofs (`TypeOK` is a part of it), refinement of `RecognitionSession` |
| `v2_early_stop` | 1 caller | *violation*: finding 1 |
| `v2_stalled_peer` | 1 caller, peer that may stop reading | *violation*: finding 2 |
| `v3_session` | 1 caller, 1 frame, fairness | release after a failed ack, refinement; `Start`, `Stop` and the destructor return with a silent server (`Start` unless frames that are not text come without end), a stopped session is torn down |
| `v3_foreign_error` | 1 caller | *violation*: finding 3 |
| `file_wait` | v2 and v3, interval 2, timeout 3, request 2, fairness | every wait ends, its bound, no stale timeout, true outcomes, with requests that have a time limit |
| `file_crash` | v2 and v3 | *violation*: finding 5 |
| `ws_stream` | 1 sender and the reader's pongs, 2 frames, whole headers, fairness | in-step reads, complete and ordered delivery, lengths understood, unmixed frames, `Close` unblocks, the invariant of the proofs |
| `ws_split_header` | the same with split headers | *violation*: finding 4 |
| `sigpipe` | 2 threads, any host, fairness | the signals kept apart, mask and errno restored, no wait, the invariant of the proofs |
| `requests` | all six requests, 2 assignments (3 for a stream) | configuration, audio and query reach the wire, no ignored combination, no false success, the invariant of the proofs (`RequestsTypeOK` is a part of it) |
| `audio_urls_wire` | the same | *violation*: finding 6 |

*Bounds.* `MaxFrames` bounds the frames the reader takes, `MaxAudio` the length
of the stream after which no `Write` begins (two Writes that began before still
get through, so audio and the end signal meet in every order), `MaxClock` the
clock. Two callers are the smallest number that lets a `Write` race a `Stop` and
two `Stop`s race each other while the reader and the watchdog run; two frames let
an event or a malformed frame come before the terminal one. A run with one
frame read reaches every exit of the reader: nothing the reader keeps depends on
how many frames came before. `v3_session` uses one caller and one frame: its
threads are those `v2_safety` explores with two, and what it adds is the
acknowledgement loop and time. The liveness properties are checked on v3 only;
v2 differs by a `Connect` without that loop. The theorems below remove these bounds for
safety. Callers are interchangeable, so `v2_safety` uses symmetry; runs with
liveness do not. The file runs choose times that do not divide each other, and
`FileRecognizer!MayCall` leaves every call the room to end before `MaxClock`.
`WsClient` sends two frames each way in two pieces each: two are enough for a ping
behind or before a message and for a pong that meets a frame in the middle. Its
frames are a ping without a rest, a masked pong of 126 bytes (the 16-bit form), a
message of exactly 64 MiB (the 64-bit form) and one a byte longer, with a rest of none,
one or two steps.
Two threads are the smallest number that lets a process-directed signal vanish
between two calls of a scope. `MaxEdits` bounds the assignments between calls:
a rule that relates members (an enrollment and its mode, pieces and a URL) relates
two, a speaker context in a stream three, and calls may be repeated without bound
on the same request. `MaxAudioSize` is 3 bytes instead of 3 or 5 MB: the code
compares with it and does nothing else. The values assigned to a member are one or
two legal ones and, where validation looks, the illegal ones next to its bounds; a
language and a role name may be text that is not UTF-8.

*Deadlock* is checked everywhere. The only state without a step of the code is
`Terminated`: a destroyed recognizer with all threads gone, a clock at its
bound, a stream that has started, or a process that is gone.

*Fairness.*
* `WF(ReaderStep)`, `WF(LocalStep(t))`, `WF(DeadlinePasses(t))`: the operating
  system schedules the threads and the clock advances. Steps that need the peer
  are not in `LocalStep`; a blocked send fails only once the socket is shut down.
* `SF(CallbackReturns)`: a callback that keeps calling the recognizer returns in
  the end; the documentation asks callbacks not to block. Strong, because each
  call it makes disables the step.
* `WF(WriteDone(t))` (`PeerFairness`): the server keeps reading its socket.
  `v2_stalled_peer` drops it.
* `AckFairness`: the clock reaches the acknowledgement deadline, reads return within
  their poll window, the thread goes on after each, and the dial ends. Nothing is
  assumed of what a read returns: the server need not acknowledge, and may send frames
  that are not text forever. `StartReturns` therefore says that a `Start` that does not
  return reads such frames again and again, and finds no read empty from some moment
  on.
* WebSocket client: the threads run (a thread that waits for `write_mu_` gets it),
  window and budget pass, and a socket that was shut down reports it to `recv` and
  `send`. Neither arrival of bytes nor progress of the peer is assumed.
* SIGPIPE guard: `WF(LeaveStep(t))`, a thread in the destructor runs; its calls do
  not block. Nothing is assumed of the host.
* file recognizer: the thread runs, the clock ticks, curl enforces
  `CURLOPT_TIMEOUT` if it is not 0. The server need not answer.

No fairness is assumed of the server's frames.

## 4. Findings

1. `v2_early_stop`: the 300 ms grace wait has no predicate. A terminal response
   read after the forced close wakes it, and `Stop` returns while the terminal
   callbacks run, although a test and a comment say it waits for them.
2. `v2_stalled_peer`: a blocking send after a successful poll holds `write_mu`
   without a bound, and `Stop` queues behind it; the header bounds `Stop` by
   write timeout plus stop timeout.
3. `v3_foreign_error`: an acknowledgement of an unexpected shape lets
   `nlohmann::type_error` out of `Start`, and the connection stays published.
4. `ws_split_header`: the header of a frame is read under the caller's poll
   window. If the window ends after its first byte, the byte is lost and the next
   `Read` parses from the middle of the frame, which the comment ten lines below
   says must not happen.
5. `file_crash`: v3's transport failures store a message through a null
   pointer.
6. `audio_urls_wire`: each piece of a distributed recording goes out with its
   address under the key `req.url`; the documentation says `url`. The test's mock
   server looks at the index only.

Not checked by a run, but worth a maintainer's look:

* `WaitForResult` is documented with a maximum wait of ten minutes; the deadline is
  looked at after each poll, so the bound that holds is `WaitBounded`: the timeout,
  one interval and one request.
* `Start` of v3 may outlast its acknowledgement timeout: `v3.cc` 825 goes on reading
  after a frame that is not text without a look at the deadline, so a server that sends
  one in every 100 ms keeps `Start` in the loop; `v3.h` 81 describes the timeout as
  "How long Start() waits for the server's start-frame acknowledgement". Without the
  exception in `StartReturns` TLC finds this loop.
* When the watchdog thread cannot be created (`speech_recognizer.cc` 326), the state
  stays at stopping, where the destructor does not call `Stop`: with a silent server
  it joins the reader forever. `v3_session` therefore sets `WatchdogMayFail` to
  FALSE.
* A process-directed SIGPIPE of the host that arrives during a scope may be taken
  by it (`taken` may hold `"host during"`); the class comment promises only the
  signals pending before.
* A v3 sentence or task call lets `nlohmann::type_error` out when a field of the
  answer has another type, as finding 3 does in `Start`; v2 turns it into an
  `ASRError` (`OutcomeV2`, `OutcomeV3`).
* The same exception of the JSON library leaves every call and `Start` when a text that
  goes into JSON is not UTF-8 (`file_recognizer.cc` 58, `sentence_recognizer.cc` 36,
  `v3.cc` 67 and 773, `json_helper.h` 22 and 27).
* A v2 answer whose `Error` is not an object (`sentence_recognizer.cc` 136) is an empty
  sentence, not an error; `NoFalseSuccess` allows it.
* `CreateTask` of v2 sends `SpeakerNumber` although diarization is off
  (`file_recognizer.cc` 50); all other requests send the count with the mode only.
* A `*WithOptions` call writes `source_type` and `data` before it validates: a
  request with `audio_urls` that was valid before is rejected afterwards.
* `convert_num_mode` 0 cannot be expressed by a v2 stream, whose default is 1 and
  whose serializer drops 0. This and the other exceptions are listed in `LeftOut`.
* `v3.h` 170-173 says the members of `CreateTranscriptionRequest` are left at their
  zero values; `source_type` is initialized to 1.
* A `source_type` other than 0 and 1 passes validation with any audio or none, and
  `{}` with status 200 is an empty sentence result.
* v2 does not reject diarization with two channels, v3 does; an enrollment URL needs
  a host in v2 and only a scheme in v3.
* v3 puts `voice_id` into the URL unescaped (`v3.cc` 782).

## 5. The proofs

All theorems hold for any set of callers, any frames of `FrameType`, any bounds,
and any times. They assume only `ThreadsAssumption` (reader, watchdog and callers
are different threads), `FramesAssumption`, `BoundsAssumption`,
`TimesAssumption`, and `WsThreads`, `WsKinds` and `WsSizes` for the WebSocket
client and `WsRest` (a rest is a number of bytes) besides, `CallsAssumption` and `ValuesAssumption` for the requests, all of which TLC
evaluates in the runs. The SIGPIPE guard and the encodings need no assumption.

*The recognizers.* The safety properties are not inductive. `IInv` adds what each
relies on:

* `LifecycleInv`: a call in progress pins the state down, at most one `Start` is
  in progress and at most one `Stop` won the compare-exchange;
* `StreamInv`: who sends holds `write_mu`, and once the end signal is out nobody
  is between the second state check and a send, which is why `EndIsLast` holds;
* `ReaderInv`: the reader's control point says whether `Finish` has run and
  whether the outcome was reported, which is why `OneOutcome`,
  `TerminalSeesStopped` and `DoneReleases` hold;
* `StopInv`: what a waiting `Stop` and the watchdog may rely on when the wait
  ends (`StopReleases`, `ReaderNeverWaits`);
* `SilentInv`: without a `Stop`, a session ends only through `Finish` and a
  report (`NeverSilent`);
* `WriterInv`: a `Write` past its check belongs to a session that was opened,
  which the refinement needs.

`RecognizerCoreProofs` shows, one lemma per group of actions and one step per
action, that every step of the core preserves each part, and that `IInv` implies
the properties. `SpeechRecognizerProofs` and `SpeechRecognizerV3Proofs` add the
steps of the two `Connect`s: `Invariance` and `InvarianceV3` are `Spec => []IInv`.
`TypeCorrect`, `DoneReleasesHolds`, `StopReleasesHolds` and the other theorems about
properties are consequences. `IdleIsClean` needs `PublishInv` besides (v2 only: a v3 recognizer may be idle
with a connection, finding 3); v3 has `FailedStartReleases`.

*Refinement.* `RecognizerCoreProofs` also shows that every step of the core is a
step of `RecognitionSession` or leaves its variables alone; `Refinement` and
`RefinementV3` conclude `Spec => ImplementsSession`.

*The file recognizer.* `FileInv` says how far the clock may be past the deadline
at each control point (`TimeInv`) and what an answer under way says of the task
(`AnswerInv`). `WaitBounded`, `TimeoutIsRecent` and `OutcomeIsTrue` follow for
every interval, timeout and request timeout; with a request timeout of 0 the first
bounds the last sleep only and the second only says that the deadline had passed.

*The WebSocket client.* `WsInv` has four parts. `StreamInv`: the client is never
ahead of what has arrived. `ReadInv`: the control point says how much of the
current frame has been taken, so `Read` returns between frames only (`Aligned`,
unless headers are split). `DeliverInv`: everything before the current frame has
been dealt with (`MessagesDelivered`). `WriteInv`: the holder of `write_mu_` is
the sender, and the last piece on the wire is its own or ends a frame
(`FramesContiguous`). The theorems hold for any number of senders and any frame
lengths; `LengthsUnderstoodHolds` and `AlignedHolds` rest on `HeaderCodec`, from which
`WantedIsSize` follows: `Read` takes as many bytes as the server sent. `AlignedHolds`
assumes whole headers, the others do not. Of what a garbled `Read` would return they say
nothing.

*The frame codec.* `HeaderCodec`: for every opcode, mask bit and length of 64 bits,
`Read` decodes the header `EncodeWsFrame` wrote and takes exactly its bytes. The
argument is one case per form of the length; `Fits64` is stated with shifts, because
2^64 is out of the SMT solver's arithmetic. `PayloadCodec`: unmasking inverts
masking.

*The SIGPIPE guard.* The properties are not inductive: whose the pending signal is
must be known at every control point. `SigpipeInv` says when a thread is blocked and
what `old_mask` holds there, that an SDK signal is pending only inside a scope or
behind one of the host's, that a scope that is about to drain saw nothing pending
when it began, and which errno is where. One lemma per group of steps (scope, host)
shows that it is preserved.

*The encodings.* `EncodingProofs` shows that what the SDK writes is what its reader
reads, for every sequence of bytes: `Base64RoundTrip` (and that the decoder does not
throw), `Base64UrlRoundTrip`, `EscapeRoundTrip`, and `QueryRoundTrip` for any number
of parameters. The library's induction theorems take an operator as a parameter,
which the provers cannot instantiate; `Induction` is stated for a set of numbers
instead, and each induction is over the set of lengths for which the claim holds.
`RunConcat` says that an automaton may read a text part by part, `FlattenAppend` that a
text is written part by part, and each round trip is an induction over the parts:

* Base64: of the accumulator only the bits that wait matter. One lemma for each number
  of them (0, 6, 4, 2) says what the next character makes of them; `DecodeGroup` puts
  four of these together, `WholeGroups` carries the decoder through all full groups, and
  `LastGroup` and `BeforePadOf` deal with the last one and its padding;
* escaping: unescaping what stands for one character appends that character and leaves
  no digit due;
* the query: no escaped value and no key has an `&`, so cutting gives the pieces; no key
  has a `=`, so the first one ends it.

*The requests.* `CallInv` says that what the application edits is always a request of
the right types, and that a call which waits for its answer has sent a request that
validation accepted, that JSON can carry and that fits a frame, serialized as it was at that moment, with the
audio of this call in it. It is inductive (`CallInvariance`), whatever is assigned and in
whatever order calls are made; a call with audio on a request that still holds other
audio is the interesting step. The properties follow from it, one case for each of the
six requests: `RequestIsComplete` compares the members with what each serializer writes
(the rest is what `LeftOut` lists, and validation rules out an enrollment without its
mode), `RequestIsConsistent` and `OneSource` rest on what validation rejects (the former
leaves out the speaker count of v2's `CreateTask`, which is sent without its mode),
`AudioArrives` on `Base64RoundTrip`, `QueryArrives` on `QueryRoundTrip` and
`Base64UrlRoundTrip`. `SuccessIsAnswered` is an induction over the answer. The bounds of
the run (two or three assignments, three bytes of audio, one value per text) are gone.

*Only model-checked:* the liveness properties (`StopReturns`,
`DestructorReturns`, `SessionEnds`, `StartReturns`, `WaitReturns`,
`CloseUnblocks`, `GuardLeaves`), which need fairness and are out of the prover's
reach.

## 6. What is not modelled

* URL parsing, TLS, and what the checks on the upgrade response look at (their
  failure is `WsClient!ConnectFails`). `RecognizerCore` and `WsClient` are not
  composed: in the former a send is whole or fails.
* Two threads inside one SSL object (`ws_client.cc` 439): what OpenSSL does there is
  not in the repository.
* OpenSSL, libcurl, zlib and nlohmann/json; SHA-256 and HMAC of UserSig, which are
  arithmetic without a state.
* The text of a parameter: numbers, JSON escaping, and the spelling of wire keys
  (members stand for them), except the keys of `audio_urls`.
* The clamping of the timeout setters, telemetry (`SdkReportParams`), version and
  error texts.
* Word lists and texts of responses.
* Examples, tests, scripts.

## 7. Plan

Done: all modules of section 2, their runs and proofs. What is left, in order of
worth:

1. `WsClient` against the frame-level view of `RecognizerCore`: what a failed send
   leaves on the wire, as a refinement.
2. Action properties of the calls, such as that a rejected call leaves the options of
   a stream alone, with their proofs from `CallInv`.
3. URL parsing and the checks on the upgrade response of `WsClient::Connect`.
