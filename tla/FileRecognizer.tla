--------------------------- MODULE FileRecognizer ---------------------------
(***************************************************************************)
(* The asynchronous file recognizer, v2 (file_recognizer.cc) and v3 (v3.cc): *)
(* CreateTask, DescribeTask and WaitForResult over one HTTP request at a   *)
(* time, against a server that works on the task at its own pace.  A       *)
(* FileRecognizer keeps no state between calls and shares none between     *)
(* threads, so one application thread is enough.                           *)
(*                                                                         *)
(* Time is a discrete clock.  A request takes any time up to the timeout   *)
(* given to curl, or any time at all if that is 0, a sleep exactly its     *)
(* interval, local computation none.                                       *)
(* The answer is a snapshot of the task when the server answered; the      *)
(* client receives it later.                                               *)
(***************************************************************************)
EXTENDS Integers

CONSTANTS
    Interval, Timeout,  \* the arguments of WaitForResultWithInterval
    RequestTimeout,     \* CURLOPT_TIMEOUT, covers the whole request; 0: none
    MaxClock            \* bound: the clock stops here

ASSUME TimesAssumption ==
    /\ Interval \in Nat /\ Timeout \in Nat
    /\ RequestTimeout \in Nat /\ MaxClock \in Nat

VARIABLES
    version,    \* the recognizer in use, v2 or v3
    task,       \* the server's status of the task the application follows
    finished,   \* when the server finished it
    clock,
    pc,         \* the call in progress
    id,         \* the application has a task id
    sent,       \* when the current request was sent
    answer,     \* the server's answer to it, on its way
    deadline,   \* of the wait in progress
    wake,       \* when the sleep ends
    result,     \* how the last call ended
    ended       \* when the last wait ended

serverVars == <<task, finished>>
callVars == <<pc, id, sent, deadline, wake, result, ended>>
vars == <<version, serverVars, clock, answer, callVars>>

Unfinished == {"waiting", "running"}
Statuses == Unfinished \cup {"success", "failed"}

(* Answers without a usable status: an HTTP error status, a body that is not *)
(* JSON, an API error, a body without the data, data without a status or      *)
(* with one the SDK does not know, fields of the wrong type.                 *)
Errors == {"http_error", "not_json", "api_error", "empty", "no_status", "bad_types"}

Requests == {"create", "describe", "poll"}
Waiting == {"poll", "check", "sleep"}

Results ==
    {"none", "created", "TaskFailed", "Timeout", "InvalidParam", "AuthFailed",
     "ConnectFailed", "ReadFailed", "ServerError", "ForeignException", "crash"}
    \cup Statuses

TypeOK ==
    /\ version \in {"v2", "v3"}
    /\ task \in {"none"} \cup Statuses
    /\ finished \in Nat
    /\ clock \in Nat
    /\ pc \in {"idle", "check", "sleep", "dead"} \cup Requests
    /\ id \in BOOLEAN
    /\ sent \in Nat
    /\ answer \in {"none", "created"} \cup Statuses \cup Errors
    /\ deadline \in Nat
    /\ wake \in Nat
    /\ result \in Results
    /\ ended \in Nat

(* The request timeout is 60 s in v2 and the application's choice in v3. *)
Init ==
    /\ version \in IF RequestTimeout = 0 THEN {"v3"} ELSE {"v2", "v3"}
    /\ task = "none" /\ finished = 0 /\ clock = 0
    /\ pc = "idle" /\ id = FALSE
    /\ sent = 0 /\ answer = "none"
    /\ deadline = 0 /\ wake = 0
    /\ result = "none" /\ ended = 0

-----------------------------------------------------------------------------
(* Requests *)

(* DoRequest and PostFlat: the request leaves, for the call at pc p. *)
SendRequest(p) ==
    /\ pc' = p
    /\ sent' = clock
    /\ answer' = "none"

(* What a failing answer becomes.  v2 turns everything into its own error   *)
(* type; v3 reads the fields outside any try block, so nlohmann's own        *)
(* exception leaves the call.                                                *)
Failure ==
    [a \in Errors |->
        IF a \in {"not_json", "bad_types"} /\ version = "v2" THEN "ReadFailed"
        ELSE IF a = "bad_types" THEN "ForeignException" ELSE "ServerError"]

(* An unfinished status; a missing one reads as 0, which is waiting, and an *)
(* unknown one is taken like it.  v3 does not even need the data.           *)
Pending(a) ==
    a \in Unfinished \cup {"no_status"} \/ (a = "empty" /\ version = "v3")

(* The call in progress ends with result r. *)
EndCall(r) ==
    /\ pc' = "idle"
    /\ result' = r
    /\ ended' = clock

(* The transport fails, or curl's timeout ends the request.  v2 throws; v3   *)
(* gave HttpPost a null err, and storing the message through it crashes.     *)
RequestFails ==
    /\ pc \in Requests
    /\ IF version = "v2"
         THEN EndCall("ConnectFailed")
         ELSE pc' = "dead" /\ result' = "crash" /\ ended' = clock
    /\ UNCHANGED <<version, serverVars, clock, answer, id, sent, deadline, wake>>

-----------------------------------------------------------------------------
(* Calls *)

(* A call begins early enough for the clock bound to leave it room. *)
MayCall ==
    /\ pc = "idle"
    /\ clock + Timeout + Interval + 2 * RequestTimeout < MaxClock

(* Arguments rejected locally: an invalid request, empty or oversized data,  *)
(* an empty URL, an empty task id; a text that is not UTF-8 is refused by    *)
(* nlohmann's dump with its own exception.                                   *)
RejectCall ==
    /\ MayCall
    /\ result' \in {"InvalidParam", "ForeignException"}
    /\ UNCHANGED <<version, serverVars, clock, answer, pc, id, sent, deadline, wake, ended>>

(* GenUserSig fails, in a call that begins or at a later poll of a wait:     *)
(* nothing is sent, and there is no retry.                                   *)
AuthFails ==
    /\ MayCall \/ (pc = "sleep" /\ clock = wake)
    /\ EndCall("AuthFailed")
    /\ UNCHANGED <<version, serverVars, clock, answer, id, sent, deadline, wake>>

CreateTask ==
    /\ MayCall
    /\ SendRequest("create")
    /\ result' = "none"
    /\ id' = FALSE
    /\ UNCHANGED <<version, serverVars, clock, deadline, wake, ended>>

CreateTaskReceives ==
    /\ pc = "create"
    /\ answer # "none"
    /\ IF answer = "created"
         THEN EndCall("created") /\ id' = TRUE
         ELSE EndCall(Failure[answer]) /\ UNCHANGED id
    /\ UNCHANGED <<version, serverVars, clock, answer, sent, deadline, wake>>

DescribeTask ==
    /\ MayCall /\ id
    /\ SendRequest("describe")
    /\ result' = "none"
    /\ UNCHANGED <<version, serverVars, clock, id, deadline, wake, ended>>

DescribeTaskReceives ==
    /\ pc = "describe"
    /\ answer # "none"
    /\ \/ answer \in Statuses /\ EndCall(answer)
       \/ answer \notin Statuses /\ Pending(answer) /\ EndCall("waiting")
       \/ ~Pending(answer) /\ answer \in Errors /\ EndCall(Failure[answer])
    /\ UNCHANGED <<version, serverVars, clock, answer, id, sent, deadline, wake>>

-----------------------------------------------------------------------------
(* WaitForResultWithInterval *)

(* The deadline is computed once, then the first request goes out. *)
WaitForResult ==
    /\ MayCall /\ id
    /\ deadline' = clock + Timeout
    /\ SendRequest("poll")
    /\ result' = "none"
    /\ UNCHANGED <<version, serverVars, clock, id, wake, ended>>

(* The fault: the codes of the two final statuses are swapped. *)
PollReceivesSwapped ==
    /\ pc = "poll"
    /\ answer # "none"
    /\ \/ answer = "success" /\ EndCall("TaskFailed")
       \/ answer = "failed" /\ EndCall("success")
       \/ Pending(answer) /\ pc' = "check" /\ UNCHANGED <<result, ended>>
       \/ ~Pending(answer) /\ answer \in Errors /\ EndCall(Failure[answer])
    /\ UNCHANGED <<version, serverVars, clock, answer, id, sent, deadline, wake>>

(* A finished task ends the wait, and so does a request that fails: there is *)
(* no retry.                                                                 *)
PollReceives ==
    /\ pc = "poll"
    /\ answer # "none"
    /\ \/ answer = "success" /\ EndCall("success")
       \/ answer = "failed" /\ EndCall("TaskFailed")
       \/ Pending(answer) /\ pc' = "check" /\ UNCHANGED <<result, ended>>
       \/ ~Pending(answer) /\ answer \in Errors /\ EndCall(Failure[answer])
    /\ UNCHANGED <<version, serverVars, clock, answer, id, sent, deadline, wake>>

(* The fault: nothing looks at the deadline. *)
CheckDeadlineNever ==
    /\ pc = "check"
    /\ pc' = "sleep"
    /\ wake' = clock + Interval
    /\ UNCHANGED <<version, serverVars, clock, answer, id, sent, deadline, result, ended>>

(* Past the deadline: throw.  Otherwise sleep; only the next poll looks at *)
(* the deadline again.                                                     *)
CheckDeadline ==
    /\ pc = "check"
    /\ \/ clock > deadline /\ EndCall("Timeout") /\ UNCHANGED wake
       \/ /\ clock <= deadline
          /\ pc' = "sleep" /\ wake' = clock + Interval
          /\ UNCHANGED <<result, ended>>
    /\ UNCHANGED <<version, serverVars, clock, answer, id, sent, deadline>>

(* The fault: the deadline is looked at after the sleep, before the poll. *)
WakesAndChecks ==
    /\ pc = "sleep"
    /\ clock = wake
    /\ \/ /\ clock > deadline /\ EndCall("Timeout")
          /\ UNCHANGED <<sent, answer>>
       \/ /\ clock <= deadline /\ SendRequest("poll")
          /\ UNCHANGED <<result, ended>>
    /\ UNCHANGED <<version, serverVars, clock, id, deadline, wake>>

(* The sleep is over: poll again. *)
Wakes ==
    /\ pc = "sleep"
    /\ clock = wake
    /\ SendRequest("poll")
    /\ UNCHANGED <<version, serverVars, clock, id, deadline, wake, result, ended>>

-----------------------------------------------------------------------------
(* The server and the clock *)

(* The server takes the request: a new task, or the status of the one the   *)
(* application follows, or an answer without either.                        *)
ServerAnswers ==
    /\ pc \in Requests
    /\ answer = "none"
    /\ \/ answer' \in Errors /\ UNCHANGED serverVars
       \/ /\ pc = "create" /\ answer' = "created"
          /\ task' = "waiting" /\ UNCHANGED finished
       \/ pc # "create" /\ answer' = task /\ UNCHANGED serverVars
    /\ UNCHANGED <<version, clock, callVars>>

ServerWorks ==
    /\ \/ task = "waiting" /\ task' = "running" /\ UNCHANGED finished
       \/ /\ task = "running"
          /\ task' \in {"success", "failed"} /\ finished' = clock
    /\ UNCHANGED <<version, clock, answer, callVars>>

(* A tick, except in the middle of local computation, past the end of a *)
(* sleep or past the timeout of a request.                              *)
Tick ==
    /\ clock < MaxClock
    /\ pc # "check"
    /\ pc \in Requests /\ RequestTimeout > 0 => clock < sent + RequestTimeout
    /\ pc = "sleep" => clock < wake
    /\ clock' = clock + 1
    /\ UNCHANGED <<version, serverVars, answer, callVars>>

(* Nothing is left to do: the clock has reached its bound, or v3 crashed. *)
Terminated ==
    /\ pc = "dead" \/ ~MayCall
    /\ pc \in {"idle", "dead"}
    /\ UNCHANGED vars

Next ==
    \/ RejectCall \/ AuthFails \/ CreateTask \/ DescribeTask \/ WaitForResult
    \/ CreateTaskReceives \/ DescribeTaskReceives
    \/ PollReceives \/ CheckDeadline \/ Wakes \/ RequestFails
    \/ ServerAnswers \/ ServerWorks \/ Tick
    \/ Terminated

Spec == Init /\ [][Next]_vars

(* The thread runs, the clock advances and curl enforces its timeout, if it *)
(* has one; the server need not answer.                                     *)
FairSpec ==
    /\ Spec
    /\ WF_vars(PollReceives \/ CheckDeadline \/ Wakes)
    /\ WF_vars(RequestTimeout > 0 /\ RequestFails /\ clock = sent + RequestTimeout)
    /\ WF_vars(Tick)

-----------------------------------------------------------------------------
(* Properties *)

(* A wait overruns its timeout by at most one sleep and one request, the one *)
(* that finds the deadline passed, however slow the server is.  Without a    *)
(* request timeout only the last sleep is bounded.                           *)
WaitBounded ==
    /\ pc \in Waiting /\ RequestTimeout > 0 =>
          clock <= deadline + Interval + RequestTimeout
    /\ pc = "sleep" => clock <= deadline + Interval

(* A wait gives up only past its deadline, and what it missed is recent: a   *)
(* task that had finished when the last request was sent is never reported   *)
(* as not completed, because every sleep is followed by a poll.  That request *)
(* is as old as the request timeout at most, if there is one.                *)
TimeoutIsRecent ==
    result = "Timeout" /\ answer \in Statuses =>
        /\ ended > deadline
        /\ \/ task \in Unfinished \/ RequestTimeout = 0
           \/ finished >= ended - RequestTimeout

(* A wait reports success or failure only of a task that has so ended on the *)
(* server, although the answer was on its way while the server went on.      *)
OutcomeIsTrue ==
    /\ result = "success" => task = "success"
    /\ result \in {"failed", "TaskFailed"} => task = "failed"

(* No failure of the transport crashes the process: it is reported as an *)
(* ASRError.                                                             *)
NeverCrashes == result # "crash"

(* Every wait ends, even if the server never answers, because requests have *)
(* a timeout; with RequestTimeout = 0 this is not claimed.                  *)
WaitReturns == RequestTimeout > 0 /\ pc \in Waiting ~> pc \notin Waiting

(* The inductive invariant: how far the clock may be past the deadline at    *)
(* each control point, and what an answer on its way says of the task.       *)
TimeInv ==
    /\ pc \in Requests \cup {"check"} =>
          /\ sent <= clock
          /\ RequestTimeout > 0 => clock <= sent + RequestTimeout
    /\ pc \in {"poll", "check"} => sent <= deadline + Interval
    /\ pc = "sleep" => clock <= wake /\ wake <= deadline + Interval
    /\ ended <= clock /\ finished <= clock

AnswerInv ==
    /\ id \/ pc \in {"describe", "poll", "check", "sleep"} => task # "none"
    /\ pc \in {"describe", "poll", "check", "sleep"} => id
    /\ pc \in {"describe", "poll", "check"} /\ answer \in Unfinished =>
          task \in Unfinished \/ finished >= sent
    /\ pc \in {"describe", "poll"} /\ answer \in {"success", "failed"} =>
          task = answer
    /\ pc = "create" => answer \in {"none", "created"} \cup Errors
    /\ answer = "created" => task # "none"
    /\ pc \in {"describe", "poll"} => answer # "created"
    /\ pc = "check" => Pending(answer)
    /\ pc \in Requests \cup Waiting => result = "none"

FileInv == TypeOK /\ TimeInv /\ AnswerInv /\ TimeoutIsRecent /\ OutcomeIsTrue
=============================================================================
