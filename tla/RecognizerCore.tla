--------------------------- MODULE RecognizerCore ---------------------------
(***************************************************************************)
(* The realtime recognizer of the SDK, all but Connect: the state shared by  *)
(* the application threads, the reader thread and the stop watchdog        *)
(* (RecognizerSharedState), the calls Start, Write, Stop, the destructor and *)
(* the reader thread with its listener callbacks.  The v2 and the v3       *)
(* recognizer share this code or repeat it statement by statement; they    *)
(* differ in how Start connects, which SpeechRecognizer and                *)
(* SpeechRecognizerV3 add.                                                 *)
(*                                                                         *)
(* A step is one access to shared memory: an atomic load, store or         *)
(* compare-exchange, or a critical section without I/O inside it.  The     *)
(* lock write_mu is held across a send, so it is a variable; conn_mu,      *)
(* done_mu and tid_mu never are, so their critical sections are atomic.    *)
(* Time appears as steps that may happen at any moment: a poll or a wait   *)
(* that times out.  The server may send any frame at any time, or none.    *)
(***************************************************************************)
EXTENDS Naturals, Sequences

CONSTANTS
    Callers,        \* application threads that call the recognizer
    Reader,         \* the SDK's reader thread, on which callbacks run
    Watchdog,       \* the detached thread of a Stop made inside a callback
    NoThread,       \* nobody holds write_mu
    NoFrame,        \* no terminal response has been read yet
    Frames,         \* the server frames that may arrive
    MaxFrames,      \* bound: frames the reader reads in a session
    MaxAudio,       \* bound: frames on the wire after which no Write begins
    WatchdogMayFail \* whether the system may run out of threads for a watchdog

(* A frame: its opcode and, for a text frame, what ParseSpeechResponse makes *)
(* of the payload: whether it parses, and the fields the reader looks at.    *)
FrameType ==
    [opcode : {"text", "binary", "close", "other"}, parses : BOOLEAN,
     code : Nat, final_flag : Nat, has_result : BOOLEAN, slice_type : Nat]

Threads == Callers \cup {Reader, Watchdog}

ASSUME ThreadsAssumption ==
    /\ Reader \notin Callers /\ Watchdog \notin Callers
    /\ Reader # Watchdog
    /\ NoThread \notin Threads

ASSUME FramesAssumption ==
    /\ Frames \subseteq FrameType
    /\ NoFrame \notin Frames

ASSUME BoundsAssumption ==
    MaxFrames \in Nat /\ MaxAudio \in Nat /\ WatchdogMayFail \in BOOLEAN

VARIABLES
    \* RecognizerSharedState
    state, conn, write_mu, done, terminal_received, finish_once,
    \* the reader thread: its control point, where it resumes after Finish or
    \* a callback, and the terminal response it is handling
    rd, resume, cur,
    \* the calls: control point, what follows the wait, whether the deadline
    \* of the wait has passed, and how the call that ended last ended
    api, ret, expired, res,
    \* the destructor
    dtor,
    \* history: frames sent, callbacks delivered, frames read, Stop entered
    wire, log, frames, stopped_by_user

sharedVars == <<state, conn, write_mu, done, terminal_received, finish_once>>
readerVars == <<rd, resume, cur>>
callVars == <<api, ret, expired, res>>
historyVars == <<wire, log, frames, stopped_by_user>>
vars == <<sharedVars, readerVars, callVars, dtor, historyVars>>

States == {"idle", "starting", "running", "stopping", "stopped"}

AckPcs == {"acking", "ack_polled", "ack_read"}
ConnectPcs == {"connecting", "acking", "ack_polled", "ack_read", "connected"}
StartPcs == ConnectPcs \cup {"spawning"}
WritePcs == {"write_conn", "write_lock", "write_poll", "write_sending"}
WaitPcs  == {"wait", "timed_wait", "terminal_wait", "grace_wait"}
StopPcs  == {"stop_cas", "stop_conn", "stop_lock", "stop_send", "stop_failed",
             "stop_close", "stop_failed_store", "stop_sent", "stop_store"}
            \cup WaitPcs
ApiPcs   == {"out", "join"} \cup StartPcs \cup WritePcs \cup StopPcs

ReaderPcs == {"none", "spawned", "callback", "get_conn", "read", "polled",
              "broken", "finish", "closing", "mark", "deliver", "complete",
              "notify", "leave", "signal", "ended"}

Results == {"none", "started", "written", "stopped", "AlreadyStarted",
            "NotStarted", "InvalidParam", "ConnectFailed", "ReadFailed",
            "WriteFailed", "ServerError", "ForeignException", "SystemError"}

Callbacks == {"OnRecognitionStart", "OnSentenceBegin",
              "OnRecognitionResultChange", "OnSentenceEnd",
              "OnRecognitionComplete", "OnFail"}

TypeOK ==
    /\ state \in States
    /\ conn \in BOOLEAN
    /\ write_mu \in Threads \cup {NoThread}
    /\ done \in BOOLEAN
    /\ terminal_received \in BOOLEAN
    /\ finish_once \in BOOLEAN
    /\ rd \in ReaderPcs
    /\ resume \in ReaderPcs
    /\ cur \in Frames \cup {NoFrame}
    /\ api \in [Threads -> ApiPcs]
    /\ ret \in [Threads -> {"return", "store"}]
    /\ expired \in [Threads -> BOOLEAN]
    /\ res \in [by : Threads \cup {NoThread}, what : Results]
    /\ dtor \in {"no", "running", "done"}
    /\ wire \in Seq({"audio", "end"})
    /\ log \in Seq([cb : Callbacks, last : BOOLEAN])
    /\ frames \in Nat
    /\ stopped_by_user \in BOOLEAN

Init ==
    /\ state = "idle"
    /\ conn = FALSE
    /\ write_mu = NoThread
    /\ done = FALSE
    /\ terminal_received = FALSE
    /\ finish_once = FALSE
    /\ rd = "none"
    /\ resume = "none"
    /\ cur = NoFrame
    /\ api = [t \in Threads |-> "out"]
    /\ ret = [t \in Threads |-> "return"]
    /\ expired = [t \in Threads |-> FALSE]
    /\ res = [by |-> NoThread, what |-> "none"]
    /\ dtor = "no"
    /\ wire = << >>
    /\ log = << >>
    /\ frames = 0
    /\ stopped_by_user = FALSE

-----------------------------------------------------------------------------
(* Calls *)

(* A thread may enter a call when it is outside one: an application thread  *)
(* until the recognizer is destroyed, the reader thread while a callback    *)
(* runs.                                                                    *)
MayEnter(t) ==
    /\ api[t] = "out"
    /\ \/ t \in Callers /\ dtor = "no"
       \/ t = Reader /\ rd = "callback"

(* The application keeps to the class comment: its threads call Write and   *)
(* Stop only when no Start is in progress.                                  *)
MayCall(t) ==
    /\ MayEnter(t)
    /\ t \in Callers => \A u \in Callers : api[u] \notin StartPcs

Goto(t, pc) == api' = [api EXCEPT ![t] = pc]

(* A call returns (or throws) with result r.  Inside the destructor the      *)
(* result is swallowed and the destructor goes on to join the reader.        *)
Return(t, r) ==
    /\ Goto(t, IF t \in Callers /\ dtor = "running" THEN "join" ELSE "out")
    /\ res' = [by |-> t, what |-> r]

-----------------------------------------------------------------------------
(* Start, around Connect *)

(* The compare-exchange from idle to starting; the loser throws. *)
StartCas(t) ==
    /\ MayEnter(t)
    /\ IF state = "idle"
         THEN state' = "starting" /\ Goto(t, "connecting") /\ UNCHANGED res
         ELSE Return(t, "AlreadyStarted") /\ UNCHANGED state
    /\ UNCHANGED <<conn, write_mu, done, terminal_received, finish_once,
                   readerVars, ret, expired, dtor, historyVars>>

(* Connected: the session runs. *)
StartRunning(t) ==
    /\ api[t] = "connected"
    /\ state' = "running"
    /\ Goto(t, "spawning")
    /\ UNCHANGED <<conn, write_mu, done, terminal_received, finish_once,
                   readerVars, ret, expired, res, dtor, historyVars>>

(* Create the reader thread and return. *)
StartSpawn(t) ==
    /\ api[t] = "spawning"
    /\ rd' = "spawned"
    /\ Return(t, "started")
    /\ UNCHANGED <<sharedVars, resume, cur, ret, expired, dtor, historyVars>>

(* The thread cannot be created: std::system_error leaves Start outside its *)
(* try block, the recognizer stays running without a reader.                *)
StartSpawnFails(t) ==
    /\ api[t] = "spawning"
    /\ Return(t, "SystemError")
    /\ UNCHANGED <<sharedVars, readerVars, ret, expired, dtor, historyVars>>

-----------------------------------------------------------------------------
(* Write *)

(* A null pointer or, in v3, an oversized frame: rejected before anything. *)
WriteInvalid(t) ==
    /\ MayCall(t)
    /\ Return(t, "InvalidParam")
    /\ UNCHANGED <<sharedVars, readerVars, ret, expired, dtor, historyVars>>

(* The state check on entry. *)
WriteEnter(t) ==
    /\ MayCall(t)
    /\ Len(wire) < MaxAudio
    /\ IF state = "running"
         THEN Goto(t, "write_conn") /\ UNCHANGED res
         ELSE Return(t, "NotStarted")
    /\ UNCHANGED <<sharedVars, readerVars, ret, expired, dtor, historyVars>>

(* Copy the connection under conn_mu; it is null once Close has run. *)
WriteGetConn(t) ==
    /\ api[t] = "write_conn"
    /\ IF conn THEN Goto(t, "write_lock") /\ UNCHANGED res
               ELSE Return(t, "NotStarted")
    /\ UNCHANGED <<sharedVars, readerVars, ret, expired, dtor, historyVars>>

(* The fault the second state check prevents: none is made. *)
WriteLockNoRecheck(t) ==
    /\ api[t] = "write_lock"
    /\ write_mu = NoThread
    /\ write_mu' = t
    /\ Goto(t, "write_poll")
    /\ UNCHANGED <<state, conn, done, terminal_received, finish_once,
                   readerVars, ret, expired, res, dtor, historyVars>>

(* Take write_mu and check the state again before sending. *)
WriteLock(t) ==
    /\ api[t] = "write_lock"
    /\ write_mu = NoThread
    /\ IF state = "running"
         THEN /\ write_mu' = t
              /\ Goto(t, "write_poll")
              /\ UNCHANGED res
         ELSE /\ Return(t, "NotStarted")
              /\ UNCHANGED write_mu
    /\ UNCHANGED <<state, conn, done, terminal_received, finish_once,
                   readerVars, ret, expired, dtor, historyVars>>

(* WriteAll: poll reports the socket writable, the blocking send begins. *)
WriteBegin(t) ==
    /\ api[t] = "write_poll"
    /\ Goto(t, "write_sending")
    /\ UNCHANGED <<sharedVars, readerVars, ret, expired, res, dtor, historyVars>>

(* The send returns once the kernel has taken the whole frame, which needs *)
(* the peer to read; write_mu is released and Write returns.               *)
WriteDone(t) ==
    /\ api[t] = "write_sending"
    /\ conn
    /\ wire' = Append(wire, "audio")
    /\ write_mu' = NoThread
    /\ Return(t, "written")
    /\ UNCHANGED <<state, conn, done, terminal_received, finish_once,
                   readerVars, ret, expired, dtor, log, frames,
                   stopped_by_user>>

(* The poll times out, or the socket fails or has been shut down. *)
WriteFails(t) ==
    /\ api[t] \in {"write_poll", "write_sending"}
    /\ write_mu' = NoThread
    /\ Return(t, "WriteFailed")
    /\ UNCHANGED <<state, conn, done, terminal_received, finish_once,
                   readerVars, ret, expired, dtor, historyVars>>

-----------------------------------------------------------------------------
(* WaitForReadLoopOrClose *)

(* Thread t enters the wait; k says whether Stop stores the stopped state  *)
(* when the wait is over.  The deadline is computed here.                  *)
EnterWait(t, k) ==
    /\ Goto(t, "wait")
    /\ ret' = [ret EXCEPT ![t] = k]
    /\ expired' = [expired EXCEPT ![t] = FALSE]

(* The wait is over: the watchdog ends, a Stop that found the session      *)
(* finished returns, any other Stop goes on to store the stopped state.    *)
LeaveWait(t) ==
    IF ret[t] = "store"
      THEN Goto(t, "stop_store") /\ UNCHANGED res
      ELSE Return(t, "stopped")

(* stop_timeout has elapsed since the wait was entered. *)
DeadlinePasses(t) ==
    /\ api[t] \in {"wait", "timed_wait"}
    /\ ~expired[t]
    /\ expired' = [expired EXCEPT ![t] = TRUE]
    /\ UNCHANGED <<sharedVars, readerVars, api, ret, res, dtor, historyVars>>

(* The head of the loop: done, terminal response received, or sleep. *)
WaitCheck(t) ==
    /\ api[t] = "wait"
    /\ \/ done /\ LeaveWait(t)
       \/ /\ ~done /\ terminal_received
          /\ Goto(t, "terminal_wait") /\ UNCHANGED res
       \/ /\ ~done /\ ~terminal_received
          /\ Goto(t, "timed_wait") /\ UNCHANGED res
    /\ UNCHANGED <<sharedVars, readerVars, ret, expired, dtor, historyVars>>

(* The fault the absolute deadline prevents: each wake restarts the budget. *)
WaitWakeResetsBudget(t) ==
    /\ api[t] = "timed_wait"
    /\ Goto(t, "wait")
    /\ expired' = [expired EXCEPT ![t] = FALSE]
    /\ UNCHANGED <<sharedVars, readerVars, ret, res, dtor, historyVars>>

(* Woken before the deadline, by a notification or spuriously: look again. *)
WaitWake(t) ==
    /\ api[t] = "timed_wait"
    /\ ~expired[t]
    /\ Goto(t, "wait")
    /\ UNCHANGED <<sharedVars, readerVars, ret, expired, res, dtor, historyVars>>

(* The fault: the timed-out waiter leaves without closing the connection. *)
WaitTimeoutNoClose(t) ==
    /\ api[t] = "timed_wait"
    /\ expired[t]
    /\ \/ done /\ LeaveWait(t)
       \/ ~done /\ terminal_received /\ Goto(t, "wait") /\ UNCHANGED res
       \/ ~done /\ ~terminal_received /\ Goto(t, "grace_wait") /\ UNCHANGED res
    /\ UNCHANGED <<sharedVars, readerVars, ret, expired, dtor, historyVars>>

(* Woken at the deadline.  All of it runs under done_mu: look at done and   *)
(* terminal_received once more, else force the connection closed and give   *)
(* the reader a last short wait.                                            *)
WaitTimeout(t) ==
    /\ api[t] = "timed_wait"
    /\ expired[t]
    /\ \/ done /\ LeaveWait(t) /\ UNCHANGED conn
       \/ ~done /\ terminal_received /\ Goto(t, "wait") /\ UNCHANGED <<conn, res>>
       \/ /\ ~done /\ ~terminal_received
          /\ conn' = FALSE
          /\ Goto(t, "grace_wait")
          /\ UNCHANGED res
    /\ UNCHANGED <<state, write_mu, done, terminal_received, finish_once,
                   readerVars, ret, expired, dtor, historyVars>>

(* The wait for the terminal callbacks has no timeout. *)
WaitTerminal(t) ==
    /\ api[t] = "terminal_wait"
    /\ done
    /\ LeaveWait(t)
    /\ UNCHANGED <<sharedVars, readerVars, ret, expired, dtor, historyVars>>

(* The 300 ms wait has no predicate: any wake, or its timeout, ends it. *)
GraceEnds(t) ==
    /\ api[t] = "grace_wait"
    /\ LeaveWait(t)
    /\ UNCHANGED <<sharedVars, readerVars, ret, expired, dtor, historyVars>>

Wait(t) ==
    \/ DeadlinePasses(t) \/ WaitCheck(t) \/ WaitWake(t)
    \/ WaitTimeout(t) \/ WaitTerminal(t) \/ GraceEnds(t)

-----------------------------------------------------------------------------
(* Stop *)

(* The compare-exchange from running to stopping; the loser throws. *)
StopCas(t) ==
    /\ MayCall(t) \/ api[t] = "stop_cas"
    /\ IF state = "running"
         THEN /\ state' = "stopping"
              /\ stopped_by_user' = TRUE
              /\ Goto(t, "stop_conn")
              /\ UNCHANGED res
         ELSE /\ Return(t, "NotStarted")
              /\ UNCHANGED <<state, stopped_by_user>>
    /\ UNCHANGED <<conn, write_mu, done, terminal_received, finish_once,
                   readerVars, ret, expired, dtor, wire, log, frames>>

(* Copy the connection.  The reader may have finished the session since the *)
(* compare-exchange: the connection is gone, Stop stores stopped and throws. *)
StopGetConn(t) ==
    /\ api[t] = "stop_conn"
    /\ IF conn THEN Goto(t, "stop_lock") /\ UNCHANGED <<state, res>>
               ELSE state' = "stopped" /\ Return(t, "NotStarted")
    /\ UNCHANGED <<conn, write_mu, done, terminal_received, finish_once,
                   readerVars, ret, expired, dtor, historyVars>>

(* The fault: the end signal is sent without waiting for write_mu. *)
StopLockIgnoresWriter(t) ==
    /\ api[t] = "stop_lock"
    /\ Goto(t, "stop_send")
    /\ UNCHANGED <<sharedVars, readerVars, ret, expired, res, dtor, historyVars>>

(* Take write_mu.  If the session finished meanwhile, release it at once and *)
(* wait for the reader; otherwise send the end signal.                       *)
StopLock(t) ==
    /\ api[t] = "stop_lock"
    /\ write_mu = NoThread
    /\ \/ /\ state = "stopped"
          /\ EnterWait(t, "return")
          /\ UNCHANGED write_mu
       \/ /\ state # "stopped"
          /\ write_mu' = t
          /\ Goto(t, "stop_send")
          /\ UNCHANGED <<ret, expired>>
    /\ UNCHANGED <<state, conn, done, terminal_received, finish_once,
                   readerVars, res, dtor, historyVars>>

(* SendText of the end signal: a small frame, so the send after a successful *)
(* poll does not block.                                                      *)
StopSend(t) ==
    /\ api[t] = "stop_send"
    /\ write_mu' = NoThread
    /\ \/ /\ conn
          /\ wire' = Append(wire, "end")
          /\ Goto(t, "stop_sent")
       \/ /\ Goto(t, "stop_failed")
          /\ UNCHANGED wire
    /\ UNCHANGED <<state, conn, done, terminal_received, finish_once,
                   readerVars, ret, expired, res, dtor, log, frames,
                   stopped_by_user>>

(* The send failed: because the session finished (then wait for the reader), *)
(* or else close the connection, store stopped and throw.                    *)
StopFailed(t) ==
    /\ api[t] = "stop_failed"
    /\ \/ state = "stopped" /\ EnterWait(t, "return")
       \/ state # "stopped" /\ Goto(t, "stop_close") /\ UNCHANGED <<ret, expired>>
    /\ UNCHANGED <<sharedVars, readerVars, res, dtor, historyVars>>

StopClose(t) ==
    /\ api[t] = "stop_close"
    /\ conn' = FALSE
    /\ Goto(t, "stop_failed_store")
    /\ UNCHANGED <<state, write_mu, done, terminal_received, finish_once,
                   readerVars, ret, expired, res, dtor, historyVars>>

StopFailedStore(t) ==
    /\ api[t] = "stop_failed_store"
    /\ state' = "stopped"
    /\ Return(t, "WriteFailed")
    /\ UNCHANGED <<conn, write_mu, done, terminal_received, finish_once,
                   readerVars, ret, expired, dtor, historyVars>>

(* The fault: a Stop made inside a callback waits like any other. *)
StopSentAlwaysWaits(t) ==
    /\ api[t] = "stop_sent"
    /\ EnterWait(t, "store")
    /\ UNCHANGED <<sharedVars, readerVars, res, dtor, historyVars>>

(* The fault: a Stop made inside a callback leaves no watchdog behind. *)
StopSentNoWatchdog(t) ==
    /\ api[t] = "stop_sent"
    /\ IF t = Reader
         THEN Return(t, "stopped") /\ UNCHANGED <<ret, expired>>
         ELSE EnterWait(t, "store") /\ UNCHANGED res
    /\ UNCHANGED <<sharedVars, readerVars, dtor, historyVars>>

(* The end signal is out.  On the reader thread, that is inside a callback, *)
(* a detached watchdog takes over the wait and Stop returns.                *)
StopSent(t) ==
    /\ api[t] = "stop_sent"
    /\ IF t = Reader
         THEN /\ api' = [api EXCEPT ![t] = "out", ![Watchdog] = "wait"]
              /\ res' = [by |-> t, what |-> "stopped"]
              /\ ret' = [ret EXCEPT ![Watchdog] = "return"]
              /\ expired' = [expired EXCEPT ![Watchdog] = FALSE]
         ELSE EnterWait(t, "store") /\ UNCHANGED res
    /\ UNCHANGED <<sharedVars, readerVars, dtor, historyVars>>

(* The watchdog cannot be created: std::system_error leaves Stop inside the   *)
(* callback, with the end signal sent, the state at stopping and nobody to    *)
(* bound the wait for the server.                                             *)
StopSpawnFails(t) ==
    /\ api[t] = "stop_sent"
    /\ t = Reader
    /\ WatchdogMayFail
    /\ Return(t, "SystemError")
    /\ UNCHANGED <<sharedVars, readerVars, ret, expired, dtor, historyVars>>

StopStore(t) ==
    /\ api[t] = "stop_store"
    /\ state' = "stopped"
    /\ Return(t, "stopped")
    /\ UNCHANGED <<conn, write_mu, done, terminal_received, finish_once,
                   readerVars, ret, expired, dtor, historyVars>>

Stop(t) ==
    \/ StopGetConn(t) \/ StopLock(t) \/ StopSend(t) \/ StopFailed(t)
    \/ StopClose(t) \/ StopFailedStore(t) \/ StopSent(t) \/ StopSpawnFails(t)
    \/ StopStore(t)

-----------------------------------------------------------------------------
(* Destructor: stop a running session, then join the reader thread. *)

DestructorEnter(t) ==
    /\ t \in Callers
    /\ dtor = "no"
    /\ \A u \in Callers : api[u] = "out"
    /\ dtor' = "running"
    /\ Goto(t, IF state = "running" THEN "stop_cas" ELSE "join")
    /\ UNCHANGED <<sharedVars, readerVars, ret, expired, res, historyVars>>

(* reader_thread_ is joinable only if Start created it. *)
DestructorJoin(t) ==
    /\ api[t] = "join"
    /\ rd \in {"none", "ended"}
    /\ dtor' = "done"
    /\ Goto(t, "out")
    /\ UNCHANGED <<sharedVars, readerVars, ret, expired, res, historyVars>>

-----------------------------------------------------------------------------
(* The reader thread *)

(* DispatchEvent: the callback a result frame is delivered to, or "none". A *)
(* final response only reports a sentence end; unknown slice types nothing. *)
DispatchEvent(f) ==
    IF f.final_flag = 1 /\ f.slice_type # 2 THEN "none"
    ELSE CASE f.slice_type = 0 -> "OnSentenceBegin"
           [] f.slice_type = 1 -> "OnRecognitionResultChange"
           [] f.slice_type = 2 -> "OnSentenceEnd"
           [] OTHER -> "none"

(* Only OnFail and OnRecognitionComplete are shielded: an exception thrown   *)
(* by any other callback unwinds to ReadLoop.                                *)
Shielded == {"OnFail", "OnRecognitionComplete"}

(* Call the listener; the reader resumes at k.  The log marks the callbacks *)
(* that tell the application how the session ended.                         *)
Call(cb, last, k) ==
    /\ log' = Append(log, [cb |-> cb, last |-> last])
    /\ rd' = "callback"
    /\ resume' = k

(* ReadLoop stores the reader's thread id and enters OnRecognitionStart. *)
ReaderBegins ==
    /\ rd = "spawned"
    /\ Call("OnRecognitionStart", FALSE, "get_conn")
    /\ UNCHANGED <<sharedVars, cur, callVars, dtor, wire, frames,
                   stopped_by_user>>

(* The callback, having left any call it made, returns. *)
CallbackReturns ==
    /\ rd = "callback"
    /\ api[Reader] = "out"
    /\ rd' = resume
    /\ UNCHANGED <<sharedVars, resume, cur, callVars, dtor, historyVars>>

(* The fault: SafeOnFail and SafeComplete let an exception pass too. *)
CallbackThrowsUnshielded ==
    /\ rd = "callback"
    /\ api[Reader] = "out"
    /\ rd' = "finish"
    /\ resume' = "notify"
    /\ UNCHANGED <<sharedVars, cur, callVars, dtor, historyVars>>

(* The callback throws.  ReadLoop catches: Finish, then OnFail. *)
CallbackThrows ==
    /\ rd = "callback"
    /\ api[Reader] = "out"
    /\ log[Len(log)].cb \notin Shielded
    /\ rd' = "finish"
    /\ resume' = "notify"
    /\ UNCHANGED <<sharedVars, cur, callVars, dtor, historyVars>>

(* Finish, under finish_once: store stopped ... *)
FinishStore ==
    /\ rd = "finish"
    /\ IF finish_once THEN rd' = resume /\ UNCHANGED state
                      ELSE state' = "stopped" /\ rd' = "closing"
    /\ UNCHANGED <<conn, write_mu, done, terminal_received, finish_once, resume,
                   cur, callVars, dtor, historyVars>>

(* ... then close the connection. *)
FinishClose ==
    /\ rd = "closing"
    /\ conn' = FALSE
    /\ finish_once' = TRUE
    /\ rd' = resume
    /\ UNCHANGED <<state, write_mu, done, terminal_received, resume, cur,
                   callVars, dtor, historyVars>>

(* Copy the connection; a Stop that timed out during OnRecognitionStart has *)
(* closed it, and the reader leaves.                                        *)
ReaderGetConn ==
    /\ rd = "get_conn"
    /\ rd' = IF conn THEN "read" ELSE "leave"
    /\ UNCHANGED <<sharedVars, resume, cur, callVars, dtor, historyVars>>

(* Read returns 0: nothing arrived within the poll window.  A socket that *)
(* was shut down is readable at once, so this needs an open connection.   *)
ReadTimesOut ==
    /\ rd = "read"
    /\ conn
    /\ rd' = "polled"
    /\ UNCHANGED <<sharedVars, resume, cur, callVars, dtor, historyVars>>

ReadPolled ==
    /\ rd = "polled"
    /\ rd' = IF state = "stopped" THEN "leave" ELSE "read"
    /\ UNCHANGED <<sharedVars, resume, cur, callVars, dtor, historyVars>>

(* Read returns -1: the transport failed, or Close shut the socket down. *)
ReadFails ==
    /\ rd = "read"
    /\ rd' = "broken"
    /\ UNCHANGED <<sharedVars, resume, cur, callVars, dtor, historyVars>>

(* The reader takes the next frame.  Frames already received stay readable *)
(* after Close.                                                            *)
ReadFrame ==
    /\ rd = "read"
    /\ frames < MaxFrames
    /\ frames' = frames + 1

Malformed(f) == f.opcode = "binary" \/ (f.opcode = "text" /\ ~f.parses)
Response(f) == f.opcode = "text" /\ f.parses
Terminal(f) == Response(f) /\ (f.code # 0 \/ f.final_flag = 1)

(* A binary or unparsable frame is reported and the session goes on. *)
ReadMalformed(f) ==
    /\ ReadFrame
    /\ Malformed(f)
    /\ Call("OnFail", FALSE, "read")
    /\ UNCHANGED <<sharedVars, cur, callVars, dtor, wire, stopped_by_user>>

ReadCloseFrame(f) ==
    /\ ReadFrame
    /\ f.opcode = "close"
    /\ rd' = "broken"
    /\ UNCHANGED <<sharedVars, resume, cur, callVars, dtor, wire, log,
                   stopped_by_user>>

(* Other opcodes, the connection acknowledgement (no result) and unknown *)
(* slice types are skipped.                                              *)
ReadSkipped(f) ==
    /\ ReadFrame
    /\ \/ f.opcode = "other"
       \/ Response(f) /\ ~Terminal(f) /\ (~f.has_result \/ DispatchEvent(f) = "none")
    /\ UNCHANGED <<sharedVars, readerVars, callVars, dtor, wire, log,
                   stopped_by_user>>

(* A result: DispatchEvent calls the listener and the session goes on. *)
ReadEvent(f) ==
    /\ ReadFrame
    /\ Response(f) /\ ~Terminal(f) /\ f.has_result
    /\ DispatchEvent(f) # "none"
    /\ Call(DispatchEvent(f), FALSE, "read")
    /\ UNCHANGED <<sharedVars, cur, callVars, dtor, wire, stopped_by_user>>

(* The fault: the callbacks of a terminal response run before Finish. *)
ReadTerminalUnfinished(f) ==
    /\ ReadFrame
    /\ Terminal(f)
    /\ cur' = f
    /\ rd' = "mark"
    /\ UNCHANGED <<sharedVars, resume, callVars, dtor, wire, log,
                   stopped_by_user>>

(* An error response or the final one: Finish comes first. *)
ReadTerminal(f) ==
    /\ ReadFrame
    /\ Terminal(f)
    /\ cur' = f
    /\ rd' = "finish"
    /\ resume' = "mark"
    /\ UNCHANGED <<sharedVars, callVars, dtor, wire, log, stopped_by_user>>

(* The fault: the bound is off by one state, so a failure while running is *)
(* taken for the end of a stopped session.                                 *)
ReadBrokenSilent ==
    /\ rd = "broken"
    /\ rd' = "leave"
    /\ UNCHANGED <<sharedVars, resume, cur, callVars, dtor, historyVars>>

(* The connection is gone.  Once Stop was called this ends the session      *)
(* silently; otherwise Finish, then OnFail.                                 *)
ReadBroken ==
    /\ rd = "broken"
    /\ IF state \in {"stopping", "stopped"}
         THEN rd' = "leave" /\ UNCHANGED resume
         ELSE rd' = "finish" /\ resume' = "notify"
    /\ UNCHANGED <<sharedVars, cur, callVars, dtor, historyVars>>

MarkTerminalReceived ==
    /\ rd = "mark"
    /\ terminal_received' = TRUE
    /\ rd' = "deliver"
    /\ UNCHANGED <<state, conn, write_mu, done, finish_once, resume, cur,
                   callVars, dtor, historyVars>>

(* The callbacks of a terminal response: OnFail for an error; for the final *)
(* response a sentence end, if it carries one, then OnRecognitionComplete.  *)
Deliver ==
    /\ rd = "deliver"
    /\ \/ cur.code # 0 /\ Call("OnFail", TRUE, "leave")
       \/ /\ cur.code = 0 /\ DispatchEvent(cur) # "none"
          /\ Call(DispatchEvent(cur), FALSE, "complete")
       \/ /\ cur.code = 0 /\ DispatchEvent(cur) = "none"
          /\ rd' = "complete"
          /\ UNCHANGED <<resume, log>>
    /\ UNCHANGED <<sharedVars, cur, callVars, dtor, wire, frames,
                   stopped_by_user>>

Complete ==
    /\ rd = "complete"
    /\ Call("OnRecognitionComplete", TRUE, "leave")
    /\ UNCHANGED <<sharedVars, cur, callVars, dtor, wire, frames,
                   stopped_by_user>>

(* OnFail after Finish: a broken connection or a callback that threw. *)
Notify ==
    /\ rd = "notify"
    /\ Call("OnFail", TRUE, "leave")
    /\ UNCHANGED <<sharedVars, cur, callVars, dtor, wire, frames,
                   stopped_by_user>>

(* The fault: exit paths that did not finish explicitly skip Finish. *)
LeaveUnfinished ==
    /\ rd = "leave"
    /\ rd' = "signal"
    /\ UNCHANGED <<sharedVars, resume, cur, callVars, dtor, historyVars>>

(* Every exit path of ReadLoop runs Finish, then SignalDone. *)
Leave ==
    /\ rd = "leave"
    /\ rd' = "finish"
    /\ resume' = "signal"
    /\ UNCHANGED <<sharedVars, cur, callVars, dtor, historyVars>>

SignalDone ==
    /\ rd = "signal"
    /\ done' = TRUE
    /\ rd' = "ended"
    /\ UNCHANGED <<state, conn, write_mu, terminal_received, finish_once, resume,
                   cur, callVars, dtor, historyVars>>

(* The reader thread's own steps, and those that take a server frame. *)
ReaderStep ==
    \/ ReaderBegins \/ CallbackReturns \/ CallbackThrows
    \/ FinishStore \/ FinishClose \/ ReaderGetConn
    \/ ReadTimesOut \/ ReadPolled \/ ReadFails \/ ReadBroken
    \/ MarkTerminalReceived \/ Deliver \/ Complete \/ Notify
    \/ Leave \/ SignalDone
    \/ \E f \in Frames :
          \/ ReadMalformed(f) \/ ReadCloseFrame(f) \/ ReadSkipped(f)
          \/ ReadEvent(f) \/ ReadTerminal(f)

(* The steps of a call in progress that wait for nobody but other threads of *)
(* this process, the clock or a socket that was shut down.                   *)
LocalStep(t) ==
    \/ StartRunning(t) \/ StartSpawn(t) \/ StartSpawnFails(t)
    \/ WriteGetConn(t) \/ WriteLock(t) \/ WriteBegin(t)
    \/ WriteFails(t) /\ (api[t] = "write_poll" \/ ~conn)
    \/ Stop(t) \/ Wait(t)
    \/ StopCas(t) /\ api[t] = "stop_cas"
    \/ DestructorJoin(t)

(* Every step of thread t but those of Connect. *)
CallStep(t) ==
    \/ StartCas(t) \/ StartRunning(t) \/ StartSpawn(t) \/ StartSpawnFails(t)
    \/ WriteInvalid(t) \/ WriteEnter(t) \/ WriteGetConn(t) \/ WriteLock(t)
    \/ WriteBegin(t) \/ WriteDone(t) \/ WriteFails(t)
    \/ StopCas(t) \/ Stop(t) \/ Wait(t)
    \/ DestructorEnter(t) \/ DestructorJoin(t)

(* The destroyed recognizer, all threads gone: nothing is left to do. *)
Terminated ==
    /\ dtor = "done"
    /\ \A t \in Threads : api[t] = "out"
    /\ UNCHANGED vars

(* Scheduling: the threads of the process run, the clock advances, and a     *)
(* callback that keeps calling the recognizer returns in the end.            *)
ThreadFairness ==
    /\ WF_vars(ReaderStep)
    /\ SF_vars(CallbackReturns)
    /\ \A t \in Threads : WF_vars(LocalStep(t)) /\ WF_vars(DeadlinePasses(t))

(* The server keeps reading from its socket, so that a send that has begun *)
(* gets through.                                                           *)
PeerFairness == \A t \in Callers \cup {Reader} : WF_vars(WriteDone(t))

-----------------------------------------------------------------------------
(* Safety *)

(* Writing audio after the end signal violates the protocol (comment in     *)
(* Write): the end signal is the last frame on the wire, and there is at     *)
(* most one, however Write and Stop interleave on several threads.           *)
EndIsLast == \A i \in DOMAIN wire : wire[i] = "end" => i = Len(wire)

(* The listener learns how the session ended at most once, and nothing is   *)
(* delivered to it afterwards: a callback marked last is the last in the log. *)
OneOutcome == \A i \in DOMAIN log : log[i].last => i = Len(log)

(* While a callback of a terminal response runs (the sentence end of a final *)
(* response included), or the OnFail of a broken session, the lifecycle is   *)
(* finished and the connection released, so a Stop or Write made inside it   *)
(* sees the stopped state.                                                   *)
TerminalSeesStopped ==
    rd = "callback" /\ resume \in {"complete", "leave"}
        => state = "stopped" /\ ~conn

(* When the reader has signalled done, on whatever path it left the loop,    *)
(* the session is stopped and its connection released for good.              *)
DoneReleases == done => state = "stopped" /\ ~conn

(* A Stop that returned to an application thread without an exception left   *)
(* the recognizer stopped and the connection closed, whether the server      *)
(* answered, the wait timed out or the session had ended by itself.          *)
StopReleases ==
    res.by \in Callers /\ res.what = "stopped" => state = "stopped" /\ ~conn

(* The reader never waits for itself: a Stop made inside a callback returns  *)
(* without entering WaitForReadLoopOrClose.                                  *)
ReaderNeverWaits == api[Reader] \notin WaitPcs

(* A session the application did not stop never ends silently: if the reader *)
(* is done and no Stop was entered, the listener was told the outcome.       *)
NeverSilent ==
    done /\ ~stopped_by_user => log # << >> /\ log[Len(log)].last

(* A recognizer that is idle, at first or after a Start that failed, has no *)
(* connection and no reader, so Start may be tried again.                   *)
IdleIsClean == state = "idle" => ~conn /\ rd = "none"

(* Once the terminal response is in, Stop waits for its callbacks to finish *)
(* before it returns.                                                       *)
StopAwaitsTerminal ==
    [][\A t \in Callers :
          /\ api[t] \in WaitPcs /\ api'[t] \notin WaitPcs
          /\ terminal_received
          => done]_vars

-----------------------------------------------------------------------------
(* Liveness *)

(* Every Stop returns or throws. *)
StopReturns == \A t \in Threads : api[t] \in StopPcs ~> api[t] \notin StopPcs

(* The destructor returns, so it never blocks on joining the reader. *)
DestructorReturns == dtor = "running" ~> dtor = "done"

(* A session that Stop was called on ends: it is stopped, its connection is *)
(* released and its reader, if one was created, is gone.                    *)
SessionEnds ==
    state = "stopping" ~> state = "stopped" /\ ~conn /\ rd \in {"none", "ended"}

-----------------------------------------------------------------------------
(* The recognizer implements the abstract session: every step of its threads *)
(* is a step of RecognitionSession or leaves the session as it is.           *)
Session == INSTANCE RecognitionSession
    WITH phase <- state, stream <- wire, events <- log

(* The lifecycle, the stream and the callbacks follow RecognitionSession:    *)
(* single use, no frame after the end signal, no callback after the outcome, *)
(* no outcome before the stopped state, whatever the interleaving.           *)
ImplementsSession == Session!SessionSpec

-----------------------------------------------------------------------------
(* The inductive invariant behind the safety properties, in named parts. *)

OpenStates == {"running", "stopping", "stopped"}

(* The control points of a Stop that won the compare-exchange. *)
ActiveStopPcs == StopPcs \ {"stop_cas"}

Ended == \E i \in DOMAIN wire : wire[i] = "end"
Reported == \E i \in DOMAIN log : log[i].last
LastReported == log # << >> /\ log[Len(log)].last

(* At most one Start is in progress and at most one Stop ever wins; a call   *)
(* in progress pins the state down.                                          *)
LifecycleInv ==
    /\ \A t \in Threads : api[t] \in ConnectPcs => state = "starting"
    /\ \A t \in Threads :
          api[t] = "spawning" => state = "running" /\ conn /\ rd = "none"
    /\ \A t \in Threads :
          api[t] \in {"acking", "ack_polled", "ack_read", "connected"} => conn
    /\ \A t \in Threads : api[t] \in StartPcs => t \in Callers /\ dtor = "no"
    /\ \A t, u \in Threads : api[t] \in StartPcs /\ api[u] \in StartPcs => t = u
    /\ rd # "none" => state \in OpenStates
    /\ \A t \in Threads :
          api[t] \in ActiveStopPcs => state \in {"stopping", "stopped"}
    /\ \A t, u \in Threads :
          api[t] \in ActiveStopPcs /\ api[u] \in ActiveStopPcs => t = u
    /\ \A t \in Threads :
          api[t] \in {"stop_cas", "join"} => t \in Callers /\ dtor = "running"
    /\ dtor # "no" => \A t, u \in Callers :
          api[t] # "out" /\ api[u] # "out" => t = u

(* Who sends holds write_mu, and nobody who may still send does so after *)
(* the end signal.                                                       *)
StreamInv ==
    /\ \A t \in Threads :
          api[t] \in {"write_poll", "write_sending", "stop_send"} => write_mu = t
    /\ Ended => state \in {"stopping", "stopped"}
    /\ Ended => \A t \in Threads :
          api[t] \notin {"write_poll", "write_sending", "stop_conn",
                        "stop_lock", "stop_send"}
    /\ EndIsLast

(* Where the reader is tells what it has finished and reported. *)
ReaderInv ==
    /\ api[Reader] # "out" => rd = "callback"
    /\ rd \in {"finish", "closing"} => resume \in {"mark", "notify", "signal"}
    /\ rd = "callback" =>
          /\ resume \in {"get_conn", "read", "complete", "leave"}
          /\ log # << >>
    /\ rd = "callback" /\ resume = "leave" =>
          LastReported /\ log[Len(log)].cb \in Shielded
    /\ rd = "closing" => state = "stopped"
    /\ finish_once => state = "stopped" /\ ~conn
    /\ \/ rd \in {"mark", "deliver", "complete", "notify", "signal", "ended"}
       \/ rd = "callback" /\ resume \in {"complete", "leave"}
       => finish_once
    /\ \/ rd \in {"none", "spawned", "get_conn", "read", "polled", "broken"}
       \/ rd = "callback" /\ resume \in {"get_conn", "read"}
       \/ rd = "closing"
       => ~finish_once
    /\ done => rd = "ended"
    /\ Reported =>
          \/ rd \in {"leave", "signal", "ended"}
          \/ rd = "callback" /\ resume = "leave"
          \/ rd \in {"finish", "closing"} /\ resume = "signal"
    /\ OneOutcome

(* What a waiting Stop and the watchdog rely on. *)
StopInv ==
    /\ api[Reader] \in ActiveStopPcs =>
          state = "stopping" /\ api[Reader] \notin WaitPcs \cup {"stop_store"}
    /\ api[Watchdog] \in WaitPcs \cup {"out"} /\ ret[Watchdog] = "return"
    /\ \A t \in Threads : api[t] \in {"grace_wait", "stop_store"} => ~conn
    /\ \A t \in Callers :
          api[t] \in WaitPcs /\ ret[t] = "return" => state = "stopped"
    /\ StopReleases

(* Without a Stop, the session only ends through Finish and a report. *)
SilentInv ==
    ~stopped_by_user =>
        /\ state # "stopping"
        /\ \A t \in Threads : api[t] \notin ActiveStopPcs
        /\ state = "stopped" => finish_once \/ rd = "closing"
        /\ rd # "none" /\ ~finish_once => conn
        /\ \/ rd \in {"leave", "signal", "ended"}
           \/ rd \in {"finish", "closing"} /\ resume = "signal"
           => LastReported

(* A Write past its entry check belongs to a session that was opened. *)
WriterInv == \A t \in Threads : api[t] \in WritePcs => state \in OpenStates

IInv ==
    /\ TypeOK /\ LifecycleInv /\ StreamInv /\ ReaderInv /\ StopInv /\ SilentInv
    /\ WriterInv
=============================================================================
