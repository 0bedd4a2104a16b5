------------------------- MODULE SpeechRecognizerV3 -------------------------
(***************************************************************************)
(* The v3 realtime recognizer: RecognizerCore with the Connect of v3.cc,   *)
(* which sends a start frame, publishes the connection and reads the       *)
(* server's acknowledgement on the calling thread before the reader exists *)
(* (state starting).  v3.cc repeats Write, Stop, the reader and the        *)
(* destructor statement by statement on the same RecognizerSharedState, so *)
(* those steps are the ones of RecognizerCore.                             *)
(***************************************************************************)
EXTENDS RecognizerCore

(* What makes an acknowledgement fail: the connection is lost or closed, the *)
(* payload is not JSON, it is JSON whose types the field accessors refuse, or *)
(* it carries an error code, with a usable or an unusable message.           *)
BadAcks == {"lost", "not_json", "bad_types", "error", "error_bad_message"}

(* Validation, UserSig, an oversized start frame, the dial or sending the   *)
(* start frame fails; nothing was published.  The options are UTF-8 here:   *)
(* RequestCalls has the exception of the JSON library on those that are not.*)
ConnectFails(t) ==
    /\ api[t] = "connecting"
    /\ state' = "idle"
    /\ \E r \in {"InvalidParam", "ConnectFailed", "WriteFailed"} : Return(t, r)
    /\ UNCHANGED <<conn, write_mu, done, terminal_received, finish_once,
                   readerVars, ret, expired, dtor, historyVars>>

(* The start frame is out: publish the connection, wait for the ack. *)
Connect(t) ==
    /\ api[t] = "connecting"
    /\ conn' = TRUE
    /\ expired' = [expired EXCEPT ![t] = FALSE]
    /\ Goto(t, "acking")
    /\ UNCHANGED <<state, write_mu, done, terminal_received, finish_once,
                   readerVars, ret, res, dtor, historyVars>>

(* AckTimeout has elapsed since the start frame. *)
AckDeadlinePasses(t) ==
    /\ api[t] \in AckPcs
    /\ ~expired[t]
    /\ expired' = [expired EXCEPT ![t] = TRUE]
    /\ UNCHANGED <<sharedVars, readerVars, api, ret, res, dtor, historyVars>>

(* Read comes back: empty after its poll window, or with a frame, a close or *)
(* an error, which is handled without a look at the clock.                   *)
AckRead(t) ==
    /\ api[t] = "acking"
    /\ \E pc \in {"ack_polled", "ack_read"} : Goto(t, pc)
    /\ UNCHANGED <<sharedVars, readerVars, ret, expired, res, dtor, historyVars>>

(* An empty Read before the deadline: read again. *)
AckPolled(t) ==
    /\ api[t] = "ack_polled"
    /\ ~expired[t]
    /\ Goto(t, "acking")
    /\ UNCHANGED <<sharedVars, readerVars, ret, expired, res, dtor, historyVars>>

(* The fault: a Read that came back empty restarts the budget. *)
AckTimesOutRestarts(t) ==
    /\ api[t] = "ack_polled"
    /\ expired[t]
    /\ expired' = [expired EXCEPT ![t] = FALSE]
    /\ Goto(t, "acking")
    /\ UNCHANGED <<sharedVars, readerVars, ret, res, dtor, historyVars>>

(* An empty Read at or after the deadline, the only place where the deadline *)
(* is looked at: Close, store idle, throw.                                   *)
AckTimesOut(t) ==
    /\ api[t] = "ack_polled"
    /\ expired[t]
    /\ conn' = FALSE
    /\ state' = "idle"
    /\ Return(t, "ReadFailed")
    /\ UNCHANGED <<write_mu, done, terminal_received, finish_once, readerVars,
                   ret, expired, dtor, historyVars>>

(* How Start ends for a bad ack.  The accessors throw nlohmann's own         *)
(* exception.                                                                *)
AckResult ==
    [a \in BadAcks |->
        CASE a = "lost" -> "ReadFailed"
          [] a \in {"not_json", "error"} -> "ServerError"
          [] OTHER -> "ForeignException"]

(* The fault: no bad ack closes the published connection. *)
AckFailsNoClose(t) ==
    /\ api[t] = "ack_read"
    /\ \E a \in BadAcks : Return(t, AckResult[a])
    /\ state' = "idle"
    /\ UNCHANGED <<conn, write_mu, done, terminal_received, finish_once,
                   readerVars, ret, expired, dtor, historyVars>>

(* The ack fails: Close, unless reading its code field threw, then Start *)
(* stores idle and throws.                                               *)
AckFails(t) ==
    /\ api[t] = "ack_read"
    /\ \E a \in BadAcks :
          /\ conn' = (conn /\ a = "bad_types")
          /\ Return(t, AckResult[a])
    /\ state' = "idle"
    /\ UNCHANGED <<write_mu, done, terminal_received, finish_once, readerVars,
                   ret, expired, dtor, historyVars>>

(* A frame that is not text is skipped, past the deadline too. *)
AckSkips(t) ==
    /\ api[t] = "ack_read"
    /\ Goto(t, "acking")
    /\ UNCHANGED <<sharedVars, readerVars, ret, expired, res, dtor, historyVars>>

(* The server accepted the session. *)
AckOk(t) ==
    /\ api[t] = "ack_read"
    /\ Goto(t, "connected")
    /\ UNCHANGED <<sharedVars, readerVars, ret, expired, res, dtor, historyVars>>

(* What the thread makes of a Read that came back. *)
AckHandled(t) ==
    AckPolled(t) \/ AckTimesOut(t) \/ AckFails(t) \/ AckSkips(t) \/ AckOk(t)

Ack(t) == AckDeadlinePasses(t) \/ AckRead(t) \/ AckHandled(t)

-----------------------------------------------------------------------------
(* The methods of v3.cc that repeat those of the v2 recognizer. *)

Start(t) == StartCas(t) \/ StartRunning(t) \/ StartSpawn(t) \/ StartSpawnFails(t)

Write(t) ==
    \/ WriteInvalid(t) \/ WriteEnter(t) \/ WriteGetConn(t) \/ WriteLock(t)
    \/ WriteBegin(t) \/ WriteDone(t) \/ WriteFails(t)

StopV3(t) == StopCas(t) \/ Stop(t) \/ Wait(t)

Destructor(t) == DestructorEnter(t) \/ DestructorJoin(t)

(* ReadLoop: the frame of the loop, from the thread id to SignalDone. *)
ReadLoop ==
    \/ ReaderBegins \/ CallbackReturns \/ CallbackThrows
    \/ FinishStore \/ FinishClose \/ Leave \/ SignalDone

(* ReadLoopInner: one frame or one failure of the connection. *)
ReadLoopInner ==
    \/ ReaderGetConn \/ ReadTimesOut \/ ReadPolled \/ ReadFails \/ ReadBroken
    \/ MarkTerminalReceived \/ Deliver \/ Complete \/ Notify
    \/ \E f \in Frames :
          \/ ReadMalformed(f) \/ ReadCloseFrame(f) \/ ReadSkipped(f)
          \/ ReadEvent(f) \/ ReadTerminal(f)

Next ==
    \/ \E t \in Threads :
          \/ Start(t) \/ ConnectFails(t) \/ Connect(t) \/ Ack(t)
          \/ Write(t) \/ StopV3(t) \/ Destructor(t)
    \/ ReadLoop \/ ReadLoopInner
    \/ Terminated

Spec == Init /\ [][Next]_vars

(* The clock advances, the dial ends, Read returns within its poll window   *)
(* and the thread goes on; nothing is assumed of what the server sends.     *)
AckFairness ==
    \A t \in Callers :
        /\ WF_vars(AckDeadlinePasses(t))
        /\ WF_vars(AckRead(t))
        /\ WF_vars(AckHandled(t))
        /\ WF_vars(ConnectFails(t) \/ Connect(t))

FairSpec == Spec /\ ThreadFairness /\ PeerFairness /\ AckFairness

-----------------------------------------------------------------------------
(* Properties of Start *)

(* Start fails with the SDK's own error type only: no exception of the JSON *)
(* library leaves it.                                                       *)
OnlySdkErrors == res.what # "ForeignException"

(* A Start whose ack failed with an ASRError has released the connection it  *)
(* had published, so the recognizer can be started again from a clean state. *)
FailedStartReleases ==
    res.what \in {"ReadFailed", "ServerError"} /\ state = "idle" => ~conn

(* A Start ends, whether or not the server acknowledges, with one exception: *)
(* a Start that never ends reads one frame that is no text after the other   *)
(* and from some point on no Read comes back empty, which is where the       *)
(* deadline is looked at.                                                    *)
StartReturns ==
    \A t \in Callers :
        <>[](api[t] \in StartPcs) =>
            /\ <>[](api[t] \in {"acking", "ack_read"})
            /\ []<>(api[t] = "ack_read")
=============================================================================
