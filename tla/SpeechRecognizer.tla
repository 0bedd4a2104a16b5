-------------------------- MODULE SpeechRecognizer --------------------------
(***************************************************************************)
(* The v2 realtime recognizer: RecognizerCore with the Connect of          *)
(* speech_recognizer.cc, which dials and publishes the connection.         *)
(* Parameters travel in the URL and nothing is exchanged before the reader *)
(* runs.                                                                   *)
(***************************************************************************)
EXTENDS RecognizerCore

(* The fault: the connection is published, then Connect fails. *)
ConnectFailsPublished(t) ==
    /\ api[t] = "connecting"
    /\ state' = "idle"
    /\ conn' = TRUE
    /\ Return(t, "ConnectFailed")
    /\ UNCHANGED <<write_mu, done, terminal_received, finish_once, readerVars,
                   ret, expired, dtor, historyVars>>

(* ValidateOptions or Connect throws before anything is published: Start     *)
(* goes back to idle and passes the exception on.                            *)
ConnectFails(t) ==
    /\ api[t] = "connecting"
    /\ state' = "idle"
    /\ \E r \in {"InvalidParam", "ConnectFailed"} : Return(t, r)
    /\ UNCHANGED <<conn, write_mu, done, terminal_received, finish_once,
                   readerVars, ret, expired, dtor, historyVars>>

(* The dial succeeded: the connection is published under conn_mu. *)
Connect(t) ==
    /\ api[t] = "connecting"
    /\ conn' = TRUE
    /\ Goto(t, "connected")
    /\ UNCHANGED <<state, write_mu, done, terminal_received, finish_once,
                   readerVars, ret, expired, res, dtor, historyVars>>

Next ==
    \/ \E t \in Threads : ConnectFails(t) \/ Connect(t) \/ CallStep(t)
    \/ ReaderStep
    \/ Terminated

Spec == Init /\ [][Next]_vars

(* The threads run; the server may stop reading. *)
StalledPeerSpec == Spec /\ ThreadFairness

(* In v2 nothing is published before Connect succeeds: the part of the      *)
(* inductive invariant that IdleIsClean needs.                              *)
PublishInv ==
    /\ state = "idle" => ~conn
    /\ \A t \in Threads : api[t] = "connecting" => ~conn
=============================================================================
