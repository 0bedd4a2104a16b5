------------------------- MODULE RecognitionSession -------------------------
(***************************************************************************)
(* What a realtime recognizer promises its application, without threads,   *)
(* locks or sockets: a single-use session with a lifecycle, an outgoing    *)
(* stream that the end signal closes, and a series of callbacks that an    *)
(* outcome closes.  The class comment of SpeechRecognizer, the comments of *)
(* Write and of the listener state it in words.                            *)
(***************************************************************************)
EXTENDS Naturals, Sequences

CONSTANT Callbacks      \* the listener's callbacks

VARIABLES
    phase,      \* idle, starting, running, stopping, stopped
    stream,     \* the frames sent: audio, then possibly the end signal
    events      \* the callbacks delivered; the one marked last is the outcome

sessionVars == <<phase, stream, events>>

Ended == \E i \in DOMAIN stream : stream[i] = "end"
Reported == \E i \in DOMAIN events : events[i].last

SessionInit ==
    /\ phase = "idle"
    /\ stream = << >>
    /\ events = << >>

(* Start, a Start that fails, and a Start that succeeds. *)
Begin == phase = "idle" /\ phase' = "starting" /\ UNCHANGED <<stream, events>>
Abort == phase = "starting" /\ phase' = "idle" /\ UNCHANGED <<stream, events>>
Open  == phase = "starting" /\ phase' = "running" /\ UNCHANGED <<stream, events>>

(* Stop is called, at most once and only on a running session. *)
RequestStop ==
    phase = "running" /\ phase' = "stopping" /\ UNCHANGED <<stream, events>>

(* The session is over, after Stop or by itself; there is no way back. *)
Close ==
    /\ phase \in {"running", "stopping"}
    /\ phase' = "stopped"
    /\ UNCHANGED <<stream, events>>

(* Audio goes out until the end signal; a frame under way when the phase *)
(* changes still gets through.                                           *)
SendAudio ==
    /\ phase \in {"running", "stopping", "stopped"}
    /\ ~Ended
    /\ stream' = Append(stream, "audio")
    /\ UNCHANGED <<phase, events>>

(* The end signal follows Stop. *)
SendEnd ==
    /\ phase \in {"stopping", "stopped"}
    /\ ~Ended
    /\ stream' = Append(stream, "end")
    /\ UNCHANGED <<phase, events>>

(* The outcome is reported once, on a session that is over, and nothing is *)
(* reported after it.                                                      *)
Report ==
    /\ phase \in {"running", "stopping", "stopped"}
    /\ ~Reported
    /\ \E cb \in Callbacks, last \in BOOLEAN :
          /\ last => phase = "stopped"
          /\ events' = Append(events, [cb |-> cb, last |-> last])
    /\ UNCHANGED <<phase, stream>>

SessionNext ==
    \/ Begin \/ Abort \/ Open \/ RequestStop \/ Close
    \/ SendAudio \/ SendEnd \/ Report

SessionSpec == SessionInit /\ [][SessionNext]_sessionVars
=============================================================================
