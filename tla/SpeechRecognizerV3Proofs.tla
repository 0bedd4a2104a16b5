---------------------- MODULE SpeechRecognizerV3Proofs ----------------------
(***************************************************************************)
(* The v3 recognizer keeps the inductive invariant of RecognizerCore, and  *)
(* implements the abstract session, for any set of application threads and *)
(* any server frames.  What v3 adds to the core are the steps of its       *)
(* Connect, which waits for the server's acknowledgement on the thread     *)
(* that called Start.                                                      *)
(***************************************************************************)
EXTENDS SpeechRecognizerV3, RecognizerCoreProofs

USE DEF sharedVars, readerVars, callVars, historyVars

(* The ways a Start may fail while it connects or waits for the ack. *)
StartFails(t) == ConnectFails(t) \/ AckTimesOut(t) \/ AckFails(t)

(* A Start that fails goes back to idle, whatever it does to the connection. *)
LEMMA StartFailsIInv ==
  ASSUME IInv, NEW t \in Threads, StartFails(t)
  PROVE  IInv'
  <1>1. /\ api[t] \in {"connecting", "ack_polled", "ack_read"}
        /\ state' = "idle"
        /\ conn' \in BOOLEAN
        /\ \E r \in Results : Return(t, r)
        /\ UNCHANGED <<write_mu, done, terminal_received, finish_once,
                       readerVars, ret, expired, dtor, historyVars>>
    <2>1. CASE ConnectFails(t)
      BY <2>1 DEF ConnectFails, Results, IInv, TypeOK
    <2>2. CASE AckTimesOut(t)
      BY <2>2 DEF AckTimesOut, Results
    <2>3. CASE AckFails(t)
      BY <2>3 DEF AckFails, AckResult, BadAcks, Results
    <2> QED
      BY <2>1, <2>2, <2>3 DEF StartFails
  <1> PICK r \in Results : Return(t, r)
    BY <1>1
  <1> USE ThreadsAssumption DEF Return, Goto, IInv, ConnectPcs, StartPcs
  <1>2. t \in Callers /\ dtor = "no" /\ state = "starting" /\ rd = "none"
    BY <1>1 DEF LifecycleInv, OpenStates
  <1>3. api' = [api EXCEPT ![t] = "out"] /\ res' = [by |-> t, what |-> r]
    BY <1>2
  <1>4. TypeOK'
    BY <1>1, <1>2, <1>3 DEF TypeOK, States, ApiPcs
  <1>5. LifecycleInv' /\ WriterInv'
    BY <1>1, <1>2, <1>3 DEF TypeOK, LifecycleInv, WriterInv, WritePcs,
                           ActiveStopPcs, StopPcs, WaitPcs, OpenStates
  <1>6. StreamInv'
    BY <1>1, <1>2, <1>3 DEF TypeOK, StreamInv, Ended, EndIsLast
  <1>7. ReaderInv'
    BY <1>1, <1>2, <1>3 DEF TypeOK, ReaderInv, Reported, LastReported, OneOutcome
  <1>8. StopInv'
    <2>1. r # "stopped"
      <3>1. CASE ConnectFails(t)
        BY <3>1, <1>3 DEF ConnectFails
      <3>2. CASE AckTimesOut(t)
        BY <3>2, <1>3 DEF AckTimesOut
      <3>3. CASE AckFails(t)
        BY <3>3, <1>3 DEF AckFails, AckResult, BadAcks
      <3> QED
        BY <3>1, <3>2, <3>3 DEF StartFails
    <2> QED
      BY <1>1, <1>2, <1>3, <2>1 DEF TypeOK, Threads, LifecycleInv, StopInv,
                             StopReleases, ActiveStopPcs, StopPcs, WaitPcs
  <1>9. SilentInv'
    BY <1>1, <1>2, <1>3 DEF TypeOK, SilentInv, LastReported, ActiveStopPcs,
                           StopPcs, WaitPcs
  <1> QED
    BY <1>4, <1>5, <1>6, <1>7, <1>8, <1>9

(* The steps that move Start on while the session is still starting: the    *)
(* connection is published, Read comes back, the loop goes round, the ack is *)
(* received.                                                                 *)
StartProceeds(t) ==
    Connect(t) \/ AckRead(t) \/ AckPolled(t) \/ AckSkips(t) \/ AckOk(t)

LEMMA StartProceedsIInv ==
  ASSUME IInv, NEW t \in Threads, StartProceeds(t)
  PROVE  IInv'
  <1>1. /\ api[t] \in ConnectPcs
        /\ conn'
        /\ \E pc \in ConnectPcs \ {"connecting"} : Goto(t, pc)
        /\ expired' \in [Threads -> BOOLEAN]
        /\ UNCHANGED <<state, write_mu, done, terminal_received, finish_once,
                       readerVars, ret, res, dtor, historyVars>>
    BY DEF StartProceeds, Connect, AckRead, AckPolled, AckSkips, AckOk,
           ConnectPcs, IInv, TypeOK, LifecycleInv
  <1> PICK pc \in ConnectPcs \ {"connecting"} : Goto(t, pc)
    BY <1>1
  <1> USE ThreadsAssumption DEF Goto, IInv, ConnectPcs, StartPcs
  <1>2. t \in Callers /\ dtor = "no" /\ state = "starting" /\ rd = "none"
    BY <1>1 DEF LifecycleInv, OpenStates
  <1>3. TypeOK'
    <2>1. conn' \in BOOLEAN
      BY <1>1 DEF TypeOK, LifecycleInv, StartProceeds, Connect, AckRead,
                  AckPolled, AckSkips, AckOk
    <2>2. api' \in [Threads -> ApiPcs]
      BY <1>1 DEF TypeOK, ApiPcs
    <2> QED
      BY <1>1, <2>1, <2>2 DEF TypeOK
  <1>4. LifecycleInv' /\ WriterInv'
    BY <1>1, <1>2 DEF TypeOK, LifecycleInv, WriterInv, WritePcs, ActiveStopPcs,
                     StopPcs, WaitPcs, OpenStates
  <1>5. StreamInv'
    BY <1>1, <1>2 DEF TypeOK, StreamInv, Ended, EndIsLast
  <1>6. ReaderInv'
    BY <1>1, <1>2 DEF TypeOK, ReaderInv, Reported, LastReported, OneOutcome
  <1>7. StopInv'
    BY <1>1, <1>2 DEF TypeOK, Threads, LifecycleInv, StopInv, StopReleases,
                     ActiveStopPcs, StopPcs, WaitPcs
  <1>8. SilentInv'
    BY <1>1, <1>2 DEF TypeOK, SilentInv, LastReported, ActiveStopPcs, StopPcs,
                     WaitPcs
  <1> QED
    BY <1>3, <1>4, <1>5, <1>6, <1>7, <1>8

(* The passing of the deadline touches only a timer. *)
LEMMA AckIdlesIInv ==
  ASSUME IInv, NEW t \in Threads, AckDeadlinePasses(t)
  PROVE  IInv'
  <1>1. /\ UNCHANGED <<sharedVars, readerVars, api, ret, res, dtor, historyVars>>
        /\ expired' \in [Threads -> BOOLEAN]
    BY DEF AckDeadlinePasses, IInv, TypeOK
  <1>2. TypeOK'
    BY <1>1 DEF IInv, TypeOK
  <1>3. LifecycleInv' /\ WriterInv' /\ StreamInv'
    BY <1>1 DEF IInv, LifecycleInv, WriterInv, StreamInv, Ended, EndIsLast
  <1>4. ReaderInv' /\ StopInv' /\ SilentInv'
    BY <1>1 DEF IInv, ReaderInv, StopInv, SilentInv, Reported, LastReported,
               OneOutcome, StopReleases
  <1> QED
    BY <1>2, <1>3, <1>4 DEF IInv

(* Every step of the v3 recognizer is one of its own Connect or one of the *)
(* core.                                                                   *)
LEMMA NextSplits ==
  ASSUME [Next]_vars
  PROVE  \/ \E t \in Threads :
               \/ StartFails(t) \/ StartProceeds(t)
               \/ AckDeadlinePasses(t) \/ CallStep(t)
         \/ ReaderStep
         \/ UNCHANGED vars
  <1>1. ASSUME NEW t \in Threads,
               Start(t) \/ Write(t) \/ StopV3(t) \/ Destructor(t)
        PROVE  CallStep(t)
    BY <1>1 DEF Start, Write, StopV3, Destructor, CallStep
  <1>2. ASSUME NEW t \in Threads, ConnectFails(t) \/ Connect(t) \/ Ack(t)
        PROVE  StartFails(t) \/ StartProceeds(t) \/ AckDeadlinePasses(t)
    BY <1>2 DEF Ack, AckHandled, StartFails, StartProceeds
  <1>3. ASSUME ReadLoop \/ ReadLoopInner
        PROVE  ReaderStep
    BY <1>3 DEF ReadLoop, ReadLoopInner, ReaderStep
  <1>4. ASSUME Terminated PROVE UNCHANGED vars
    BY <1>4 DEF Terminated
  <1> QED
    BY <1>1, <1>2, <1>3, <1>4 DEF Next

LEMMA NextIInv == IInv /\ [Next]_vars => IInv'
  <1> SUFFICES ASSUME IInv, [Next]_vars PROVE IInv'
    OBVIOUS
  <1> QED
    BY NextSplits, StartFailsIInv, StartProceedsIInv, AckIdlesIInv,
       CallStepIInv, ReaderStepIInv, StutterIInv

(* The v3 recognizer never leaves the inductive invariant that v2 keeps, so *)
(* an end signal stays last, the listener hears one outcome and a Stop that *)
(* returned released the connection in v3 too.                              *)
THEOREM InvarianceV3 == Spec => []IInv
  <1>1. Init => IInv
    BY InitIInv
  <1> QED
    BY <1>1, NextIInv, PTL DEF Spec

(* A failed Start, before or after the start frame, aborts the abstract     *)
(* session; every other step of Connect leaves it as it is.                 *)
LEMMA NextSession ==
  IInv /\ [Next]_vars => [Session!SessionNext]_(Session!sessionVars)
  <1> SUFFICES ASSUME IInv, [Next]_vars
               PROVE  [Session!SessionNext]_(Session!sessionVars)
    OBVIOUS
  <1>1. ASSUME NEW t \in Threads, StartFails(t)
        PROVE  Session!SessionNext
    <2>1. /\ api[t] \in ConnectPcs
          /\ state' = "idle"
          /\ UNCHANGED <<wire, log>>
      BY <1>1 DEF StartFails, ConnectFails, AckTimesOut, AckFails, ConnectPcs
    <2>2. state = "starting"
      BY <2>1 DEF IInv, LifecycleInv
    <2> QED
      BY <2>1, <2>2 DEF Session!SessionNext, Session!Abort
  <1>2. ASSUME NEW t \in Threads, StartProceeds(t) \/ AckDeadlinePasses(t)
        PROVE  UNCHANGED Session!sessionVars
    BY <1>2 DEF StartProceeds, Connect, AckRead, AckPolled, AckSkips, AckOk,
                AckDeadlinePasses, Session!sessionVars
  <1>3. CASE UNCHANGED vars
    BY <1>3 DEF vars, Session!sessionVars
  <1> QED
    BY <1>1, <1>2, <1>3, NextSplits, CallStepSession, ReaderStepSession

(* The v3 recognizer implements RecognitionSession, as v2 does. *)
THEOREM RefinementV3 == Spec => ImplementsSession
  <1>1. Init => Session!SessionInit
    BY InitSession
  <1> QED
    BY <1>1, InvarianceV3, NextSession, PTL
       DEF Spec, ImplementsSession, Session!SessionSpec

-----------------------------------------------------------------------------
(* The connection of a failed Start *)

(* A Start that fails with an error an ack can cause closes the connection;  *)
(* the ack whose accessors threw is the one failure that keeps it, and that  *)
(* one is not an ASRError.                                                   *)
LEMMA StartFailsReleases ==
  ASSUME NEW t \in Threads, StartFails(t)
  PROVE  FailedStartReleases'
  <1>1. CASE ConnectFails(t)
    BY <1>1 DEF ConnectFails, Return, FailedStartReleases
  <1>2. CASE AckTimesOut(t)
    BY <1>2 DEF AckTimesOut, FailedStartReleases
  <1>3. CASE AckFails(t)
    <2>1. PICK a \in BadAcks :
             conn' = (conn /\ a = "bad_types") /\ Return(t, AckResult[a])
      BY <1>3 DEF AckFails
    <2>2. CASE a = "bad_types"
      <3>1. res'.what = "ForeignException"
        BY <2>1, <2>2 DEF Return, AckResult, BadAcks
      <3> QED
        BY <3>1 DEF FailedStartReleases
    <2>3. CASE a # "bad_types"
      <3>1. ~conn'
        BY <2>1, <2>3
      <3> QED
        BY <3>1 DEF FailedStartReleases
    <2> QED
      BY <2>2, <2>3
  <1> QED
    BY <1>1, <1>2, <1>3 DEF StartFails

LEMMA NextReleases ==
  IInv /\ FailedStartReleases /\ [Next]_vars => FailedStartReleases'
  <1> SUFFICES ASSUME IInv, FailedStartReleases, [Next]_vars
               PROVE  FailedStartReleases'
    OBVIOUS
  <1>1. ASSUME NEW t \in Threads, StartProceeds(t)
        PROVE  FailedStartReleases'
    <2>1. state' = "starting"
      BY <1>1 DEF StartProceeds, Connect, AckRead, AckPolled, AckSkips, AckOk,
                  IInv, LifecycleInv, ConnectPcs
    <2> QED
      BY <2>1 DEF FailedStartReleases
  <1>2. ASSUME NEW t \in Threads, AckDeadlinePasses(t)
        PROVE  FailedStartReleases'
    BY <1>2 DEF AckDeadlinePasses, FailedStartReleases
  <1>3. ASSUME NEW t \in Threads, CallStep(t)
        PROVE  FailedStartReleases'
    <2>1. /\ conn' = conn \/ conn' = FALSE
          /\ state' = "idle" => state = "idle"
          /\ res' = res \/ res'.what \notin {"ReadFailed", "ServerError"}
      BY <1>3, CallStepPublishes
    <2> QED
      BY <2>1 DEF FailedStartReleases
  <1>4. CASE ReaderStep
    <2>1. /\ UNCHANGED res
          /\ state' = state \/ state' = "stopped"
          /\ conn' = conn \/ conn' = FALSE
      BY <1>4, ReaderFrame
    <2> QED
      BY <2>1 DEF FailedStartReleases
  <1>5. CASE UNCHANGED vars
    BY <1>5 DEF vars, FailedStartReleases
  <1> QED
    BY <1>1, <1>2, <1>3, <1>4, <1>5, NextSplits, StartFailsReleases

(* A v3 Start that fails on the acknowledgement with an ASRError has closed  *)
(* the connection it published, whatever other threads call meanwhile and    *)
(* however often Start is tried again.                                       *)
THEOREM FailedStartReleasesHolds == Spec => []FailedStartReleases
  <1>1. Init => FailedStartReleases
    BY DEF Init, FailedStartReleases
  <1> QED
    BY <1>1, InvarianceV3, NextReleases, PTL DEF Spec
=============================================================================
