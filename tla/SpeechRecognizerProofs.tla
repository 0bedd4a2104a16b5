----------------------- MODULE SpeechRecognizerProofs -----------------------
(***************************************************************************)
(* The v2 recognizer keeps its safety properties for any set of            *)
(* application threads, any server frames and any bounds.  RecognizerCore's *)
(* steps preserve IInv by RecognizerCoreProofs; what is left are the steps *)
(* of Connect, and PublishInv for the retry of a Start that failed.        *)
(***************************************************************************)
EXTENDS SpeechRecognizer, RecognizerCoreProofs

USE DEF sharedVars, readerVars, callVars, historyVars

(* A Connect that fails goes back to idle and disturbs nothing. *)
LEMMA ConnectFailsIInv ==
  ASSUME IInv, NEW t \in Threads, ConnectFails(t)
  PROVE  IInv'
  <1> PICK r \in {"InvalidParam", "ConnectFailed"} : Return(t, r)
    BY DEF ConnectFails
  <1> USE ThreadsAssumption
      DEF ConnectFails, Return, Goto, IInv, ConnectPcs, StartPcs
  <1>1. t \in Callers /\ dtor = "no" /\ state = "starting" /\ rd = "none"
    BY DEF LifecycleInv, OpenStates
  <1>2. api' = [api EXCEPT ![t] = "out"] /\ res' = [by |-> t, what |-> r]
    BY <1>1
  <1>3. TypeOK'
    BY <1>1, <1>2 DEF TypeOK, States, ApiPcs, Results
  <1>4. LifecycleInv' /\ WriterInv'
    BY <1>1, <1>2 DEF TypeOK, LifecycleInv, WriterInv, WritePcs, ActiveStopPcs, StopPcs, WaitPcs, OpenStates
  <1>5. StreamInv'
    BY <1>1, <1>2 DEF TypeOK, StreamInv, Ended, EndIsLast
  <1>6. ReaderInv'
    BY <1>1, <1>2 DEF TypeOK, ReaderInv, Reported, LastReported, OneOutcome
  <1>7. StopInv'
    BY <1>1, <1>2 DEF TypeOK, Threads, LifecycleInv, StopInv, StopReleases,
                     ActiveStopPcs, StopPcs, WaitPcs
  <1>8. SilentInv'
    BY <1>1, <1>2 DEF TypeOK, SilentInv, LastReported, ActiveStopPcs, StopPcs, WaitPcs
  <1> QED
    BY <1>3, <1>4, <1>5, <1>6, <1>7, <1>8

(* Publishing the connection while starting disturbs nothing. *)
LEMMA ConnectIInv ==
  ASSUME IInv, NEW t \in Threads, Connect(t)
  PROVE  IInv'
  <1> USE ThreadsAssumption DEF Connect, Goto, IInv, ConnectPcs, StartPcs
  <1>1. t \in Callers /\ dtor = "no" /\ state = "starting" /\ rd = "none"
    BY DEF LifecycleInv, OpenStates
  <1>2. TypeOK'
    <2>1. conn' \in BOOLEAN
      OBVIOUS
    <2>2. api' \in [Threads -> ApiPcs]
      BY DEF TypeOK, ApiPcs
    <2> QED
      BY <2>1, <2>2 DEF TypeOK
  <1>3. LifecycleInv' /\ WriterInv'
    BY <1>1 DEF TypeOK, LifecycleInv, WriterInv, WritePcs, ActiveStopPcs, StopPcs, WaitPcs, OpenStates
  <1>4. StreamInv'
    BY <1>1 DEF TypeOK, StreamInv, Ended, EndIsLast
  <1>5. ReaderInv'
    BY <1>1 DEF TypeOK, ReaderInv, Reported, LastReported, OneOutcome
  <1>6. StopInv'
    BY <1>1 DEF TypeOK, Threads, LifecycleInv, StopInv, StopReleases,
               ActiveStopPcs, StopPcs, WaitPcs
  <1>7. SilentInv'
    BY <1>1 DEF TypeOK, SilentInv, LastReported, ActiveStopPcs, StopPcs, WaitPcs
  <1> QED
    BY <1>2, <1>3, <1>4, <1>5, <1>6, <1>7

(* Every step of the v2 recognizer preserves the inductive invariant. *)
LEMMA NextIInv == IInv /\ [Next]_vars => IInv'
  <1> SUFFICES ASSUME IInv, [Next]_vars PROVE IInv'
    OBVIOUS
  <1>1. CASE \E t \in Threads : ConnectFails(t) \/ Connect(t) \/ CallStep(t)
    BY <1>1, ConnectFailsIInv, ConnectIInv, CallStepIInv
  <1>2. CASE ReaderStep
    BY <1>2, ReaderStepIInv
  <1>3. CASE Terminated \/ UNCHANGED vars
    BY <1>3, StutterIInv DEF Terminated
  <1> QED
    BY <1>1, <1>2, <1>3 DEF Next

(* The v2 recognizer, with any number of application threads calling it,    *)
(* never leaves the inductive invariant.                                    *)
THEOREM Invariance == Spec => []IInv
  <1>1. Init => IInv
    BY InitIInv
  <1> QED
    BY <1>1, NextIInv, PTL DEF Spec

(* Every variable of the v2 recognizer keeps its type. *)
THEOREM TypeCorrect == Spec => []TypeOK
  <1>1. IInv => TypeOK
    BY DEF IInv
  <1> QED
    BY <1>1, Invariance, PTL

(* Nothing Write or Stop does on any thread puts a frame after the end      *)
(* signal: the second state check under write_mu is enough.                 *)
THEOREM EndIsLastHolds == Spec => []EndIsLast
  <1>1. IInv => EndIsLast
    BY IInvImplies
  <1> QED
    BY <1>1, Invariance, PTL

(* The listener hears one outcome, last, although the reader, a callback    *)
(* that throws and a Stop that times out can all end the session.           *)
THEOREM OneOutcomeHolds == Spec => []OneOutcome
  <1>1. IInv => OneOutcome
    BY IInvImplies
  <1> QED
    BY <1>1, Invariance, PTL

(* Terminal callbacks run after Finish: they see a stopped recognizer *)
(* without a connection.                                              *)
THEOREM TerminalSeesStoppedHolds == Spec => []TerminalSeesStopped
  <1>1. IInv => TerminalSeesStopped
    BY IInvImplies
  <1> QED
    BY <1>1, Invariance, PTL

(* Once the reader has signalled done, on whatever path, the recognizer is *)
(* stopped and the socket released.                                        *)
THEOREM DoneReleasesHolds == Spec => []DoneReleases
  <1>1. IInv => DoneReleases
    BY IInvImplies
  <1> QED
    BY <1>1, Invariance, PTL

(* A Stop that returned normally, after the answer, the timeout or the end of *)
(* the session, leaves the recognizer stopped and the socket released.        *)
THEOREM StopReleasesHolds == Spec => []StopReleases
  <1>1. IInv => StopReleases
    BY IInvImplies
  <1> QED
    BY <1>1, Invariance, PTL

(* A Stop made inside a callback never waits for the reader it runs on. *)
THEOREM ReaderNeverWaitsHolds == Spec => []ReaderNeverWaits
  <1>1. IInv => ReaderNeverWaits
    BY IInvImplies
  <1> QED
    BY <1>1, Invariance, PTL

(* A session that ends without a Stop has told the listener so. *)
THEOREM NeverSilentHolds == Spec => []NeverSilent
  <1>1. IInv => NeverSilent
    BY IInvImplies
  <1> QED
    BY <1>1, Invariance, PTL

-----------------------------------------------------------------------------
(* The retry of a Start *)

(* Every step of the v2 recognizer preserves PublishInv: only Connect       *)
(* publishes, and it leaves the connecting point as it does.                *)
LEMMA NextPublishInv == IInv /\ PublishInv /\ [Next]_vars => PublishInv'
  <1> SUFFICES ASSUME IInv, PublishInv, [Next]_vars PROVE PublishInv'
    OBVIOUS
  <1>1. ASSUME NEW t \in Threads, ConnectFails(t) PROVE PublishInv'
    <2>1. ~conn'
      BY <1>1 DEF ConnectFails, PublishInv
    <2> QED
      BY <2>1 DEF PublishInv
  <1>2. ASSUME NEW t \in Threads, Connect(t) PROVE PublishInv'
    <2>1. state' = "starting"
      BY <1>2 DEF Connect, IInv, LifecycleInv, ConnectPcs
    <2>2. \A u \in Threads : api'[u] # "connecting"
      BY <1>2 DEF Connect, Goto, IInv, TypeOK, LifecycleInv, StartPcs, ConnectPcs
    <2> QED
      BY <2>1, <2>2 DEF PublishInv
  <1>3. ASSUME NEW t \in Threads, CallStep(t) PROVE PublishInv'
    BY <1>3, CallStepPublishes DEF PublishInv
  <1>4. CASE ReaderStep
    <2>1. /\ UNCHANGED api
          /\ state' = state \/ state' = "stopped"
          /\ conn' = conn \/ conn' = FALSE
      BY <1>4, ReaderFrame
    <2> QED
      BY <2>1 DEF PublishInv
  <1>5. CASE Terminated \/ UNCHANGED vars
    BY <1>5 DEF Terminated, vars, PublishInv
  <1> QED
    BY <1>1, <1>2, <1>3, <1>4, <1>5 DEF Next

(* No connection is published before the Connect of v2 has succeeded. *)
THEOREM PublishInvariance == Spec => []PublishInv
  <1>1. Init => PublishInv
    BY DEF Init, PublishInv
  <1> QED
    BY <1>1, Invariance, NextPublishInv, PTL DEF Spec

(* An idle recognizer, before Start or after a Start that failed, holds no  *)
(* connection and has no reader, so Start may be tried again.               *)
THEOREM IdleIsCleanHolds == Spec => []IdleIsClean
  <1>1. IInv /\ PublishInv => IdleIsClean
    BY DEF IInv, LifecycleInv, OpenStates, PublishInv, IdleIsClean
  <1> QED
    BY <1>1, Invariance, PublishInvariance, PTL

-----------------------------------------------------------------------------
(* The abstract session *)

(* Every step of the v2 recognizer is a step of the abstract session or *)
(* leaves it as it is.                                                  *)
LEMMA NextSession ==
  IInv /\ [Next]_vars => [Session!SessionNext]_(Session!sessionVars)
  <1> SUFFICES ASSUME IInv, [Next]_vars
               PROVE  [Session!SessionNext]_(Session!sessionVars)
    OBVIOUS
  <1>1. ASSUME NEW t \in Threads, ConnectFails(t)
        PROVE  Session!SessionNext
    <2>1. state = "starting"
      BY <1>1 DEF ConnectFails, IInv, LifecycleInv, ConnectPcs
    <2> QED
      BY <1>1, <2>1 DEF ConnectFails, Session!SessionNext, Session!Abort
  <1>2. ASSUME NEW t \in Threads, Connect(t)
        PROVE  UNCHANGED Session!sessionVars
    BY <1>2 DEF Connect, Session!sessionVars
  <1>3. CASE Terminated \/ UNCHANGED vars
    BY <1>3 DEF Terminated, vars, Session!sessionVars
  <1> QED
    BY <1>1, <1>2, <1>3, CallStepSession, ReaderStepSession DEF Next

(* The v2 recognizer implements RecognitionSession: single use, no frame    *)
(* after the end signal, one outcome, reported after the session stopped.   *)
THEOREM Refinement == Spec => ImplementsSession
  <1>1. Init => Session!SessionInit
    BY InitSession
  <1> QED
    BY <1>1, Invariance, NextSession, PTL DEF Spec, ImplementsSession, Session!SessionSpec
=============================================================================
