----------------------- MODULE RecognizerCoreProofs -----------------------
(***************************************************************************)
(* Every step of RecognizerCore preserves the inductive invariant IInv,    *)
(* for any set of application threads, any server frames and any bounds.   *)
(* The v2 and v3 recognizers add the steps of their Connect.               *)
(*                                                                         *)
(* One lemma per part of IInv and kind of step: the steps of a call        *)
(* (CallStep) and those of the reader thread (ReaderStep).  A lemma has one *)
(* case per action.                                                        *)
(***************************************************************************)
EXTENDS RecognizerCore, TLAPS

USE DEF sharedVars, readerVars, callVars, historyVars

(* The initial state satisfies the invariant. *)
LEMMA InitIInv == Init => IInv
  <1> SUFFICES ASSUME Init PROVE IInv
    OBVIOUS
  <1> USE DEF Init
  <1>1. TypeOK
    <2>1. /\ conn \in BOOLEAN /\ done \in BOOLEAN
          /\ terminal_received \in BOOLEAN /\ finish_once \in BOOLEAN
          /\ stopped_by_user \in BOOLEAN
      OBVIOUS
    <2>2. expired \in [Threads -> BOOLEAN]
      OBVIOUS
    <2>3. api \in [Threads -> ApiPcs] /\ ret \in [Threads -> {"return", "store"}]
      BY DEF ApiPcs
    <2>4. res \in [by : Threads \cup {NoThread}, what : Results]
      BY DEF Results
    <2>5. wire \in Seq({"audio", "end"}) /\ log \in Seq([cb : Callbacks, last : BOOLEAN])
      OBVIOUS
    <2> QED
      BY <2>1, <2>2, <2>3, <2>4, <2>5 DEF TypeOK, States, ReaderPcs
  <1>2. LifecycleInv /\ WriterInv
    BY DEF LifecycleInv, WriterInv, WritePcs, ConnectPcs, StartPcs, ActiveStopPcs, StopPcs, WaitPcs
  <1>3. StreamInv
    BY DEF StreamInv, Ended, EndIsLast
  <1>4. ReaderInv
    BY ThreadsAssumption DEF ReaderInv, Reported, OneOutcome, Threads
  <1>5. StopInv
    BY ThreadsAssumption
       DEF StopInv, StopReleases, ActiveStopPcs, StopPcs, WaitPcs, Threads
  <1>6. SilentInv
    BY DEF SilentInv, ActiveStopPcs, StopPcs, WaitPcs
  <1> QED
    BY <1>1, <1>2, <1>3, <1>4, <1>5, <1>6 DEF IInv

-----------------------------------------------------------------------------
(* Types *)

(* A call step preserves the types. *)
LEMMA CallStepType ==
  ASSUME TypeOK, NEW t \in Threads, CallStep(t)
  PROVE  TypeOK'
  <1>0. {"out", "join", "connecting", "spawning"} \cup WritePcs \cup StopPcs \subseteq ApiPcs
    BY DEF ApiPcs, StartPcs, ConnectPcs
  <1> USE ThreadsAssumption, <1>0 DEF TypeOK, States, WritePcs, StopPcs, WaitPcs,
          Results, Goto, Return, EnterWait
  <1>1. CASE StartCas(t)
    BY <1>1 DEF StartCas
  <1>2. CASE StartRunning(t)
    BY <1>2 DEF StartRunning
  <1>3. CASE StartSpawn(t)
    BY <1>3 DEF StartSpawn, ReaderPcs
  <1>4. CASE StartSpawnFails(t)
    BY <1>4 DEF StartSpawnFails
  <1>5. CASE WriteInvalid(t)
    BY <1>5 DEF WriteInvalid
  <1>6. CASE WriteEnter(t)
    <2>1. api' \in [Threads -> ApiPcs]
      BY <1>6 DEF WriteEnter
    <2>2. res' \in [by : Threads \cup {NoThread}, what : Results]
      BY <1>6 DEF WriteEnter
    <2> QED
      BY <1>6, <2>1, <2>2 DEF WriteEnter
  <1>7. CASE WriteGetConn(t)
    BY <1>7 DEF WriteGetConn
  <1>8. CASE WriteLock(t)
    BY <1>8, SMTT(60) DEF WriteLock
  <1>9. CASE WriteBegin(t)
    BY <1>9 DEF WriteBegin
  <1>10. CASE WriteDone(t)
    BY <1>10 DEF WriteDone
  <1>11. CASE WriteFails(t)
    BY <1>11 DEF WriteFails
  <1>12. CASE StopCas(t)
    <2>1. stopped_by_user' \in BOOLEAN
      BY <1>12 DEF StopCas
    <2>2. api' \in [Threads -> ApiPcs] /\ res' \in [by : Threads \cup {NoThread}, what : Results]
      BY <1>12, SMTT(60) DEF StopCas
    <2> QED
      BY <1>12, <2>1, <2>2 DEF StopCas
  <1>13. CASE StopGetConn(t)
    BY <1>13 DEF StopGetConn
  <1>14. CASE StopLock(t)
    <2>1. expired' \in [Threads -> BOOLEAN]
      BY <1>14 DEF StopLock
    <2>2. api' \in [Threads -> ApiPcs] /\ ret' \in [Threads -> {"return", "store"}]
      BY <1>14, SMTT(60) DEF StopLock
    <2> QED
      BY <1>14, <2>1, <2>2 DEF StopLock
  <1>15. CASE StopSend(t)
    <2>1. CASE wire' = Append(wire, "end") /\ Goto(t, "stop_sent")
      BY <1>15, <2>1 DEF StopSend
    <2>2. CASE wire' = wire /\ Goto(t, "stop_failed")
      BY <1>15, <2>2 DEF StopSend
    <2> QED
      BY <1>15, <2>1, <2>2 DEF StopSend
  <1>16. CASE StopFailed(t)
    <2>1. expired' \in [Threads -> BOOLEAN]
      BY <1>16 DEF StopFailed
    <2>2. api' \in [Threads -> ApiPcs]
      BY <1>16 DEF StopFailed
    <2>3. ret' \in [Threads -> {"return", "store"}]
      BY <1>16 DEF StopFailed
    <2> QED
      BY <1>16, <2>1, <2>2, <2>3 DEF StopFailed
  <1>17. CASE StopClose(t)
    <2>1. conn' \in BOOLEAN
      BY <1>17 DEF StopClose
    <2>2. api' \in [Threads -> ApiPcs]
      BY <1>17 DEF StopClose
    <2> QED
      BY <1>17, <2>1, <2>2 DEF StopClose
  <1>18. CASE StopFailedStore(t)
    BY <1>18 DEF StopFailedStore
  <1>19. CASE StopSent(t)
    <2>0. Watchdog \in Threads
      BY DEF Threads
    <2>1. expired' \in [Threads -> BOOLEAN] /\ ret' \in [Threads -> {"return", "store"}]
      <3>1. CASE t = Reader
        BY <1>19, <2>0, <3>1 DEF StopSent
      <3>2. CASE t # Reader
        <4>1. /\ ret' = [ret EXCEPT ![t] = "store"]
              /\ expired' = [expired EXCEPT ![t] = FALSE]
          BY <1>19, <3>2 DEF StopSent
        <4> QED
          BY <4>1
      <3> QED
        BY <3>1, <3>2
    <2>2. api' \in [Threads -> ApiPcs]
      <3>1. CASE t = Reader
        <4>1. api' = [[api EXCEPT ![t] = "out"] EXCEPT ![Watchdog] = "wait"]
          BY <1>19, <3>1 DEF StopSent
        <4> QED
          BY <4>1, <2>0
      <3>2. CASE t # Reader
        BY <1>19, <3>2 DEF StopSent
      <3> QED
        BY <3>1, <3>2
    <2>3. res' \in [by : Threads \cup {NoThread}, what : Results]
      BY <1>19 DEF StopSent
    <2> QED
      BY <1>19, <2>1, <2>2, <2>3 DEF StopSent
  <1>20. CASE StopStore(t)
    BY <1>20 DEF StopStore
  <1>21. CASE DeadlinePasses(t)
    BY <1>21 DEF DeadlinePasses
  <1>22. CASE WaitCheck(t)
    BY <1>22 DEF WaitCheck, LeaveWait
  <1>23. CASE WaitWake(t)
    BY <1>23 DEF WaitWake
  <1>24. CASE WaitTimeout(t)
    <2>1. conn' \in BOOLEAN
      BY <1>24 DEF WaitTimeout
    <2>2. api' \in [Threads -> ApiPcs] /\ res' \in [by : Threads \cup {NoThread}, what : Results]
      <3>1. CASE LeaveWait(t)
        <4>1. CASE ret[t] = "store"
          BY <3>1, <4>1 DEF LeaveWait
        <4>2. CASE ret[t] # "store"
          BY <3>1, <4>2 DEF LeaveWait
        <4> QED
          BY <4>1, <4>2
      <3>2. CASE Goto(t, "wait") /\ UNCHANGED res
        BY <3>2
      <3>3. CASE Goto(t, "grace_wait") /\ UNCHANGED res
        BY <3>3
      <3> QED
        BY <1>24, <3>1, <3>2, <3>3 DEF WaitTimeout
    <2> QED
      BY <1>24, <2>1, <2>2 DEF WaitTimeout
  <1>25. CASE WaitTerminal(t)
    BY <1>25 DEF WaitTerminal, LeaveWait
  <1>26. CASE GraceEnds(t)
    <2>1. api' \in [Threads -> ApiPcs] /\ res' \in [by : Threads \cup {NoThread}, what : Results]
      <3>1. CASE ret[t] = "store"
        BY <1>26, <3>1 DEF GraceEnds, LeaveWait
      <3>2. CASE ret[t] # "store"
        BY <1>26, <3>2 DEF GraceEnds, LeaveWait
      <3> QED
        BY <3>1, <3>2
    <2> QED
      BY <1>26, <2>1 DEF GraceEnds
  <1>27. CASE DestructorEnter(t)
    BY <1>27 DEF DestructorEnter
  <1>28. CASE DestructorJoin(t)
    BY <1>28 DEF DestructorJoin
  <1>29. CASE StopSpawnFails(t)
    BY <1>29 DEF StopSpawnFails
  <1> QED
    BY <1>1, <1>2, <1>3, <1>4, <1>5, <1>6, <1>7, <1>8, <1>9, <1>10,
       <1>11, <1>12, <1>13, <1>14, <1>15, <1>16, <1>17, <1>18, <1>19,
       <1>20, <1>21, <1>22, <1>23, <1>24, <1>25, <1>26, <1>27, <1>28,
       <1>29
       DEF CallStep, Stop, Wait

(* A reader step preserves the types. *)
LEMMA ReaderStepType ==
  ASSUME TypeOK, ReaderStep
  PROVE  TypeOK'
  <1> USE DEF TypeOK, ReaderPcs, States, ReadFrame
  <1>1. CASE ReaderBegins
    <2>1. log' \in Seq([cb : Callbacks, last : BOOLEAN])
      BY <1>1 DEF ReaderBegins, Call, Callbacks, DispatchEvent
    <2> QED
      BY <1>1, <2>1 DEF ReaderBegins, Call
  <1>2. CASE CallbackReturns
    BY <1>2 DEF CallbackReturns
  <1>3. CASE CallbackThrows
    BY <1>3 DEF CallbackThrows
  <1>4. CASE FinishStore
    BY <1>4 DEF FinishStore
  <1>5. CASE FinishClose
    <2>1. conn' \in BOOLEAN /\ finish_once' \in BOOLEAN
      BY <1>5 DEF FinishClose
    <2> QED
      BY <1>5, <2>1 DEF FinishClose
  <1>6. CASE ReaderGetConn
    BY <1>6 DEF ReaderGetConn
  <1>7. CASE ReadTimesOut
    BY <1>7 DEF ReadTimesOut
  <1>8. CASE ReadPolled
    BY <1>8 DEF ReadPolled
  <1>9. CASE ReadFails
    BY <1>9 DEF ReadFails
  <1>10. CASE ReadBroken
    BY <1>10 DEF ReadBroken
  <1>11. CASE MarkTerminalReceived
    BY <1>11 DEF MarkTerminalReceived
  <1>12. CASE Deliver
    <2>1. log' \in Seq([cb : Callbacks, last : BOOLEAN])
      <3>1. CASE cur.code # 0
        <4>1. Call("OnFail", TRUE, "leave")
          BY <1>12, <3>1 DEF Deliver
        <4> QED
          BY <4>1 DEF Call, Callbacks
      <3>2. CASE cur.code = 0 /\ DispatchEvent(cur) # "none"
        <4>1. DispatchEvent(cur) \in Callbacks
          BY <3>2 DEF DispatchEvent, Callbacks
        <4>2. Call(DispatchEvent(cur), FALSE, "complete")
          BY <1>12, <3>2 DEF Deliver
        <4> QED
          BY <4>1, <4>2 DEF Call
      <3>3. CASE cur.code = 0 /\ DispatchEvent(cur) = "none"
        BY <1>12, <3>3 DEF Deliver
      <3> QED
        BY <3>1, <3>2, <3>3
    <2> QED
      BY <1>12, <2>1 DEF Deliver, Call
  <1>13. CASE Complete
    <2>1. log' \in Seq([cb : Callbacks, last : BOOLEAN])
      BY <1>13 DEF Complete, Call, Callbacks, DispatchEvent
    <2> QED
      BY <1>13, <2>1 DEF Complete, Call
  <1>14. CASE Notify
    <2>1. log' \in Seq([cb : Callbacks, last : BOOLEAN])
      BY <1>14 DEF Notify, Call, Callbacks, DispatchEvent
    <2> QED
      BY <1>14, <2>1 DEF Notify, Call
  <1>15. CASE Leave
    BY <1>15 DEF Leave
  <1>16. CASE SignalDone
    BY <1>16 DEF SignalDone
  <1>17. ASSUME NEW f \in Frames, ReadMalformed(f) PROVE TypeOK'
    <2>1. log' \in Seq([cb : Callbacks, last : BOOLEAN])
      BY <1>17 DEF ReadMalformed, Call, Callbacks, DispatchEvent
    <2> QED
      BY <1>17, <2>1 DEF ReadMalformed, Call
  <1>18. ASSUME NEW f \in Frames, ReadCloseFrame(f) PROVE TypeOK'
    BY <1>18 DEF ReadCloseFrame
  <1>19. ASSUME NEW f \in Frames, ReadSkipped(f) PROVE TypeOK'
    BY <1>19 DEF ReadSkipped
  <1>20. ASSUME NEW f \in Frames, ReadEvent(f) PROVE TypeOK'
    <2>1. log' \in Seq([cb : Callbacks, last : BOOLEAN])
      BY <1>20 DEF ReadEvent, Call, Callbacks, DispatchEvent
    <2> QED
      BY <1>20, <2>1 DEF ReadEvent, Call
  <1>21. ASSUME NEW f \in Frames, ReadTerminal(f) PROVE TypeOK'
    BY <1>21, SMTT(60) DEF ReadTerminal
  <1> QED
    BY <1>1, <1>2, <1>3, <1>4, <1>5, <1>6, <1>7, <1>8, <1>9, <1>10,
       <1>11, <1>12, <1>13, <1>14, <1>15, <1>16, <1>17, <1>18, <1>19,
       <1>20, <1>21
       DEF ReaderStep

-----------------------------------------------------------------------------
(* Calls *)

(* A Write that goes on to its next control point pins down no more than it  *)
(* did before.                                                               *)
LEMMA WriteGoesOn ==
  ASSUME IInv, NEW t \in Threads, NEW pc \in WritePcs,
         api[t] \in WritePcs, Goto(t, pc), UNCHANGED <<state, conn, rd, dtor>>
  PROVE  LifecycleInv'
  <1>1. \A u \in Threads : u # t => api'[u] = api[u]
    BY DEF Goto, IInv, TypeOK
  <1>2. api'[t] = pc
    BY DEF Goto, IInv, TypeOK
  <1>3. \A p \in WritePcs :
           /\ p \notin ConnectPcs /\ p \notin StartPcs
           /\ p \notin ActiveStopPcs
           /\ p \notin {"acking", "ack_polled", "ack_read", "connected"}
           /\ p \notin {"stop_cas", "join"}
           /\ p # "spawning" /\ p # "out"
    BY DEF WritePcs, ConnectPcs, StartPcs, ActiveStopPcs, StopPcs, WaitPcs
  <1>4. LifecycleInv
    BY DEF IInv
  <1>5. Callers \subseteq Threads
    BY DEF Threads
  <1> QED
    BY <1>1, <1>2, <1>3, <1>4, <1>5 DEF LifecycleInv

(* A call step preserves LifecycleInv. *)
LEMMA CallStepLifecycle ==
  ASSUME IInv, NEW t \in Threads, CallStep(t)
  PROVE  LifecycleInv'
  <1> USE ThreadsAssumption DEF ConnectPcs, StartPcs, WritePcs, WaitPcs, StopPcs, ActiveStopPcs,
          OpenStates, Threads, Goto, Return, EnterWait, LeaveWait, MayEnter,
          MayCall, IInv, TypeOK, LifecycleInv, ReaderInv,
          StopInv
  <1>1. CASE StartCas(t)
    BY <1>1 DEF StartCas
  <1>2. CASE StartRunning(t)
    BY <1>2 DEF StartRunning
  <1>3. CASE StartSpawn(t)
    BY <1>3 DEF StartSpawn
  <1>4. CASE StartSpawnFails(t)
    BY <1>4 DEF StartSpawnFails
  <1>5. CASE WriteInvalid(t)
    BY <1>5 DEF WriteInvalid
  <1>6. CASE WriteEnter(t)
    <2>1. CASE state = "running"
      BY <1>6, <2>1 DEF WriteEnter
    <2>2. CASE ~(state = "running")
      BY <1>6, <2>2 DEF WriteEnter
    <2> QED
      BY <2>1, <2>2
  <1>7. CASE WriteGetConn(t)
    BY <1>7 DEF WriteGetConn
  <1>8. CASE WriteLock(t)
    <2>1. CASE state = "running"
      <3>1. api[t] \in WritePcs /\ Goto(t, "write_poll")
        BY <1>8, <2>1 DEF WriteLock
      <3>2. UNCHANGED <<state, conn, rd, dtor>>
        BY <1>8, <2>1 DEF WriteLock
      <3>3. "write_poll" \in WritePcs
        OBVIOUS
      <3> HIDE DEF IInv, LifecycleInv, Goto, WritePcs
      <3> QED
        BY <3>1, <3>2, <3>3, WriteGoesOn
    <2>2. CASE ~(state = "running")
      BY <1>8, <2>2, SMTT(60) DEF WriteLock
    <2> QED
      BY <2>1, <2>2
  <1>9. CASE WriteBegin(t)
    BY <1>9 DEF WriteBegin
  <1>10. CASE WriteDone(t)
    BY <1>10 DEF WriteDone
  <1>11. CASE WriteFails(t)
    BY <1>11 DEF WriteFails
  <1>12. CASE StopCas(t)
    BY <1>12 DEF StopCas
  <1>13. CASE StopGetConn(t)
    BY <1>13, SMTT(60) DEF StopGetConn
  <1>14. CASE StopLock(t)
    <2>1. CASE state = "stopped"
      BY <1>14, <2>1 DEF StopLock
    <2>2. CASE state # "stopped"
      BY <1>14, <2>2 DEF StopLock
    <2> QED
      BY <2>1, <2>2
  <1>15. CASE StopSend(t)
    <2>1. CASE Goto(t, "stop_sent")
      BY <1>15, <2>1 DEF StopSend
    <2>2. CASE Goto(t, "stop_failed")
      BY <1>15, <2>2 DEF StopSend
    <2> QED
      BY <1>15, <2>1, <2>2 DEF StopSend
  <1>16. CASE StopFailed(t)
    <2>1. CASE state = "stopped"
      BY <1>16, <2>1 DEF StopFailed
    <2>2. CASE ~(state = "stopped")
      BY <1>16, <2>2 DEF StopFailed
    <2> QED
      BY <2>1, <2>2
  <1>17. CASE StopClose(t)
    BY <1>17 DEF StopClose
  <1>18. CASE StopFailedStore(t)
    BY <1>18 DEF StopFailedStore
  <1>19. CASE StopSent(t)
    <2>1. CASE t = Reader
      BY <1>19, <2>1, SMTT(60) DEF StopSent
    <2>2. CASE ~(t = Reader)
      BY <1>19, <2>2 DEF StopSent
    <2> QED
      BY <2>1, <2>2
  <1>20. CASE StopStore(t)
    BY <1>20 DEF StopStore
  <1>21. CASE DeadlinePasses(t)
    BY <1>21 DEF DeadlinePasses
  <1>22. CASE WaitCheck(t)
    <2>1. CASE done
      BY <1>22, <2>1 DEF WaitCheck
    <2>2. CASE ~(done)
      BY <1>22, <2>2, SMTT(60) DEF WaitCheck
    <2> QED
      BY <2>1, <2>2
  <1>23. CASE WaitWake(t)
    BY <1>23 DEF WaitWake
  <1>24. CASE WaitTimeout(t)
    BY <1>24, SMTT(60) DEF WaitTimeout
  <1>25. CASE WaitTerminal(t)
    BY <1>25 DEF WaitTerminal
  <1>26. CASE GraceEnds(t)
    BY <1>26, SMTT(60) DEF GraceEnds
  <1>27. CASE DestructorEnter(t)
    BY <1>27 DEF DestructorEnter
  <1>28. CASE DestructorJoin(t)
    BY <1>28 DEF DestructorJoin
  <1>29. CASE StopSpawnFails(t)
    BY <1>29 DEF StopSpawnFails
  <1> QED
    BY <1>1, <1>2, <1>3, <1>4, <1>5, <1>6, <1>7, <1>8, <1>9, <1>10,
       <1>11, <1>12, <1>13, <1>14, <1>15, <1>16, <1>17, <1>18, <1>19,
       <1>20, <1>21, <1>22, <1>23, <1>24, <1>25, <1>26, <1>27, <1>28,
       <1>29
       DEF CallStep, Stop, Wait

(* A call step preserves StreamInv: nothing follows the end signal. *)
LEMMA CallStepStream ==
  ASSUME IInv, NEW t \in Threads, CallStep(t)
  PROVE  StreamInv'
  <1> USE ThreadsAssumption DEF ConnectPcs, StartPcs, WritePcs, WaitPcs, StopPcs, ActiveStopPcs,
          OpenStates, Threads, Goto, Return, EnterWait, LeaveWait, MayEnter,
          MayCall, IInv, TypeOK, LifecycleInv, StreamInv,
          Ended, EndIsLast
  <1>1. CASE StartCas(t)
    BY <1>1 DEF StartCas
  <1>2. CASE StartRunning(t)
    BY <1>2 DEF StartRunning
  <1>3. CASE StartSpawn(t)
    BY <1>3 DEF StartSpawn
  <1>4. CASE StartSpawnFails(t)
    BY <1>4 DEF StartSpawnFails
  <1>5. CASE WriteInvalid(t)
    BY <1>5 DEF WriteInvalid
  <1>6. CASE WriteEnter(t)
    BY <1>6 DEF WriteEnter
  <1>7. CASE WriteGetConn(t)
    BY <1>7 DEF WriteGetConn
  <1>8. CASE WriteLock(t)
    BY <1>8 DEF WriteLock
  <1>9. CASE WriteBegin(t)
    BY <1>9 DEF WriteBegin
  <1>10. CASE WriteDone(t)
    BY <1>10 DEF WriteDone
  <1>11. CASE WriteFails(t)
    BY <1>11 DEF WriteFails
  <1>12. CASE StopCas(t)
    BY <1>12 DEF StopCas
  <1>13. CASE StopGetConn(t)
    BY <1>13 DEF StopGetConn
  <1>14. CASE StopLock(t)
    BY <1>14, SMTT(60) DEF StopLock
  <1>15. CASE StopSend(t)
    <2>1. CASE wire' = Append(wire, "end") /\ Goto(t, "stop_sent")
      BY <1>15, <2>1 DEF StopSend
    <2>2. CASE wire' = wire /\ Goto(t, "stop_failed")
      BY <1>15, <2>2 DEF StopSend
    <2> QED
      BY <1>15, <2>1, <2>2 DEF StopSend
  <1>16. CASE StopFailed(t)
    BY <1>16 DEF StopFailed
  <1>17. CASE StopClose(t)
    BY <1>17 DEF StopClose
  <1>18. CASE StopFailedStore(t)
    BY <1>18 DEF StopFailedStore
  <1>19. CASE StopSent(t)
    BY <1>19 DEF StopSent
  <1>20. CASE StopStore(t)
    BY <1>20 DEF StopStore
  <1>21. CASE DeadlinePasses(t)
    BY <1>21 DEF DeadlinePasses
  <1>22. CASE WaitCheck(t)
    BY <1>22 DEF WaitCheck
  <1>23. CASE WaitWake(t)
    BY <1>23 DEF WaitWake
  <1>24. CASE WaitTimeout(t)
    BY <1>24 DEF WaitTimeout
  <1>25. CASE WaitTerminal(t)
    BY <1>25 DEF WaitTerminal
  <1>26. CASE GraceEnds(t)
    BY <1>26, SMTT(60) DEF GraceEnds
  <1>27. CASE DestructorEnter(t)
    BY <1>27 DEF DestructorEnter
  <1>28. CASE DestructorJoin(t)
    BY <1>28 DEF DestructorJoin
  <1>29. CASE StopSpawnFails(t)
    BY <1>29 DEF StopSpawnFails
  <1> QED
    BY <1>1, <1>2, <1>3, <1>4, <1>5, <1>6, <1>7, <1>8, <1>9, <1>10,
       <1>11, <1>12, <1>13, <1>14, <1>15, <1>16, <1>17, <1>18, <1>19,
       <1>20, <1>21, <1>22, <1>23, <1>24, <1>25, <1>26, <1>27, <1>28,
       <1>29
       DEF CallStep, Stop, Wait

(* A call step preserves ReaderInv. *)
LEMMA CallStepReader ==
  ASSUME IInv, NEW t \in Threads, CallStep(t)
  PROVE  ReaderInv'
  <1> USE ThreadsAssumption DEF ConnectPcs, StartPcs, WritePcs, WaitPcs, StopPcs, ActiveStopPcs,
          OpenStates, Threads, Goto, Return, EnterWait, LeaveWait, MayEnter,
          MayCall, IInv, TypeOK, LifecycleInv, ReaderInv,
          StopInv, LastReported, Reported, OneOutcome
  <1>1. CASE StartCas(t)
    BY <1>1 DEF StartCas
  <1>2. CASE StartRunning(t)
    BY <1>2 DEF StartRunning
  <1>3. CASE StartSpawn(t)
    BY <1>3 DEF StartSpawn
  <1>4. CASE StartSpawnFails(t)
    BY <1>4 DEF StartSpawnFails
  <1>5. CASE WriteInvalid(t)
    BY <1>5 DEF WriteInvalid
  <1>6. CASE WriteEnter(t)
    BY <1>6 DEF WriteEnter
  <1>7. CASE WriteGetConn(t)
    BY <1>7 DEF WriteGetConn
  <1>8. CASE WriteLock(t)
    BY <1>8 DEF WriteLock
  <1>9. CASE WriteBegin(t)
    BY <1>9 DEF WriteBegin
  <1>10. CASE WriteDone(t)
    BY <1>10 DEF WriteDone
  <1>11. CASE WriteFails(t)
    BY <1>11 DEF WriteFails
  <1>12. CASE StopCas(t)
    BY <1>12 DEF StopCas
  <1>13. CASE StopGetConn(t)
    BY <1>13 DEF StopGetConn
  <1>14. CASE StopLock(t)
    BY <1>14, SMTT(60) DEF StopLock
  <1>15. CASE StopSend(t)
    BY <1>15 DEF StopSend
  <1>16. CASE StopFailed(t)
    BY <1>16 DEF StopFailed
  <1>17. CASE StopClose(t)
    BY <1>17 DEF StopClose
  <1>18. CASE StopFailedStore(t)
    BY <1>18 DEF StopFailedStore
  <1>19. CASE StopSent(t)
    BY <1>19 DEF StopSent
  <1>20. CASE StopStore(t)
    BY <1>20 DEF StopStore
  <1>21. CASE DeadlinePasses(t)
    BY <1>21 DEF DeadlinePasses
  <1>22. CASE WaitCheck(t)
    BY <1>22 DEF WaitCheck
  <1>23. CASE WaitWake(t)
    BY <1>23 DEF WaitWake
  <1>24. CASE WaitTimeout(t)
    BY <1>24 DEF WaitTimeout
  <1>25. CASE WaitTerminal(t)
    BY <1>25 DEF WaitTerminal
  <1>26. CASE GraceEnds(t)
    BY <1>26, SMTT(60) DEF GraceEnds
  <1>27. CASE DestructorEnter(t)
    BY <1>27 DEF DestructorEnter
  <1>28. CASE DestructorJoin(t)
    BY <1>28 DEF DestructorJoin
  <1>29. CASE StopSpawnFails(t)
    BY <1>29 DEF StopSpawnFails
  <1> QED
    BY <1>1, <1>2, <1>3, <1>4, <1>5, <1>6, <1>7, <1>8, <1>9, <1>10,
       <1>11, <1>12, <1>13, <1>14, <1>15, <1>16, <1>17, <1>18, <1>19,
       <1>20, <1>21, <1>22, <1>23, <1>24, <1>25, <1>26, <1>27, <1>28,
       <1>29
       DEF CallStep, Stop, Wait

(* A call step preserves StopInv. *)
LEMMA CallStepStop ==
  ASSUME IInv, NEW t \in Threads, CallStep(t)
  PROVE  StopInv'
  <1> USE ThreadsAssumption DEF ConnectPcs, StartPcs, WritePcs, WaitPcs, StopPcs, ActiveStopPcs,
          OpenStates, Threads, Goto, Return, EnterWait, LeaveWait, MayEnter,
          MayCall, IInv, TypeOK, LifecycleInv, ReaderInv,
          StopInv, StopReleases
  <1>1. CASE StartCas(t)
    BY <1>1 DEF StartCas
  <1>2. CASE StartRunning(t)
    BY <1>2 DEF StartRunning
  <1>3. CASE StartSpawn(t)
    BY <1>3 DEF StartSpawn
  <1>4. CASE StartSpawnFails(t)
    BY <1>4 DEF StartSpawnFails
  <1>5. CASE WriteInvalid(t)
    BY <1>5 DEF WriteInvalid
  <1>6. CASE WriteEnter(t)
    BY <1>6 DEF WriteEnter
  <1>7. CASE WriteGetConn(t)
    BY <1>7 DEF WriteGetConn
  <1>8. CASE WriteLock(t)
    BY <1>8 DEF WriteLock
  <1>9. CASE WriteBegin(t)
    BY <1>9 DEF WriteBegin
  <1>10. CASE WriteDone(t)
    BY <1>10 DEF WriteDone
  <1>11. CASE WriteFails(t)
    BY <1>11 DEF WriteFails
  <1>12. CASE StopCas(t)
    BY <1>12 DEF StopCas
  <1>13. CASE StopGetConn(t)
    BY <1>13 DEF StopGetConn
  <1>14. CASE StopLock(t)
    BY <1>14, SMTT(60) DEF StopLock
  <1>15. CASE StopSend(t)
    BY <1>15 DEF StopSend
  <1>16. CASE StopFailed(t)
    BY <1>16 DEF StopFailed
  <1>17. CASE StopClose(t)
    BY <1>17 DEF StopClose
  <1>18. CASE StopFailedStore(t)
    BY <1>18 DEF StopFailedStore
  <1>19. CASE StopSent(t)
    <2>1. CASE t = Reader
      BY <1>19, <2>1, SMTT(60) DEF StopSent
    <2>2. CASE ~(t = Reader)
      BY <1>19, <2>2 DEF StopSent
    <2> QED
      BY <2>1, <2>2
  <1>20. CASE StopStore(t)
    BY <1>20 DEF StopStore
  <1>21. CASE DeadlinePasses(t)
    BY <1>21 DEF DeadlinePasses
  <1>22. CASE WaitCheck(t)
    BY <1>22 DEF WaitCheck
  <1>23. CASE WaitWake(t)
    BY <1>23 DEF WaitWake
  <1>24. CASE WaitTimeout(t)
    BY <1>24 DEF WaitTimeout
  <1>25. CASE WaitTerminal(t)
    BY <1>25 DEF WaitTerminal
  <1>26. CASE GraceEnds(t)
    BY <1>26, SMTT(60) DEF GraceEnds
  <1>27. CASE DestructorEnter(t)
    BY <1>27 DEF DestructorEnter
  <1>28. CASE DestructorJoin(t)
    BY <1>28 DEF DestructorJoin
  <1>29. CASE StopSpawnFails(t)
    BY <1>29 DEF StopSpawnFails
  <1> QED
    BY <1>1, <1>2, <1>3, <1>4, <1>5, <1>6, <1>7, <1>8, <1>9, <1>10,
       <1>11, <1>12, <1>13, <1>14, <1>15, <1>16, <1>17, <1>18, <1>19,
       <1>20, <1>21, <1>22, <1>23, <1>24, <1>25, <1>26, <1>27, <1>28,
       <1>29
       DEF CallStep, Stop, Wait

(* A call step preserves SilentInv. *)
LEMMA CallStepSilent ==
  ASSUME IInv, NEW t \in Threads, CallStep(t)
  PROVE  SilentInv'
  <1> USE ThreadsAssumption DEF ConnectPcs, StartPcs, WritePcs, WaitPcs, StopPcs, ActiveStopPcs,
          OpenStates, Threads, Goto, Return, EnterWait, LeaveWait, MayEnter,
          MayCall, IInv, TypeOK, LifecycleInv, ReaderInv,
          StopInv, SilentInv, LastReported
  <1>1. CASE StartCas(t)
    BY <1>1 DEF StartCas
  <1>2. CASE StartRunning(t)
    BY <1>2 DEF StartRunning
  <1>3. CASE StartSpawn(t)
    BY <1>3 DEF StartSpawn
  <1>4. CASE StartSpawnFails(t)
    BY <1>4 DEF StartSpawnFails
  <1>5. CASE WriteInvalid(t)
    BY <1>5 DEF WriteInvalid
  <1>6. CASE WriteEnter(t)
    BY <1>6 DEF WriteEnter
  <1>7. CASE WriteGetConn(t)
    BY <1>7 DEF WriteGetConn
  <1>8. CASE WriteLock(t)
    <2>1. CASE state = "running"
      BY <1>8, <2>1 DEF WriteLock
    <2>2. CASE ~(state = "running")
      BY <1>8, <2>2, SMTT(60) DEF WriteLock
    <2> QED
      BY <2>1, <2>2
  <1>9. CASE WriteBegin(t)
    BY <1>9 DEF WriteBegin
  <1>10. CASE WriteDone(t)
    BY <1>10 DEF WriteDone
  <1>11. CASE WriteFails(t)
    BY <1>11 DEF WriteFails
  <1>12. CASE StopCas(t)
    BY <1>12 DEF StopCas
  <1>13. CASE StopGetConn(t)
    BY <1>13 DEF StopGetConn
  <1>14. CASE StopLock(t)
    BY <1>14, SMTT(60) DEF StopLock
  <1>15. CASE StopSend(t)
    BY <1>15 DEF StopSend
  <1>16. CASE StopFailed(t)
    BY <1>16 DEF StopFailed
  <1>17. CASE StopClose(t)
    BY <1>17 DEF StopClose
  <1>18. CASE StopFailedStore(t)
    BY <1>18 DEF StopFailedStore
  <1>19. CASE StopSent(t)
    BY <1>19 DEF StopSent
  <1>20. CASE StopStore(t)
    BY <1>20 DEF StopStore
  <1>21. CASE DeadlinePasses(t)
    BY <1>21 DEF DeadlinePasses
  <1>22. CASE WaitCheck(t)
    BY <1>22 DEF WaitCheck
  <1>23. CASE WaitWake(t)
    BY <1>23 DEF WaitWake
  <1>24. CASE WaitTimeout(t)
    BY <1>24 DEF WaitTimeout
  <1>25. CASE WaitTerminal(t)
    BY <1>25 DEF WaitTerminal
  <1>26. CASE GraceEnds(t)
    BY <1>26, SMTT(60) DEF GraceEnds
  <1>27. CASE DestructorEnter(t)
    BY <1>27 DEF DestructorEnter
  <1>28. CASE DestructorJoin(t)
    BY <1>28 DEF DestructorJoin
  <1>29. CASE StopSpawnFails(t)
    BY <1>29 DEF StopSpawnFails
  <1> QED
    BY <1>1, <1>2, <1>3, <1>4, <1>5, <1>6, <1>7, <1>8, <1>9, <1>10,
       <1>11, <1>12, <1>13, <1>14, <1>15, <1>16, <1>17, <1>18, <1>19,
       <1>20, <1>21, <1>22, <1>23, <1>24, <1>25, <1>26, <1>27, <1>28,
       <1>29
       DEF CallStep, Stop, Wait

(* A call step preserves WriterInv: a Write enters an open session, and no  *)
(* call takes it out of the open states.                                     *)
LEMMA CallStepWriter ==
  ASSUME IInv, NEW t \in Threads, CallStep(t)
  PROVE  WriterInv'
  <1>1. /\ state \in OpenStates => state' \in OpenStates
        /\ \A u \in Threads :
              api'[u] \in WritePcs => api[u] \in WritePcs \/ state = "running"
    <2> USE DEF OpenStates, WritePcs, StopPcs, WaitPcs, StartPcs, ConnectPcs, ActiveStopPcs,
            Goto, Return, EnterWait, LeaveWait, IInv, TypeOK, LifecycleInv
    <2>1. CASE StartCas(t)
      BY <2>1 DEF StartCas
    <2>2. CASE StartRunning(t)
      BY <2>2 DEF StartRunning
    <2>3. CASE StartSpawn(t)
      BY <2>3 DEF StartSpawn
    <2>4. CASE StartSpawnFails(t)
      BY <2>4 DEF StartSpawnFails
    <2>5. CASE WriteInvalid(t)
      BY <2>5 DEF WriteInvalid
    <2>6. CASE WriteEnter(t)
      BY <2>6 DEF WriteEnter
    <2>7. CASE WriteGetConn(t)
      BY <2>7 DEF WriteGetConn
    <2>8. CASE WriteLock(t)
      BY <2>8 DEF WriteLock
    <2>9. CASE WriteBegin(t)
      BY <2>9 DEF WriteBegin
    <2>10. CASE WriteDone(t)
      BY <2>10 DEF WriteDone
    <2>11. CASE WriteFails(t)
      BY <2>11 DEF WriteFails
    <2>12. CASE StopCas(t)
      BY <2>12 DEF StopCas
    <2>13. CASE StopGetConn(t)
      BY <2>13 DEF StopGetConn
    <2>14. CASE StopLock(t)
      BY <2>14 DEF StopLock
    <2>15. CASE StopSend(t)
      BY <2>15 DEF StopSend
    <2>16. CASE StopFailed(t)
      BY <2>16 DEF StopFailed
    <2>17. CASE StopClose(t)
      BY <2>17 DEF StopClose
    <2>18. CASE StopFailedStore(t)
      BY <2>18 DEF StopFailedStore
    <2>19. CASE StopSent(t)
      BY <2>19 DEF StopSent
    <2>20. CASE StopStore(t)
      BY <2>20 DEF StopStore
    <2>21. CASE DeadlinePasses(t)
      BY <2>21 DEF DeadlinePasses
    <2>22. CASE WaitCheck(t)
      BY <2>22 DEF WaitCheck
    <2>23. CASE WaitWake(t)
      BY <2>23 DEF WaitWake
    <2>24. CASE WaitTimeout(t)
      BY <2>24 DEF WaitTimeout
    <2>25. CASE WaitTerminal(t)
      BY <2>25 DEF WaitTerminal
    <2>26. CASE GraceEnds(t)
      BY <2>26 DEF GraceEnds
    <2>27. CASE DestructorEnter(t)
      BY <2>27 DEF DestructorEnter
    <2>28. CASE DestructorJoin(t)
      BY <2>28 DEF DestructorJoin
    <2>29. CASE StopSpawnFails(t)
      BY <2>29 DEF StopSpawnFails
    <2> QED
      BY <2>1, <2>2, <2>3, <2>4, <2>5, <2>6, <2>7, <2>8, <2>9, <2>10,
         <2>11, <2>12, <2>13, <2>14, <2>15, <2>16, <2>17, <2>18, <2>19,
         <2>20, <2>21, <2>22, <2>23, <2>24, <2>25, <2>26, <2>27, <2>28,
         <2>29
         DEF CallStep, Stop, Wait
  <1> QED
    BY <1>1 DEF IInv, WriterInv, OpenStates

-----------------------------------------------------------------------------
(* The reader thread *)

(* What a reader step leaves alone, and when it changes state or conn. *)
LEMMA ReaderFrame ==
  ASSUME ReaderStep
  PROVE  /\ UNCHANGED <<callVars, dtor, wire, write_mu, stopped_by_user>>
         /\ rd # "none" /\ rd # "ended"
         /\ state' = state \/ (state' = "stopped" /\ rd = "finish")
         /\ conn' = conn \/ (conn' = FALSE /\ rd = "closing")
  BY DEF ReaderStep, ReaderBegins, CallbackReturns, CallbackThrows, FinishStore,
         FinishClose, ReaderGetConn, ReadTimesOut, ReadPolled, ReadFails,
         ReadBroken, MarkTerminalReceived, Deliver, Complete, Notify, Leave,
         SignalDone, ReadMalformed, ReadCloseFrame, ReadSkipped, ReadEvent,
         ReadTerminal, ReadFrame, Call

(* A reader step preserves the parts of the invariant about calls. *)
LEMMA ReaderStepCalls ==
  ASSUME IInv, ReaderStep
  PROVE  LifecycleInv' /\ StreamInv' /\ StopInv' /\ WriterInv'
  <1> USE ThreadsAssumption, ReaderFrame
      DEF ConnectPcs, StartPcs, StopPcs, WaitPcs, ActiveStopPcs, OpenStates,
          Threads, IInv, TypeOK, LifecycleInv, ReaderInv
  <1>1. LifecycleInv'
    OBVIOUS
  <1>2. StreamInv'
    BY DEF StreamInv, Ended, EndIsLast
  <1>3. StopInv'
    <2> USE DEF StopInv
    <2>1. ActiveStopPcs \cap {"out"} = {}
      OBVIOUS
    <2>2. api[Reader] \in ActiveStopPcs => state' = "stopping"
      BY <2>1
    <2>3. StopReleases'
      BY DEF StopReleases
    <2>4. \A t \in Threads : api'[t] \in {"grace_wait", "stop_store"} => ~conn'
      OBVIOUS
    <2>5. \A t \in Callers :
             api'[t] \in WaitPcs /\ ret'[t] = "return" => state' = "stopped"
      OBVIOUS
    <2> QED
      BY <2>2, <2>3, <2>4, <2>5
  <1>4. WriterInv'
    BY DEF WriterInv
  <1> QED
    BY <1>1, <1>2, <1>3, <1>4

(* A reader step preserves ReaderInv: one outcome, reported after Finish. *)
LEMMA ReaderStepReader ==
  ASSUME IInv, ReaderStep
  PROVE  ReaderInv'
  <1> USE ThreadsAssumption
      DEF OpenStates, Threads, IInv, TypeOK, LifecycleInv, ReaderInv, LastReported,
          Reported, OneOutcome, Shielded, Callbacks, ReadFrame, Call
  <1>1. CASE ReaderBegins
    BY <1>1 DEF ReaderBegins
  <1>2. CASE CallbackReturns
    BY <1>2 DEF CallbackReturns
  <1>3. CASE CallbackThrows
    BY <1>3 DEF CallbackThrows
  <1>4. CASE FinishStore
    BY <1>4 DEF FinishStore
  <1>5. CASE FinishClose
    BY <1>5 DEF FinishClose
  <1>6. CASE ReaderGetConn
    BY <1>6 DEF ReaderGetConn
  <1>7. CASE ReadTimesOut
    BY <1>7 DEF ReadTimesOut
  <1>8. CASE ReadPolled
    BY <1>8 DEF ReadPolled
  <1>9. CASE ReadFails
    BY <1>9 DEF ReadFails
  <1>10. CASE ReadBroken
    BY <1>10 DEF ReadBroken
  <1>11. CASE MarkTerminalReceived
    BY <1>11 DEF MarkTerminalReceived
  <1>12. CASE Deliver
    <2>1. CASE cur.code # 0 /\ Call("OnFail", TRUE, "leave")
      BY <1>12, <2>1, SMTT(60) DEF Deliver
    <2>2. CASE Call(DispatchEvent(cur), FALSE, "complete")
      BY <1>12, <2>2 DEF Deliver
    <2>3. CASE rd' = "complete" /\ UNCHANGED <<resume, log>>
      BY <1>12, <2>3 DEF Deliver
    <2> QED
      BY <1>12, <2>1, <2>2, <2>3 DEF Deliver
  <1>13. CASE Complete
    BY <1>13 DEF Complete
  <1>14. CASE Notify
    BY <1>14 DEF Notify
  <1>15. CASE Leave
    BY <1>15 DEF Leave
  <1>16. CASE SignalDone
    BY <1>16 DEF SignalDone
  <1>17. ASSUME NEW f \in Frames, ReadMalformed(f) PROVE ReaderInv'
    <2>1. \A i \in DOMAIN log : ~log[i].last
      BY <1>17 DEF ReadMalformed
    <2>2. \A i \in DOMAIN log' : ~log'[i].last
      BY <1>17, <2>1 DEF ReadMalformed
    <2>3. ~Reported' /\ OneOutcome'
      BY <2>2
    <2>4. log' # << >>
      BY <1>17 DEF ReadMalformed
    <2> QED
      BY <1>17, <2>3, <2>4 DEF ReadMalformed
  <1>18. ASSUME NEW f \in Frames, ReadCloseFrame(f) PROVE ReaderInv'
    BY <1>18 DEF ReadCloseFrame
  <1>19. ASSUME NEW f \in Frames, ReadSkipped(f) PROVE ReaderInv'
    BY <1>19 DEF ReadSkipped
  <1>20. ASSUME NEW f \in Frames, ReadEvent(f) PROVE ReaderInv'
    <2>1. \A i \in DOMAIN log : ~log[i].last
      BY <1>20 DEF ReadEvent
    <2>2. \A i \in DOMAIN log' : ~log'[i].last
      BY <1>20, <2>1 DEF ReadEvent
    <2>3. ~Reported' /\ OneOutcome'
      BY <2>2
    <2>4. log' # << >>
      BY <1>20 DEF ReadEvent
    <2> QED
      BY <1>20, <2>3, <2>4 DEF ReadEvent
  <1>21. ASSUME NEW f \in Frames, ReadTerminal(f) PROVE ReaderInv'
    BY <1>21 DEF ReadTerminal
  <1> QED
    BY <1>1, <1>2, <1>3, <1>4, <1>5, <1>6, <1>7, <1>8, <1>9, <1>10,
       <1>11, <1>12, <1>13, <1>14, <1>15, <1>16, <1>17, <1>18, <1>19,
       <1>20, <1>21
       DEF ReaderStep

(* A reader step preserves SilentInv: the loop is left with a report or after Stop. *)
LEMMA ReaderStepSilent ==
  ASSUME IInv, ReaderStep
  PROVE  SilentInv'
  <1> USE ThreadsAssumption
      DEF ActiveStopPcs, StopPcs, WaitPcs, OpenStates, Threads, IInv, TypeOK, LifecycleInv,
          ReaderInv, SilentInv, LastReported, ReadFrame, Call
  <1>1. CASE ReaderBegins
    BY <1>1 DEF ReaderBegins
  <1>2. CASE CallbackReturns
    BY <1>2 DEF CallbackReturns
  <1>3. CASE CallbackThrows
    BY <1>3 DEF CallbackThrows
  <1>4. CASE FinishStore
    BY <1>4 DEF FinishStore
  <1>5. CASE FinishClose
    BY <1>5 DEF FinishClose
  <1>6. CASE ReaderGetConn
    BY <1>6 DEF ReaderGetConn
  <1>7. CASE ReadTimesOut
    BY <1>7 DEF ReadTimesOut
  <1>8. CASE ReadPolled
    BY <1>8 DEF ReadPolled
  <1>9. CASE ReadFails
    BY <1>9 DEF ReadFails
  <1>10. CASE ReadBroken
    BY <1>10 DEF ReadBroken
  <1>11. CASE MarkTerminalReceived
    BY <1>11 DEF MarkTerminalReceived
  <1>12. CASE Deliver
    BY <1>12 DEF Deliver
  <1>13. CASE Complete
    BY <1>13 DEF Complete
  <1>14. CASE Notify
    BY <1>14 DEF Notify
  <1>15. CASE Leave
    BY <1>15 DEF Leave
  <1>16. CASE SignalDone
    BY <1>16 DEF SignalDone
  <1>17. ASSUME NEW f \in Frames, ReadMalformed(f) PROVE SilentInv'
    BY <1>17 DEF ReadMalformed
  <1>18. ASSUME NEW f \in Frames, ReadCloseFrame(f) PROVE SilentInv'
    BY <1>18 DEF ReadCloseFrame
  <1>19. ASSUME NEW f \in Frames, ReadSkipped(f) PROVE SilentInv'
    BY <1>19 DEF ReadSkipped
  <1>20. ASSUME NEW f \in Frames, ReadEvent(f) PROVE SilentInv'
    BY <1>20 DEF ReadEvent
  <1>21. ASSUME NEW f \in Frames, ReadTerminal(f) PROVE SilentInv'
    BY <1>21 DEF ReadTerminal
  <1> QED
    BY <1>1, <1>2, <1>3, <1>4, <1>5, <1>6, <1>7, <1>8, <1>9, <1>10,
       <1>11, <1>12, <1>13, <1>14, <1>15, <1>16, <1>17, <1>18, <1>19,
       <1>20, <1>21
       DEF ReaderStep

-----------------------------------------------------------------------------
(* Both kinds of step together, and what the invariant implies. *)

(* Every step of a call preserves the invariant. *)
LEMMA CallStepIInv ==
  ASSUME IInv, NEW t \in Threads, CallStep(t)
  PROVE  IInv'
  <1>1. TypeOK'
    BY CallStepType DEF IInv
  <1> QED
    BY <1>1, CallStepLifecycle, CallStepStream, CallStepReader, CallStepStop,
       CallStepSilent, CallStepWriter DEF IInv

(* Every step of the reader thread preserves the invariant. *)
LEMMA ReaderStepIInv ==
  ASSUME IInv, ReaderStep
  PROVE  IInv'
  <1>1. TypeOK'
    BY ReaderStepType DEF IInv
  <1> QED
    BY <1>1, ReaderStepCalls, ReaderStepReader, ReaderStepSilent DEF IInv

(* A step that changes nothing preserves the invariant. *)
LEMMA StutterIInv ==
  ASSUME IInv, UNCHANGED vars
  PROVE  IInv'
  <1> USE DEF vars
  <1>1. TypeOK' /\ LifecycleInv' /\ StreamInv' /\ WriterInv'
    BY DEF IInv, TypeOK, LifecycleInv, StreamInv, Ended, EndIsLast, WriterInv
  <1>2. ReaderInv' /\ StopInv' /\ SilentInv'
    BY DEF IInv, ReaderInv, StopInv, SilentInv, StopReleases, LastReported,
           Reported, OneOutcome
  <1> QED
    BY <1>1, <1>2 DEF IInv

(* The safety properties follow from the invariant. *)
LEMMA IInvImplies ==
  ASSUME IInv
  PROVE  /\ EndIsLast /\ OneOutcome /\ TerminalSeesStopped /\ DoneReleases
         /\ StopReleases /\ ReaderNeverWaits /\ NeverSilent
  <1>1. EndIsLast /\ OneOutcome /\ StopReleases
    BY DEF IInv, StreamInv, ReaderInv, StopInv
  <1>2. TerminalSeesStopped /\ DoneReleases
    BY DEF IInv, ReaderInv, TerminalSeesStopped, DoneReleases
  <1>3. ReaderNeverWaits
    BY DEF IInv, StopInv, ReaderNeverWaits, ActiveStopPcs, StopPcs, WaitPcs
  <1>4. NeverSilent
    BY DEF IInv, ReaderInv, SilentInv, NeverSilent, LastReported
  <1> QED
    BY <1>1, <1>2, <1>3, <1>4

-----------------------------------------------------------------------------
(* Refinement: every step of RecognizerCore is a step of the abstract        *)
(* RecognitionSession or leaves the session as it is.  And no such step      *)
(* publishes a connection, which is what a failed Start needs to be          *)
(* repeatable.                                                               *)

(* The initial state of the recognizer is one of the abstract session. *)
LEMMA InitSession == Init => Session!SessionInit
  BY DEF Init, Session!SessionInit

(* The steps of a call that change none of the session's three parts. *)
LEMMA QuietCalls ==
  ASSUME NEW t,
         StartSpawn(t) \/ StartSpawnFails(t) \/ WriteInvalid(t) \/
         WriteEnter(t) \/ WriteGetConn(t) \/ WriteLock(t) \/ WriteBegin(t)
         \/ WriteFails(t) \/ StopLock(t) \/ StopFailed(t) \/ StopClose(t)
         \/ StopSent(t) \/ StopSpawnFails(t) \/ DeadlinePasses(t) \/ WaitCheck(t) \/ WaitWake(t)
         \/ WaitTimeout(t) \/ WaitTerminal(t) \/ GraceEnds(t) \/
         DestructorEnter(t) \/ DestructorJoin(t)
  PROVE  UNCHANGED Session!sessionVars
  BY DEF Session!sessionVars,
         StartSpawn, StartSpawnFails, WriteInvalid, WriteEnter, WriteGetConn,
         WriteLock, WriteBegin, WriteFails, StopLock, StopFailed, StopClose,
         StopSent, StopSpawnFails, DeadlinePasses, WaitCheck, WaitWake, WaitTimeout,
         WaitTerminal, GraceEnds, DestructorEnter, DestructorJoin, Goto,
         Return, LeaveWait, EnterWait

(* A call step is a session step: Start, Stop and the two ways to end the    *)
(* session follow the lifecycle, and a frame goes out only before the end.   *)
LEMMA CallStepSession ==
  ASSUME IInv, NEW t \in Threads, CallStep(t)
  PROVE  [Session!SessionNext]_(Session!sessionVars)
  <1> USE DEF IInv, Session!sessionVars
  <1>1. CASE StartCas(t)
    BY <1>1 DEF StartCas, Session!SessionNext, Session!Begin
  <1>2. CASE StartRunning(t)
    <2>1. state = "starting"
      BY <1>2 DEF StartRunning, LifecycleInv, ConnectPcs
    <2> QED
      BY <1>2, <2>1 DEF StartRunning, Session!SessionNext, Session!Open
  <1>3. CASE WriteDone(t)
    <2>1. state \in OpenStates
      BY <1>3 DEF WriteDone, WriterInv, WritePcs
    <2>2. ~Ended
      BY <1>3 DEF WriteDone, StreamInv
    <2> QED
      BY <1>3, <2>1, <2>2 DEF WriteDone, OpenStates, Ended, Session!SessionNext,
         Session!SendAudio, Session!Ended
  <1>4. CASE StopCas(t)
    BY <1>4 DEF StopCas, Session!SessionNext, Session!RequestStop
  <1>5. CASE StopGetConn(t) \/ StopFailedStore(t) \/ StopStore(t)
    <2>1. state \in {"stopping", "stopped"}
      BY <1>5 DEF StopGetConn, StopFailedStore, StopStore, LifecycleInv,
                  ActiveStopPcs, StopPcs, WaitPcs
    <2>2. state' = state \/ state' = "stopped"
      BY <1>5 DEF StopGetConn, StopFailedStore, StopStore
    <2>3. UNCHANGED <<wire, log>>
      BY <1>5 DEF StopGetConn, StopFailedStore, StopStore
    <2> QED
      BY <2>1, <2>2, <2>3 DEF Session!SessionNext, Session!Close
  <1>6. CASE StopSend(t)
    <2>1. state \in {"stopping", "stopped"}
      BY <1>6 DEF StopSend, LifecycleInv, ActiveStopPcs, StopPcs, WaitPcs
    <2>2. ~Ended
      BY <1>6 DEF StopSend, StreamInv
    <2> QED
      BY <1>6, <2>1, <2>2 DEF StopSend, Ended, Session!SessionNext,
         Session!SendEnd, Session!Ended
  <1> QED
    BY <1>1, <1>2, <1>3, <1>4, <1>5, <1>6, QuietCalls DEF CallStep, Stop, Wait

(* Calling the listener is a Report, provided nothing was reported before    *)
(* and the outcome comes after Finish.                                       *)
LEMMA CallIsReport ==
  ASSUME NEW cb \in Callbacks, NEW last \in BOOLEAN, NEW k, Call(cb, last, k),
         state \in OpenStates, ~Reported, last => state = "stopped",
         UNCHANGED <<state, wire>>
  PROVE  Session!SessionNext
  BY DEF Call, OpenStates, Reported, Session!SessionNext, Session!Report,
         Session!Reported

(* A reader step is a session step: the session is closed by Finish, and the *)
(* one outcome is reported after it.                                         *)
LEMMA ReaderStepSession ==
  ASSUME IInv, ReaderStep
  PROVE  [Session!SessionNext]_(Session!sessionVars)
  <1> USE DEF IInv, Session!sessionVars
  <1>1. state \in OpenStates
    BY ReaderFrame DEF LifecycleInv
  <1>2. CASE ReaderBegins
    <2>1. ~Reported
      BY <1>2 DEF ReaderBegins, ReaderInv
    <2> QED
      BY <1>1, <1>2, <2>1, CallIsReport DEF ReaderBegins, Callbacks
  <1>3. CASE FinishStore
    BY <1>1, <1>3 DEF FinishStore, OpenStates, Session!SessionNext, Session!Close
  <1>4. CASE Deliver
    <2>1. ~Reported /\ state = "stopped"
      BY <1>4 DEF Deliver, ReaderInv
    <2>2. CASE cur.code # 0
      <3>1. Call("OnFail", TRUE, "leave") /\ UNCHANGED <<state, wire>>
        BY <1>4, <2>2 DEF Deliver
      <3> QED
        BY <1>1, <2>1, <3>1, CallIsReport DEF Callbacks
    <2>3. CASE cur.code = 0 /\ DispatchEvent(cur) # "none"
      <3>1. DispatchEvent(cur) \in Callbacks
        BY <2>3 DEF DispatchEvent, Callbacks
      <3>2. Call(DispatchEvent(cur), FALSE, "complete") /\ UNCHANGED <<state, wire>>
        BY <1>4, <2>3 DEF Deliver
      <3> QED
        BY <1>1, <2>1, <3>1, <3>2, CallIsReport
    <2>4. CASE cur.code = 0 /\ DispatchEvent(cur) = "none"
      BY <1>4, <2>4 DEF Deliver
    <2> QED
      BY <2>2, <2>3, <2>4
  <1>5. CASE Complete \/ Notify
    <2>1. ~Reported /\ state = "stopped"
      BY <1>5 DEF Complete, Notify, ReaderInv
    <2> QED
      BY <1>1, <1>5, <2>1, CallIsReport DEF Complete, Notify, Callbacks
  <1>6. ASSUME NEW f \in Frames, ReadMalformed(f)
        PROVE  Session!SessionNext
    <2>1. ~Reported
      BY <1>6 DEF ReadMalformed, ReadFrame, ReaderInv
    <2> QED
      BY <1>1, <1>6, <2>1, CallIsReport DEF ReadMalformed, Callbacks
  <1>7. ASSUME NEW f \in Frames, ReadEvent(f)
        PROVE  Session!SessionNext
    <2>1. ~Reported
      BY <1>7 DEF ReadEvent, ReadFrame, ReaderInv
    <2>2. DispatchEvent(f) \in Callbacks
      BY <1>7 DEF ReadEvent, DispatchEvent, Callbacks
    <2> QED
      BY <1>1, <1>7, <2>1, <2>2, CallIsReport DEF ReadEvent
  <1>8. CASE \/ CallbackReturns \/ CallbackThrows \/ FinishClose \/ ReaderGetConn
             \/ ReadTimesOut \/ ReadPolled \/ ReadFails \/ ReadBroken
             \/ MarkTerminalReceived \/ Leave \/ SignalDone
             \/ \E f \in Frames :
                   ReadCloseFrame(f) \/ ReadSkipped(f) \/ ReadTerminal(f)
    BY <1>8 DEF CallbackReturns, CallbackThrows, FinishClose, ReaderGetConn,
                ReadTimesOut, ReadPolled, ReadFails, ReadBroken,
                MarkTerminalReceived, Leave, SignalDone, ReadCloseFrame,
                ReadSkipped, ReadTerminal
  <1> QED
    BY <1>2, <1>3, <1>4, <1>5, <1>6, <1>7, <1>8 DEF ReaderStep

-----------------------------------------------------------------------------
(* Publishing a connection *)

(* No call step outside Connect publishes a connection, makes the recognizer *)
(* idle, begins to connect from another state than idle, or ends a call the  *)
(* way a failed acknowledgement does.                                        *)
LEMMA CallStepPublishes ==
  ASSUME IInv, NEW t \in Threads, CallStep(t)
  PROVE  /\ conn' = conn \/ conn' = FALSE
         /\ state' = "idle" => state = "idle"
         /\ \A u \in Threads :
               api'[u] = "connecting" => api[u] = "connecting" \/ state = "idle"
         /\ res' = res \/ res'.what \notin {"ReadFailed", "ServerError"}
  <1> USE DEF Goto, Return, EnterWait, LeaveWait, IInv, TypeOK
  <1>1. CASE StartCas(t)
    BY <1>1 DEF StartCas
  <1>2. CASE StartRunning(t)
    BY <1>2 DEF StartRunning
  <1>3. CASE StartSpawn(t)
    BY <1>3 DEF StartSpawn
  <1>4. CASE StartSpawnFails(t)
    BY <1>4 DEF StartSpawnFails
  <1>5. CASE WriteInvalid(t)
    BY <1>5 DEF WriteInvalid
  <1>6. CASE WriteEnter(t)
    BY <1>6 DEF WriteEnter
  <1>7. CASE WriteGetConn(t)
    BY <1>7 DEF WriteGetConn
  <1>8. CASE WriteLock(t)
    BY <1>8 DEF WriteLock
  <1>9. CASE WriteBegin(t)
    BY <1>9 DEF WriteBegin
  <1>10. CASE WriteDone(t)
    BY <1>10 DEF WriteDone
  <1>11. CASE WriteFails(t)
    BY <1>11 DEF WriteFails
  <1>12. CASE StopCas(t)
    BY <1>12 DEF StopCas
  <1>13. CASE StopGetConn(t)
    BY <1>13 DEF StopGetConn
  <1>14. CASE StopLock(t)
    BY <1>14 DEF StopLock
  <1>15. CASE StopSend(t)
    BY <1>15 DEF StopSend
  <1>16. CASE StopFailed(t)
    BY <1>16 DEF StopFailed
  <1>17. CASE StopClose(t)
    BY <1>17 DEF StopClose
  <1>18. CASE StopFailedStore(t)
    BY <1>18 DEF StopFailedStore
  <1>19. CASE StopSent(t)
    BY <1>19 DEF StopSent
  <1>20. CASE StopStore(t)
    BY <1>20 DEF StopStore
  <1>21. CASE DeadlinePasses(t)
    BY <1>21 DEF DeadlinePasses
  <1>22. CASE WaitCheck(t)
    BY <1>22 DEF WaitCheck
  <1>23. CASE WaitWake(t)
    BY <1>23 DEF WaitWake
  <1>24. CASE WaitTimeout(t)
    BY <1>24 DEF WaitTimeout
  <1>25. CASE WaitTerminal(t)
    BY <1>25 DEF WaitTerminal
  <1>26. CASE GraceEnds(t)
    BY <1>26 DEF GraceEnds
  <1>27. CASE DestructorEnter(t)
    BY <1>27 DEF DestructorEnter
  <1>28. CASE DestructorJoin(t)
    BY <1>28 DEF DestructorJoin
  <1>29. CASE StopSpawnFails(t)
    BY <1>29 DEF StopSpawnFails
  <1> QED
    BY <1>1, <1>2, <1>3, <1>4, <1>5, <1>6, <1>7, <1>8, <1>9, <1>10,
       <1>11, <1>12, <1>13, <1>14, <1>15, <1>16, <1>17, <1>18, <1>19,
       <1>20, <1>21, <1>22, <1>23, <1>24, <1>25, <1>26, <1>27, <1>28,
       <1>29
       DEF CallStep, Stop, Wait
=============================================================================
