------------------------ MODULE FileRecognizerProofs ------------------------
(***************************************************************************)
(* The waits of the file recognizer are bounded and honest for every poll  *)
(* interval, timeout and request timeout, in v2 and in v3.  TimeInv bounds *)
(* the clock at each control point; AnswerInv says what an answer on its   *)
(* way, a snapshot, still tells of the task.                               *)
(***************************************************************************)
EXTENDS FileRecognizer, TLAPS

USE TimesAssumption DEF serverVars, callVars

(* The initial state satisfies the invariant. *)
LEMMA InitFileInv == Init => FileInv
  <1> SUFFICES ASSUME Init PROVE FileInv
    OBVIOUS
  <1> USE DEF Init
  <1>1. id \in BOOLEAN
    OBVIOUS
  <1>2. TypeOK
    BY <1>1 DEF TypeOK, Results, Statuses, Unfinished, Errors, Requests
  <1>3. TimeInv
    BY DEF TimeInv, Requests
  <1>4. AnswerInv
    BY DEF AnswerInv, Requests, Waiting
  <1>5. TimeoutIsRecent /\ OutcomeIsTrue
    BY DEF TimeoutIsRecent, OutcomeIsTrue
  <1> QED
    BY <1>2, <1>3, <1>4, <1>5 DEF FileInv

(* Every failing answer becomes a failure the caller sees, never the outcome *)
(* of a task.                                                                *)
LEMMA FailureType ==
  ASSUME NEW a \in Errors
  PROVE  Failure[a] \in {"ReadFailed", "ServerError", "ForeignException"}
  BY DEF Failure, Errors

-----------------------------------------------------------------------------
(* Every step preserves the invariant *)

(* The types. *)
LEMMA NextType ==
  ASSUME FileInv, Next
  PROVE  TypeOK'
  <1> USE FailureType
      DEF FileInv, TypeOK, Results, Statuses, Unfinished, Errors, Requests,
          EndCall, SendRequest, AnswerInv
  <1>1. CASE RejectCall \/ AuthFails
    BY <1>1 DEF RejectCall, AuthFails
  <1>2. CASE CreateTask
    <2>1. id' \in BOOLEAN
      BY <1>2 DEF CreateTask
    <2> QED
      BY <1>2, <2>1 DEF CreateTask
  <1>3. CASE DescribeTask \/ WaitForResult
    BY <1>3 DEF DescribeTask, WaitForResult
  <1>4. CASE CreateTaskReceives
    <2>1. id' \in BOOLEAN
      BY <1>4 DEF CreateTaskReceives
    <2> QED
      BY <1>4, <2>1 DEF CreateTaskReceives
  <1>5. CASE DescribeTaskReceives
    BY <1>5 DEF DescribeTaskReceives
  <1>6. CASE PollReceives
    BY <1>6 DEF PollReceives
  <1>7. CASE CheckDeadline
    BY <1>7 DEF CheckDeadline
  <1>8. CASE Wakes
    BY <1>8 DEF Wakes
  <1>9. CASE RequestFails
    BY <1>9 DEF RequestFails
  <1>10. CASE ServerAnswers
    BY <1>10 DEF ServerAnswers
  <1>11. CASE ServerWorks
    BY <1>11 DEF ServerWorks
  <1>12. CASE Tick
    BY <1>12 DEF Tick
  <1>13. CASE Terminated
    BY <1>13 DEF Terminated, vars
  <1> QED
    BY <1>1, <1>2, <1>3, <1>4, <1>5, <1>6, <1>7, <1>8, <1>9, <1>10, <1>11,
       <1>12, <1>13 DEF Next

(* The clock: the last request of a wait is sent by deadline + Interval. *)
LEMMA NextTime ==
  ASSUME FileInv, Next
  PROVE  TimeInv'
  <1> USE DEF FileInv, TypeOK, TimeInv, Requests, EndCall, SendRequest
  <1>1. CASE RejectCall \/ CreateTask \/ DescribeTask \/ WaitForResult
    BY <1>1 DEF RejectCall, CreateTask, DescribeTask, WaitForResult, MayCall
  <1>2. CASE CreateTaskReceives \/ DescribeTaskReceives \/ RequestFails \/ AuthFails
    BY <1>2 DEF CreateTaskReceives, DescribeTaskReceives, RequestFails, AuthFails
  <1>3. CASE PollReceives
    BY <1>3 DEF PollReceives
  <1>4. CASE CheckDeadline
    BY <1>4 DEF CheckDeadline
  <1>5. CASE Wakes
    BY <1>5 DEF Wakes
  <1>6. CASE ServerAnswers \/ ServerWorks
    BY <1>6 DEF ServerAnswers, ServerWorks
  <1>7. CASE Tick
    BY <1>7 DEF Tick
  <1>8. CASE Terminated
    BY <1>8 DEF Terminated, vars
  <1> QED
    BY <1>1, <1>2, <1>3, <1>4, <1>5, <1>6, <1>7, <1>8 DEF Next

(* The answer on its way: a final status is still true, an unfinished one   *)
(* was true when the request was sent.                                       *)
LEMMA NextAnswer ==
  ASSUME FileInv, Next
  PROVE  AnswerInv'
  <1> USE DEF FileInv, TypeOK, TimeInv, AnswerInv, Requests, Waiting, Statuses,
          Unfinished, Errors, Pending, EndCall, SendRequest
  <1>1. CASE RejectCall \/ CreateTask
    BY <1>1 DEF RejectCall, CreateTask, MayCall
  <1>2. CASE DescribeTask \/ WaitForResult
    BY <1>2 DEF DescribeTask, WaitForResult, MayCall
  <1>3. CASE CreateTaskReceives
    BY <1>3 DEF CreateTaskReceives
  <1>4. CASE DescribeTaskReceives \/ RequestFails \/ AuthFails
    <2>1. pc' \in {"idle", "dead"}
      BY <1>4 DEF DescribeTaskReceives, RequestFails, AuthFails
    <2>2. UNCHANGED <<task, id, answer>>
      BY <1>4 DEF DescribeTaskReceives, RequestFails, AuthFails
    <2> QED
      BY <2>1, <2>2
  <1>5. CASE PollReceives
    BY <1>5 DEF PollReceives
  <1>6. CASE CheckDeadline
    BY <1>6 DEF CheckDeadline
  <1>7. CASE Wakes
    BY <1>7 DEF Wakes
  <1>8. CASE ServerAnswers
    BY <1>8 DEF ServerAnswers
  <1>9. CASE ServerWorks
    BY <1>9 DEF ServerWorks
  <1>10. CASE Tick \/ Terminated
    BY <1>10 DEF Tick, Terminated, vars
  <1> QED
    BY <1>1, <1>2, <1>3, <1>4, <1>5, <1>6, <1>7, <1>8, <1>9, <1>10 DEF Next

(* The outcome of a wait. *)
LEMMA NextOutcome ==
  ASSUME FileInv, Next
  PROVE  TimeoutIsRecent' /\ OutcomeIsTrue'
  <1> USE DEF FileInv, TypeOK, TimeInv, AnswerInv, TimeoutIsRecent, OutcomeIsTrue,
          Requests, Waiting, Statuses, Unfinished, Pending, EndCall, SendRequest
  <1>1. CASE RejectCall \/ CreateTask \/ DescribeTask \/ WaitForResult
    BY <1>1 DEF RejectCall, CreateTask, DescribeTask, WaitForResult
  <1>2. CASE CreateTaskReceives
    BY <1>2, FailureType DEF CreateTaskReceives
  <1>3. CASE DescribeTaskReceives
    BY <1>3, FailureType DEF DescribeTaskReceives
  <1>4. CASE PollReceives
    BY <1>4, FailureType DEF PollReceives
  <1>5. CASE CheckDeadline
    BY <1>5 DEF CheckDeadline
  <1>6. CASE Wakes \/ RequestFails \/ AuthFails
    BY <1>6 DEF Wakes, RequestFails, AuthFails
  <1>7. CASE ServerAnswers
    BY <1>7 DEF ServerAnswers
  <1>8. CASE ServerWorks
    BY <1>8 DEF ServerWorks
  <1>9. CASE Tick \/ Terminated
    BY <1>9 DEF Tick, Terminated, vars
  <1> QED
    BY <1>1, <1>2, <1>3, <1>4, <1>5, <1>6, <1>7, <1>8, <1>9 DEF Next

(* The inductive invariant holds of every behaviour of the file recognizer, *)
(* with any interval, timeout and request timeout.                          *)
THEOREM FileInvariance == Spec => []FileInv
  <1>1. Init => FileInv
    BY InitFileInv
  <1>2. FileInv /\ [Next]_vars => FileInv'
    <2>1. CASE Next
      BY <2>1, NextType, NextTime, NextAnswer, NextOutcome DEF FileInv
    <2>2. CASE UNCHANGED vars
      BY <2>2 DEF vars, FileInv, TypeOK, TimeInv, AnswerInv, TimeoutIsRecent,
                  OutcomeIsTrue, Pending
    <2> QED
      BY <2>1, <2>2
  <1> QED
    BY <1>1, <1>2, PTL DEF Spec

(* WaitForResultWithInterval overruns its timeout by at most one interval and *)
(* one request timeout.                                                      *)
THEOREM WaitBoundedHolds == Spec => []WaitBounded
  <1>1. FileInv => WaitBounded
    BY DEF FileInv, TypeOK, TimeInv, WaitBounded, Waiting, Requests
  <1> QED
    BY <1>1, FileInvariance, PTL

(* A wait that gives up did so past its deadline, and missed nothing older   *)
(* than one request.                                                         *)
THEOREM TimeoutIsRecentHolds == Spec => []TimeoutIsRecent
  <1>1. FileInv => TimeoutIsRecent
    BY DEF FileInv
  <1> QED
    BY <1>1, FileInvariance, PTL

(* A wait that reports an outcome reports the one the task had on the server. *)
THEOREM OutcomeIsTrueHolds == Spec => []OutcomeIsTrue
  <1>1. FileInv => OutcomeIsTrue
    BY DEF FileInv
  <1> QED
    BY <1>1, FileInvariance, PTL
=============================================================================
