--------------------------- MODULE SigpipeProofs ---------------------------
(***************************************************************************)
(* The safety of ScopedSigpipeSuppressor for any number of threads.        *)
(* SigpipeInv is inductive; the properties follow from it.                 *)
(***************************************************************************)
EXTENDS Sigpipe, TLAPS

(* Nothing is pending or blocked at the start. *)
LEMMA SigpipeInit == Init => SigpipeInv
  BY DEF Init, SigpipeInv, TypeOK, KernelInv, ScopeInv, ErrnoInv, ReportInv,
      Pcs, Errnos, InScope, Blocked

(* Every step of a scope preserves the invariant. *)
LEMMA ScopePreserves ==
    ASSUME SigpipeInv, NEW t \in Threads, fate = "alive", ScopeStep(t)
    PROVE  SigpipeInv'
  <1> USE DEF SigpipeInv
  <1>1. CASE EnterScope(t)
    <2> USE <1>1 DEF EnterScope, Pending, With, kernelVars
    <2>1. TypeOK'
      BY DEF TypeOK, Pcs, Errnos
    <2>2. KernelInv'
      BY DEF TypeOK, KernelInv, ScopeInv, InScope, Blocked
    <2>3. ScopeInv'
      BY DEF TypeOK, KernelInv, ScopeInv, InScope, Blocked
    <2>4. ErrnoInv'
      BY DEF TypeOK, ErrnoInv
    <2>5. ReportInv'
      BY DEF TypeOK, ReportInv, KernelInv, ScopeInv, InScope
    <2>q. QED
      BY <2>1, <2>2, <2>3, <2>4, <2>5 DEF SigpipeInv
  <1>2. CASE Block(t)
    <2> USE <1>2 DEF Block, SetMask, With
    <2>1. TypeOK'
      BY DEF TypeOK, Pcs, Errnos
    <2>2. KernelInv'
      BY DEF TypeOK, KernelInv, ScopeInv, InScope, Blocked
    <2>3. ScopeInv'
      BY ZenonT(60) DEF TypeOK, KernelInv, ScopeInv, InScope, Blocked
    <2>4. ErrnoInv'
      BY DEF TypeOK, ErrnoInv
    <2>5. ReportInv'
      BY DEF TypeOK, ReportInv, KernelInv, ScopeInv, InScope
    <2>q. QED
      BY <2>1, <2>2, <2>3, <2>4, <2>5 DEF SigpipeInv
  <1>3. CASE SslWriteBroken(t)
    <2> USE <1>3 DEF SslWriteBroken, Raise
    <2>m. t \in mask
      BY DEF ScopeInv, Blocked
    <2>2. TypeOK'
      BY <2>m DEF TypeOK, Pcs, Errnos
    <2>3. KernelInv'
      BY ZenonT(60) DEF TypeOK, KernelInv, ScopeInv, InScope, Blocked
    <2>4. ScopeInv'
      BY ZenonT(60) DEF TypeOK, KernelInv, ScopeInv, InScope, Blocked
    <2>5. ErrnoInv'
      BY DEF TypeOK, ErrnoInv
    <2>6. ReportInv'
      BY <2>m DEF TypeOK, ReportInv
    <2>q. QED
      BY <2>2, <2>3, <2>4, <2>5, <2>6 DEF SigpipeInv
  <1>4. CASE SslCall(t)
    <2> USE <1>4 DEF SslCall, kernelVars
    <2>1. TypeOK'
      BY DEF TypeOK, Pcs, Errnos
    <2>2. KernelInv'
      BY DEF TypeOK, KernelInv, ScopeInv, InScope, Blocked
    <2>3. ScopeInv'
      BY DEF TypeOK, KernelInv, ScopeInv, InScope, Blocked
    <2>4. ErrnoInv'
      BY DEF TypeOK, ErrnoInv
    <2>5. ReportInv'
      BY DEF TypeOK, ReportInv, KernelInv, ScopeInv, InScope
    <2>q. QED
      BY <2>1, <2>2, <2>3, <2>4, <2>5 DEF SigpipeInv
  <1>5. CASE LeaveScope(t)
    <2> USE <1>5 DEF LeaveScope, Pending, kernelVars, historyVars
    <2>1. TypeOK'
      BY DEF TypeOK, Pcs, Errnos
    <2>2. KernelInv'
      BY DEF TypeOK, KernelInv, ScopeInv, InScope, Blocked
    <2>3. ScopeInv'
      BY DEF TypeOK, KernelInv, ScopeInv, InScope, Blocked
    <2>4. ErrnoInv'
      BY DEF TypeOK, ErrnoInv
    <2>5. ReportInv'
      BY DEF TypeOK, ReportInv, KernelInv, ScopeInv, InScope
    <2>q. QED
      BY <2>1, <2>2, <2>3, <2>4, <2>5 DEF SigpipeInv
  <1>6. CASE Drain(t)
    <2> USE <1>6 DEF Drain, Take
    <2>1. TypeOK'
      BY DEF TypeOK, Pcs, Errnos
    <2>2. KernelInv'
      BY ZenonT(60) DEF TypeOK, KernelInv, ScopeInv, InScope, Blocked
    <2>3. ScopeInv'
      BY ZenonT(60) DEF TypeOK, KernelInv, ScopeInv, InScope, Blocked
    <2>4. ErrnoInv'
      BY ZenonT(60) DEF TypeOK, ErrnoInv
    <2>5. ReportInv'
      BY DEF TypeOK, ReportInv, KernelInv, ScopeInv, InScope
    <2>q. QED
      BY <2>1, <2>2, <2>3, <2>4, <2>5 DEF SigpipeInv
  <1>7. CASE Restore(t)
    <2> USE <1>7 DEF Restore, SetMask, ScopeGone, Deliver, With
    <2>s. /\ {own[t], shared} \ {"none"} \subseteq {"sdk", "host"}
          /\ "host" \notin raised => {own[t], shared} \ {"none"} = {}
      BY ZenonT(60) DEF TypeOK, KernelInv, ScopeInv
    <2>h. hit' \in SUBSET {"sdk", "host"} /\ fate' \in {"alive", "killed"}
      BY <2>s, ZenonT(60) DEF TypeOK
    <2>o. own' \in [Threads -> {"none", "sdk", "host"}] /\ shared' \in {"none", "host"}
      BY DEF TypeOK
    <2>4. TypeOK'
      BY <2>h, <2>o, ZenonT(60) DEF TypeOK, Pcs, Errnos
    <2>5. KernelInv'
      BY ZenonT(60) DEF TypeOK, KernelInv, ScopeInv, InScope, Blocked
    <2>6. ScopeInv'
      BY ZenonT(60) DEF TypeOK, KernelInv, ScopeInv, InScope, Blocked
    <2>7. ErrnoInv'
      BY DEF TypeOK, ErrnoInv
    <2>8. ReportInv'
      BY <2>s DEF TypeOK, ReportInv
    <2>q. QED
      BY <2>4, <2>5, <2>6, <2>7, <2>8 DEF SigpipeInv
  <1>q. QED
    BY <1>1, <1>2, <1>3, <1>4, <1>5, <1>6, <1>7 DEF ScopeStep

(* So does every step of the host. *)
LEMMA HostPreserves ==
    ASSUME SigpipeInv, fate = "alive", Host
    PROVE  SigpipeInv'
  <1> USE DEF SigpipeInv
  <1>1. ASSUME NEW t \in Threads, HostWriteBroken(t) PROVE SigpipeInv'
    <2> USE <1>1 DEF HostWriteBroken, Raise, Deliver, scopeVars
    <2>1. TypeOK'
      BY DEF TypeOK, Pcs, Errnos
    <2>2. KernelInv'
      BY DEF TypeOK, KernelInv, ScopeInv, InScope, Blocked
    <2>3. ScopeInv'
      BY DEF TypeOK, KernelInv, ScopeInv, InScope, Blocked
    <2>4. ErrnoInv'
      BY DEF TypeOK, ErrnoInv
    <2>5. ReportInv'
      BY DEF TypeOK, ReportInv, KernelInv, ScopeInv, InScope
    <2>q. QED
      BY <2>1, <2>2, <2>3, <2>4, <2>5 DEF SigpipeInv
  <1>2. ASSUME NEW t \in Threads, NEW b \in BOOLEAN, HostMask(t, b)
        PROVE  SigpipeInv'
    <2> USE <1>2 DEF HostMask, SetMask, Deliver, With, scopeVars
    <2>s. /\ {own[t], shared} \ {"none"} \subseteq {"sdk", "host"}
          /\ "host" \notin raised => {own[t], shared} \ {"none"} = {}
      BY DEF TypeOK, KernelInv, ScopeInv
    <2>h. hit' \in SUBSET {"sdk", "host"} /\ fate' \in {"alive", "killed"}
      BY <2>s, ZenonT(60) DEF TypeOK
    <2>o. own' \in [Threads -> {"none", "sdk", "host"}] /\ shared' \in {"none", "host"}
      BY DEF TypeOK
    <2>4. TypeOK'
      BY <2>h, <2>o, ZenonT(60) DEF TypeOK, Pcs, Errnos
    <2>5. KernelInv'
      BY ZenonT(60) DEF TypeOK, KernelInv, ScopeInv, InScope, Blocked
    <2>6. ScopeInv'
      BY DEF TypeOK, KernelInv, ScopeInv, InScope, Blocked
    <2>7. ErrnoInv'
      BY DEF TypeOK, ErrnoInv
    <2>8. ReportInv'
      BY <2>s DEF TypeOK, ReportInv
    <2>q. QED
      BY <2>4, <2>5, <2>6, <2>7, <2>8 DEF SigpipeInv
  <1>3. CASE HostKill
    <2> USE <1>3 DEF HostKill, Deliver, scopeVars
    <2>1. TypeOK'
      BY DEF TypeOK, Pcs, Errnos
    <2>2. KernelInv'
      BY DEF TypeOK, KernelInv, ScopeInv, InScope, Blocked
    <2>3. ScopeInv'
      BY DEF TypeOK, KernelInv, ScopeInv, InScope, Blocked
    <2>4. ErrnoInv'
      BY DEF TypeOK, ErrnoInv
    <2>5. ReportInv'
      BY DEF TypeOK, ReportInv, KernelInv, ScopeInv, InScope
    <2>q. QED
      BY <2>1, <2>2, <2>3, <2>4, <2>5 DEF SigpipeInv
  <1>4. CASE HostInstallsHandler
    <2> USE <1>4 DEF HostInstallsHandler, scopeVars, historyVars
    <2>1. TypeOK'
      BY DEF TypeOK, Pcs, Errnos
    <2>2. KernelInv'
      BY DEF TypeOK, KernelInv, ScopeInv, InScope, Blocked
    <2>3. ScopeInv'
      BY DEF TypeOK, KernelInv, ScopeInv, InScope, Blocked
    <2>4. ErrnoInv'
      BY DEF TypeOK, ErrnoInv
    <2>5. ReportInv'
      BY DEF TypeOK, ReportInv, KernelInv, ScopeInv, InScope
    <2>q. QED
      BY <2>1, <2>2, <2>3, <2>4, <2>5 DEF SigpipeInv
  <1>5. CASE IgnoreSigpipeProcessWide
    <2> USE <1>5 DEF IgnoreSigpipeProcessWide, scopeVars
    <2>1. TypeOK'
      BY DEF TypeOK, Pcs, Errnos
    <2>2. KernelInv'
      BY DEF TypeOK, KernelInv, ScopeInv, InScope, Blocked
    <2>3. ScopeInv'
      BY DEF TypeOK, KernelInv, ScopeInv, InScope, Blocked
    <2>4. ErrnoInv'
      BY DEF TypeOK, ErrnoInv
    <2>5. ReportInv'
      BY DEF TypeOK, ReportInv, KernelInv, ScopeInv, InScope
    <2>q. QED
      BY <2>1, <2>2, <2>3, <2>4, <2>5 DEF SigpipeInv
  <1>q. QED
    BY <1>1, <1>2, <1>3, <1>4, <1>5 DEF Host

(* The inductive invariant holds, whatever the host does with its masks,     *)
(* signals and disposition on any number of threads.                         *)
THEOREM SigpipeInvariance == Spec => []SigpipeInv
  <1>1. SigpipeInv /\ [Next]_vars => SigpipeInv'
    <2> SUFFICES ASSUME SigpipeInv, [Next]_vars PROVE SigpipeInv'
      OBVIOUS
    <2>1. CASE fate = "alive" /\ Host
      BY <2>1, HostPreserves
    <2>2. CASE fate = "alive" /\ \E t \in Threads : ScopeStep(t)
      BY <2>2, ScopePreserves
    <2>3. CASE UNCHANGED vars
      BY <2>3 DEF SigpipeInv, TypeOK, KernelInv, ScopeInv, ErrnoInv,
          ReportInv, vars, kernelVars, scopeVars, historyVars
    <2>q. QED
      BY <2>1, <2>2, <2>3 DEF Next, Dead
  <1>q. QED
    BY <1>1, SigpipeInit, PTL DEF Spec

(* An SSL call's SIGPIPE does not reach the host. *)
THEOREM SdkSignalContainedHolds == Spec => []SdkSignalContained
  <1>1. SigpipeInv => SdkSignalContained
    BY DEF SigpipeInv, ScopeInv, ReportInv, SdkSignalContained
  <1>q. QED
    BY <1>1, SigpipeInvariance, PTL

(* A signal the host had pending is not consumed. *)
THEOREM HostSignalKeptHolds == Spec => []HostSignalKept
  <1>1. SigpipeInv => HostSignalKept
    BY DEF SigpipeInv, ReportInv, HostSignalKept
  <1>q. QED
    BY <1>1, SigpipeInvariance, PTL

(* A thread of the host finds its signal mask as it was after every scope. *)
THEOREM MaskRestoredHolds == Spec => []MaskRestored
  <1>1. SigpipeInv => MaskRestored
    BY DEF SigpipeInv, ScopeInv, ErrnoInv, Blocked, MaskRestored
  <1>q. QED
    BY <1>1, SigpipeInvariance, PTL

(* The errno of the SSL call survives the scope that guards it. *)
THEOREM ErrnoPreservedHolds == Spec => []ErrnoPreserved
  <1>1. SigpipeInv => ErrnoPreserved
    BY DEF SigpipeInv, ScopeInv, ErrnoInv, Blocked, ErrnoPreserved
  <1>q. QED
    BY <1>1, SigpipeInvariance, PTL
=============================================================================
