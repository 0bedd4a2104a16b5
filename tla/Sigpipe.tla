------------------------------ MODULE Sigpipe ------------------------------
(***************************************************************************)
(* ScopedSigpipeSuppressor: on Linux, SSL_write, SSL_read and SSL_connect  *)
(* run with SIGPIPE blocked on the calling thread, and the scope takes back *)
(* the signal it caused before it restores the mask.  Next to it: the host *)
(* application, which owns the mask, the disposition and signals of its own *)
(* on the same threads.                                                    *)
(*                                                                         *)
(* A step is one system call.  The kernel (external) keeps at most one     *)
(* SIGPIPE pending per thread and one for the process; a signal of a       *)
(* thread that does not block it is delivered at once, and unblocking      *)
(* delivers what is pending.  pthread_sigmask does not fail for the         *)
(* arguments it is given here, and the retry of an interrupted sigtimedwait *)
(* is part of its step.                                                    *)
(***************************************************************************)
EXTENDS Naturals

CONSTANT Threads        \* threads that call the SDK and the host's own code

VARIABLES
    mask,       \* the threads on which SIGPIPE is blocked
    own,        \* the thread-directed pending SIGPIPE: whose write raised it
    shared,     \* the process-directed pending SIGPIPE, always the host's
    disp,       \* the process-wide disposition of SIGPIPE
    fate,       \* whether a SIGPIPE has terminated the process
    \* the scope of each thread: control point, was_pending_, old_mask_ (the
    \* threads for which they say yes), errno, saved_errno
    pc, was_pending, old_mask, errno, saved_errno,
    \* history: the masks the host asked for, the errno the SSL call left, the
    \* threads whose scope began after the shared signal became pending, the
    \* signals delivered, those the scopes consumed, whose were ever raised
    wanted, ssl_errno, before, hit, taken, raised

kernelVars == <<mask, own, shared, disp, fate>>
scopeVars == <<pc, was_pending, old_mask, errno, saved_errno>>
historyVars == <<wanted, ssl_errno, before, hit, taken, raised>>
vars == <<kernelVars, scopeVars, historyVars>>

Pcs == {"out", "entered", "inside", "leaving", "drain", "restore"}
Errnos == {"none", "EPIPE", "EAGAIN"}

TypeOK ==
    /\ mask \subseteq Threads
    /\ own \in [Threads -> {"none", "sdk", "host"}]
    /\ shared \in {"none", "host"}
    /\ disp \in {"default", "handler", "ignore"}
    /\ fate \in {"alive", "killed"}
    /\ pc \in [Threads -> Pcs]
    /\ was_pending \subseteq Threads
    /\ old_mask \subseteq Threads
    /\ errno \in [Threads -> Errnos]
    /\ saved_errno \in [Threads -> Errnos]
    /\ wanted \subseteq Threads
    /\ ssl_errno \in [Threads -> Errnos]
    /\ before \subseteq Threads
    /\ hit \in SUBSET {"sdk", "host"}
    /\ taken \in SUBSET {"sdk", "host before", "host during"}
    /\ raised \in SUBSET {"sdk", "host"}

Init ==
    /\ mask = {}
    /\ own = [t \in Threads |-> "none"]
    /\ shared = "none"
    /\ disp \in {"default", "handler"}
    /\ fate = "alive"
    /\ pc = [t \in Threads |-> "out"]
    /\ was_pending = {}
    /\ old_mask = {}
    /\ errno = [t \in Threads |-> "none"]
    /\ saved_errno = [t \in Threads |-> "none"]
    /\ wanted = {}
    /\ ssl_errno = [t \in Threads |-> "none"]
    /\ before = {}
    /\ hit = {}
    /\ taken = {}
    /\ raised = {}

-----------------------------------------------------------------------------
(* The kernel *)

(* The set of threads s with t in it, or not. *)
With(s, t, b) == IF b THEN s \cup {t} ELSE s \ {t}

(* What sigpending reports to thread t. *)
Pending(t) == t \in mask /\ (own[t] # "none" \/ shared # "none")

(* The signals of the set s are delivered: dropped, handled, or fatal. *)
Deliver(s) ==
    /\ hit' = IF disp = "ignore" THEN hit ELSE hit \cup s
    /\ fate' = IF disp = "default" /\ s # {} THEN "killed" ELSE "alive"

(* A write of thread t to a dead peer raises SIGPIPE on t.  A blocked signal *)
(* becomes pending, even an ignored one; a second one merges with the first. *)
Raise(t, who) ==
    IF t \in mask
      THEN /\ own' = [own EXCEPT ![t] = IF @ = "none" THEN who ELSE @]
           /\ UNCHANGED <<hit, fate>>
      ELSE /\ Deliver({who})
           /\ UNCHANGED own

(* pthread_sigmask sets the mask of t to b.  Unblocking delivers the thread's *)
(* own pending signal and the shared one.                                     *)
SetMask(t, b) ==
    /\ mask' = With(mask, t, b)
    /\ IF b
         THEN UNCHANGED <<own, shared, before, hit, fate>>
         ELSE /\ own' = [own EXCEPT ![t] = "none"]
              /\ shared' = "none"
              /\ before' = {}
              /\ Deliver({own[t], shared} \ {"none"})

-----------------------------------------------------------------------------
(* The scope *)

(* The fault: the constructor does not look, every pending signal is ours. *)
EnterScopeBlind(t) ==
    /\ pc[t] = "out"
    /\ pc' = [pc EXCEPT ![t] = "entered"]
    /\ was_pending' = With(was_pending, t, FALSE)
    /\ before' = With(before, t, shared = "host")
    /\ UNCHANGED <<kernelVars, old_mask, errno, saved_errno, wanted, ssl_errno,
                   hit, taken, raised>>

(* Constructor: is a SIGPIPE already pending?  Then it is not ours. *)
EnterScope(t) ==
    /\ pc[t] = "out"
    /\ pc' = [pc EXCEPT ![t] = "entered"]
    /\ was_pending' = With(was_pending, t, Pending(t))
    /\ before' = With(before, t, shared = "host")
    /\ UNCHANGED <<kernelVars, old_mask, errno, saved_errno, wanted, ssl_errno,
                   hit, taken, raised>>

(* Constructor: block SIGPIPE, remember the old mask. *)
Block(t) ==
    /\ pc[t] = "entered"
    /\ pc' = [pc EXCEPT ![t] = "inside"]
    /\ old_mask' = With(old_mask, t, t \in mask)
    /\ SetMask(t, TRUE)
    /\ UNCHANGED <<disp, was_pending, errno, saved_errno, wanted, ssl_errno,
                   taken, raised>>

(* The guarded SSL call writes to a peer that is gone. *)
SslWriteBroken(t) ==
    /\ pc[t] = "inside"
    /\ Raise(t, "sdk")
    /\ raised' = raised \cup {"sdk"}
    /\ pc' = [pc EXCEPT ![t] = "leaving"]
    /\ errno' = [errno EXCEPT ![t] = "EPIPE"]
    /\ ssl_errno' = [ssl_errno EXCEPT ![t] = "EPIPE"]
    /\ UNCHANGED <<mask, shared, disp, was_pending, old_mask, saved_errno,
                   wanted, before, taken>>

(* The guarded SSL call raises nothing. *)
SslCall(t) ==
    /\ pc[t] = "inside"
    /\ pc' = [pc EXCEPT ![t] = "leaving"]
    /\ errno' = [errno EXCEPT ![t] = "none"]
    /\ ssl_errno' = [ssl_errno EXCEPT ![t] = "none"]
    /\ UNCHANGED <<kernelVars, was_pending, old_mask, saved_errno, wanted,
                   before, hit, taken, raised>>

(* The fault: the scope blocks the signal and never takes it back. *)
LeaveScopeNoDrain(t) ==
    /\ pc[t] = "leaving"
    /\ pc' = [pc EXCEPT ![t] = "restore"]
    /\ saved_errno' = [saved_errno EXCEPT ![t] = errno[t]]
    /\ UNCHANGED <<kernelVars, was_pending, old_mask, errno, historyVars>>

(* Destructor: save errno; if nothing was pending at the start and something *)
(* is now, drain it.                                                         *)
LeaveScope(t) ==
    /\ pc[t] = "leaving"
    /\ saved_errno' = [saved_errno EXCEPT ![t] = errno[t]]
    /\ pc' = [pc EXCEPT ![t] =
                 IF t \notin was_pending /\ Pending(t) THEN "drain" ELSE "restore"]
    /\ UNCHANGED <<kernelVars, was_pending, old_mask, errno, historyVars>>

(* sigtimedwait takes the thread's own signal before the process's. *)
Take(t) ==
    \/ /\ own[t] # "none"
       /\ own' = [own EXCEPT ![t] = "none"]
       /\ taken' = taken \cup {IF own[t] = "sdk" THEN "sdk" ELSE "host before"}
       /\ UNCHANGED <<shared, before>>
    \/ /\ own[t] = "none" /\ shared = "host"
       /\ shared' = "none"
       /\ taken' = taken \cup {IF t \in before THEN "host before" ELSE "host during"}
       /\ before' = {}
       /\ UNCHANGED own

(* The fault: sigwaitinfo, which waits until there is a signal to take. *)
DrainWaits(t) ==
    /\ pc[t] = "drain"
    /\ pc' = [pc EXCEPT ![t] = "restore"]
    /\ Take(t)
    /\ UNCHANGED <<mask, disp, fate, was_pending, old_mask, errno, saved_errno,
                   wanted, ssl_errno, hit, raised>>

(* sigtimedwait with a zero timeout.  The signal that sigpending saw may be *)
(* gone: another thread took it, or the disposition became SIG_IGN.         *)
Drain(t) ==
    /\ pc[t] = "drain"
    /\ pc' = [pc EXCEPT ![t] = "restore"]
    /\ \/ Take(t) /\ UNCHANGED errno
       \/ /\ own[t] = "none" /\ shared = "none"
          /\ errno' = [errno EXCEPT ![t] = "EAGAIN"]
          /\ UNCHANGED <<own, shared, before, taken>>
    /\ UNCHANGED <<mask, disp, fate, was_pending, old_mask, saved_errno, wanted,
                   ssl_errno, hit, raised>>

(* The saved values go with the scope; was_pending_ is kept as history. *)
ScopeGone(t) ==
    /\ old_mask' = With(old_mask, t, FALSE)
    /\ saved_errno' = [saved_errno EXCEPT ![t] = "none"]

(* The fault: SIGPIPE is unblocked, whatever the mask was before. *)
RestoreUnblocks(t) ==
    /\ pc[t] = "restore"
    /\ pc' = [pc EXCEPT ![t] = "out"]
    /\ SetMask(t, FALSE)
    /\ errno' = [errno EXCEPT ![t] = saved_errno[t]]
    /\ ScopeGone(t)
    /\ UNCHANGED <<disp, was_pending, wanted, ssl_errno, taken, raised>>

(* The fault: the caller finds the errno of the signal calls. *)
RestoreKeepsErrno(t) ==
    /\ pc[t] = "restore"
    /\ pc' = [pc EXCEPT ![t] = "out"]
    /\ SetMask(t, t \in old_mask)
    /\ ScopeGone(t)
    /\ UNCHANGED <<disp, was_pending, errno, wanted, ssl_errno, taken,
                   raised>>

(* Destructor: put the old mask and errno back. *)
Restore(t) ==
    /\ pc[t] = "restore"
    /\ pc' = [pc EXCEPT ![t] = "out"]
    /\ SetMask(t, t \in old_mask)
    /\ errno' = [errno EXCEPT ![t] = saved_errno[t]]
    /\ ScopeGone(t)
    /\ UNCHANGED <<disp, was_pending, wanted, ssl_errno, taken, raised>>

ScopeStep(t) ==
    \/ EnterScope(t) \/ Block(t) \/ SslWriteBroken(t) \/ SslCall(t)
    \/ LeaveScope(t) \/ Drain(t) \/ Restore(t)

-----------------------------------------------------------------------------
(* The host application *)

(* The host blocks or unblocks SIGPIPE on a thread of its own. *)
HostMask(t, b) ==
    /\ pc[t] = "out"
    /\ wanted' = With(wanted, t, b)
    /\ SetMask(t, b)
    /\ UNCHANGED <<disp, scopeVars, ssl_errno, taken, raised>>

(* The host writes to a dead peer of its own. *)
HostWriteBroken(t) ==
    /\ pc[t] = "out"
    /\ Raise(t, "host")
    /\ raised' = raised \cup {"host"}
    /\ UNCHANGED <<mask, shared, disp, scopeVars, wanted, ssl_errno, before,
                   taken>>

(* kill(2): any thread that does not block the signal gets it. *)
HostKill ==
    /\ raised' = raised \cup {"host"}
    /\ IF mask = Threads
         THEN shared' = "host" /\ UNCHANGED <<hit, fate>>
         ELSE Deliver({"host"}) /\ UNCHANGED shared
    /\ UNCHANGED <<mask, own, disp, scopeVars, wanted, ssl_errno, before, taken>>

HostInstallsHandler ==
    /\ disp' = "handler"
    /\ UNCHANGED <<mask, own, shared, fate, scopeVars, historyVars>>

(* The SDK's opt-in: SIG_IGN for the process, which discards what is pending. *)
IgnoreSigpipeProcessWide ==
    /\ disp' = "ignore"
    /\ own' = [t \in Threads |-> "none"]
    /\ shared' = "none"
    /\ before' = {}
    /\ UNCHANGED <<mask, fate, scopeVars, wanted, ssl_errno, hit, taken,
                   raised>>

Host ==
    \/ \E t \in Threads :
          HostWriteBroken(t) \/ \E b \in BOOLEAN : HostMask(t, b)
    \/ HostKill \/ HostInstallsHandler \/ IgnoreSigpipeProcessWide

(* A fatal SIGPIPE ended the process. *)
Dead == fate = "killed" /\ UNCHANGED vars

Next ==
    \/ fate = "alive" /\ (Host \/ \E t \in Threads : ScopeStep(t))
    \/ Dead

Spec == Init /\ [][Next]_vars

(* The kernel runs a thread that is leaving its scope; nothing it calls there *)
(* blocks.                                                                     *)
LeaveStep(t) == fate = "alive" /\ (LeaveScope(t) \/ Drain(t) \/ Restore(t))
FairSpec == Spec /\ \A t \in Threads : WF_vars(LeaveStep(t))

-----------------------------------------------------------------------------
(* Properties *)

(* The SDK's broken write never reaches the host: unless a signal of the     *)
(* host's was pending when the scope began, no SIGPIPE of an SSL call is     *)
(* pending outside a scope, and a process whose host never raises one never  *)
(* has one delivered and is never killed, whatever the masks.                *)
SdkSignalContained ==
    /\ \A t \in Threads : pc[t] = "out" /\ own[t] = "sdk" => t \in was_pending
    /\ "host" \notin raised => hit = {} /\ fate = "alive"

(* "a SIGPIPE the host had pending before is never stolen" (class comment):  *)
(* no scope consumes a signal of the host that was pending when it began.    *)
HostSignalKept == "host before" \notin taken

(* Outside a scope the thread has the mask the host gave it. *)
MaskRestored ==
    \A t \in Threads : pc[t] = "out" => (t \in mask <=> t \in wanted)

(* The caller reads errno (and SSL_get_error, which looks at it) right after *)
(* the scope: it is the one the SSL call left, also when the pending signal  *)
(* vanished between sigpending and sigtimedwait.                             *)
ErrnoPreserved == \A t \in Threads : pc[t] = "out" => errno[t] = ssl_errno[t]

(* The destructor never waits for a signal that is gone. *)
GuardLeaves ==
    \A t \in Threads :
        pc[t] \in {"leaving", "drain", "restore"} ~> pc[t] = "out" \/ fate = "killed"

-----------------------------------------------------------------------------
(* The inductive invariant. *)

InScope == {"entered", "inside", "leaving", "drain", "restore"}
Blocked == {"inside", "leaving", "drain", "restore"}

KernelInv ==
    /\ \A t \in Threads : own[t] # "none" \/ shared # "none" => t \in mask
    /\ \A t \in Threads : t \in before => shared = "host"
    /\ shared = "host" => "host" \in raised
    /\ \A t \in Threads : own[t] = "host" => "host" \in raised

ScopeInv ==
    /\ \A t \in Threads :
          pc[t] \in Blocked => t \in mask /\ (t \in old_mask <=> t \in wanted)
    /\ \A t \in Threads : pc[t] \notin Blocked => (t \in mask <=> t \in wanted)
    /\ \A t \in Threads : t \in was_pending => "host" \in raised
    /\ \A t \in Threads :
          pc[t] \in InScope /\ t \notin was_pending
              => own[t] # "host" /\ t \notin before
    /\ \A t \in Threads : pc[t] = "drain" => t \notin was_pending
    /\ \A t \in Threads :
          pc[t] \notin {"inside", "leaving", "drain"} /\ own[t] = "sdk"
              => t \in was_pending

ErrnoInv ==
    /\ \A t \in Threads :
          pc[t] \in {"out", "entered", "leaving"} => errno[t] = ssl_errno[t]
    /\ \A t \in Threads :
          pc[t] \in {"drain", "restore"} => saved_errno[t] = ssl_errno[t]

ReportInv ==
    /\ "host" \notin raised => hit = {} /\ fate = "alive"
    /\ "host before" \notin taken

SigpipeInv == TypeOK /\ KernelInv /\ ScopeInv /\ ErrnoInv /\ ReportInv
=============================================================================
