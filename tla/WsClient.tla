------------------------------ MODULE WsClient ------------------------------
(***************************************************************************)
(* The WebSocket client below the level of a frame: Connect reads the      *)
(* response of the upgrade byte by byte, Read assembles frames from what   *)
(* has arrived within a poll window, SendText and SendBinary push a frame  *)
(* out in pieces, and the pong of a ping is written by the reading thread. *)
(*                                                                         *)
(* The server's stream is the upgrade response (unit 0) followed by the    *)
(* frames of srv (units 1, 2, ...).  A position in it is a unit and a      *)
(* number of bytes of that unit: <<af, ab>> is how far the stream has      *)
(* arrived, <<cf, cb>> how far the client has taken it.  A frame is a      *)
(* two-byte header and a rest (extended length, mask key and payload, all  *)
(* read under the same budget and failing alike).                          *)
(***************************************************************************)
EXTENDS Integers, Sequences, WsFrame

CONSTANTS
    Senders,        \* threads that send; RecognizerCore's write_mu is above
    Reader,         \* the thread that calls Read
    NoThread,       \* nobody holds write_mu_
    Kinds,          \* the frames the server may send
    Rest(_, _),     \* bytes after the first two, of a mask bit and a length
    ResponseSize,   \* bytes of the upgrade response
    WireSize,       \* pieces of an outgoing frame
    SplitHeaders,   \* whether the two bytes of a header may arrive apart
    MaxFrames,      \* bound: frames the server sends
    MaxOut          \* bound: frames the senders begin

(* A frame: the fields of its header.  How many bytes follow the first two,  *)
(* extended length, mask key and payload, is Rest of them, scaled down.      *)
KindType == [opcode : 0..15, mask : {0, 128}, len : {n \in Nat : Fits64(n)}]

ASSUME WsThreads == Reader \notin Senders /\ NoThread \notin Senders \cup {Reader}
ASSUME WsKinds == Kinds \subseteq KindType
ASSUME WsRest == \A k \in Kinds : Rest(k.mask, k.len) \in Nat
ASSUME WsSizes ==
    /\ ResponseSize \in Nat \ {0} /\ WireSize \in Nat \ {0}
    /\ MaxFrames \in Nat /\ MaxOut \in Nat /\ SplitHeaders \in BOOLEAN

Threads == Senders \cup {Reader}

VARIABLES
    srv, af, ab,            \* the server's frames, how far they arrived
    cf, cb,                 \* how far the client has read
    rpc,                    \* control point of Connect and Read
    late, slow,             \* the poll window, the frame budget has passed
    open,                   \* the socket was not shut down
    delivered,              \* the frames Read returned
    write_mu, wpc, left,    \* the lock, the sends, what is left of each
    begun, out, torn        \* frames begun, pieces sent, frames given up half way

streamVars == <<srv, af, ab>>
readVars == <<cf, cb, rpc, late, slow, delivered>>
writeVars == <<write_mu, wpc, left, begun, out, torn>>
vars == <<streamVars, readVars, open, writeVars>>

Reading == {"head", "rest", "pong_lock", "pong"}
Ping == 9
Pong == 10
Piece == [no : Nat, left : Nat]

TypeOK ==
    /\ srv \in Seq(Kinds)
    /\ af \in Nat /\ ab \in Nat /\ cf \in Nat /\ cb \in Nat
    /\ rpc \in Reading \cup {"dial", "handshake", "out", "garbled", "failed"}
    /\ late \in BOOLEAN /\ slow \in BOOLEAN /\ open \in BOOLEAN
    /\ delivered \in Seq(Nat)
    /\ write_mu \in Threads \cup {NoThread}
    /\ wpc \in [Threads -> {"out", "lock", "sending"}]
    /\ left \in [Threads -> Nat]
    /\ begun \in Nat
    /\ out \in Seq(Piece)
    /\ torn \subseteq Nat

Init ==
    /\ srv = << >> /\ af = 0 /\ ab = 0
    /\ cf = 0 /\ cb = 0
    /\ rpc = "dial"
    /\ late = FALSE /\ slow = FALSE
    /\ open = TRUE
    /\ delivered = << >>
    /\ write_mu = NoThread
    /\ wpc = [t \in Threads |-> "out"]
    /\ left = [t \in Threads |-> 0]
    /\ begun = 0 /\ out = << >> /\ torn = {}

-----------------------------------------------------------------------------
(* The server and the network *)

(* The first byte, the second and the extended length, laid out by the server *)
(* as EncodeWsFrame lays out the client's.                                    *)
HeaderSent(k) == EncodeHeader(srv[k].opcode, srv[k].len, srv[k].mask)

Size(k) ==
    IF k = 0 THEN ResponseSize ELSE 2 + Rest(srv[k].mask, srv[k].len)

ServerSends ==
    /\ rpc # "dial"
    /\ Len(srv) < MaxFrames
    /\ \E k \in Kinds : srv' = Append(srv, k)
    /\ UNCHANGED <<af, ab, readVars, open, writeVars>>

(* The next byte arrives, or both bytes of a header. *)
Arrive ==
    /\ rpc # "dial" /\ open
    /\ af <= Len(srv)
    /\ LET n == ab + (IF af > 0 /\ ab = 0 /\ ~SplitHeaders THEN 2 ELSE 1)
       IN  IF n = Size(af) THEN af' = af + 1 /\ ab' = 0
                           ELSE ab' = n /\ UNCHANGED af
    /\ UNCHANGED <<srv, readVars, open, writeVars>>

(* The bytes of the current unit that wait in the socket. *)
Available == IF cf < af THEN Size(cf) - cb ELSE IF cf = af THEN ab - cb ELSE 0

-----------------------------------------------------------------------------
(* Connect *)

(* TCP, TLS and the upgrade request are through. *)
Dial ==
    /\ rpc = "dial"
    /\ rpc' = "handshake"
    /\ UNCHANGED <<streamVars, cf, cb, late, slow, delivered, open, writeVars>>

(* Any step of Connect fails or times out, or the response is refused: Close, *)
(* return null.                                                               *)
ConnectFails ==
    /\ rpc \in {"dial", "handshake"}
    /\ rpc' = "failed"
    /\ open' = FALSE
    /\ UNCHANGED <<streamVars, cf, cb, late, slow, delivered, writeVars>>

(* The fault: the response is read in blocks, and what came with it is lost. *)
ReadResponseInBlocks ==
    /\ rpc = "handshake"
    /\ Available > 0
    /\ IF cf < af THEN cf' = af /\ cb' = ab /\ rpc' = "out"
                  ELSE cb' = ab /\ UNCHANGED <<cf, rpc>>
    /\ UNCHANGED <<streamVars, late, slow, delivered, open, writeVars>>

(* ReadExact of one byte, until the blank line: a frame that came with the *)
(* response stays in the socket.                                           *)
ReadResponse ==
    /\ rpc = "handshake"
    /\ Available > 0
    /\ IF cb + 1 = Size(cf)
         THEN cf' = cf + 1 /\ cb' = 0 /\ rpc' = "out"
         ELSE cb' = cb + 1 /\ UNCHANGED <<cf, rpc>>
    /\ UNCHANGED <<streamVars, late, slow, delivered, open, writeVars>>

-----------------------------------------------------------------------------
(* Read *)

(* What Read makes of the header of frame k. *)
HeaderRead(k) == DecodeHeader(HeaderSent(k))
Sane(k) == HeaderRead(k).len <= SanityBound

(* How many bytes Read takes for frame k, by the fields it decoded. *)
Wanted(k) == 2 + Rest(HeaderRead(k).mask, HeaderRead(k).len)

(* A Read that starts in the middle of a frame takes payload for a header:  *)
(* from then on anything may come out.                                      *)
Read ==
    /\ rpc = "out"
    /\ rpc' = IF cb = 0 THEN "head" ELSE "garbled"
    /\ late' = FALSE
    /\ UNCHANGED <<streamVars, cf, cb, slow, delivered, open, writeVars>>

(* The poll window ends, the budget of a frame ends. *)
WindowPasses ==
    /\ rpc \in Reading /\ ~late
    /\ late' = TRUE
    /\ UNCHANGED <<streamVars, cf, cb, rpc, slow, delivered, open, writeVars>>

BudgetPasses ==
    /\ rpc = "rest" /\ ~slow
    /\ slow' = TRUE
    /\ UNCHANGED <<streamVars, cf, cb, rpc, late, delivered, open, writeVars>>

(* ReadExact of the header takes what is there of it. *)
ReadHead ==
    /\ rpc = "head" /\ ~late
    /\ Available > 0
    /\ IF cb + Available >= 2
         THEN cb' = 2 /\ rpc' = "rest" /\ slow' = FALSE
         ELSE cb' = cb + Available /\ UNCHANGED <<rpc, slow>>
    /\ UNCHANGED <<streamVars, cf, late, delivered, open, writeVars>>

(* The window ends before the header is complete: Read returns 0, and a byte *)
(* already taken is gone.                                                    *)
ReadHeadTimesOut ==
    /\ rpc = "head" /\ late
    /\ rpc' = "out"
    /\ UNCHANGED <<streamVars, cf, cb, late, slow, delivered, open, writeVars>>

(* The next byte that the decoded length asks for.  Past the end of the     *)
(* frame it is one of the next frame, and the rest of that taken for a header. *)
ReadRest ==
    /\ rpc = "rest" /\ ~slow /\ Sane(cf)
    /\ cb < Wanted(cf)
    /\ IF cb < Size(cf)
         THEN Available > 0 /\ cb' = cb + 1 /\ UNCHANGED rpc
         ELSE rpc' = "garbled" /\ UNCHANGED cb
    /\ UNCHANGED <<streamVars, cf, late, slow, delivered, open, writeVars>>

(* The fault: the rest of a frame has only the poll window, and a Read that *)
(* runs out of it returns 0.                                                *)
ReadRestTimesOut ==
    /\ rpc = "rest" /\ cb < Wanted(cf)
    /\ late \/ ~Sane(cf)
    /\ rpc' = IF Sane(cf) THEN "out" ELSE "failed"
    /\ UNCHANGED <<streamVars, cf, cb, late, slow, delivered, open, writeVars>>

(* The length is beyond the bound, or the budget ends: -1. *)
ReadRestFails ==
    /\ rpc = "rest"
    /\ ~Sane(cf) \/ (slow /\ cb < Wanted(cf))
    /\ rpc' = "failed"
    /\ UNCHANGED <<streamVars, cf, cb, late, slow, delivered, open, writeVars>>

(* Read has what it wanted of the frame: a message is returned, a pong       *)
(* skipped, a ping answered.  Bytes of the frame left over would be taken    *)
(* for the next header.                                                      *)
FrameRead ==
    /\ rpc = "rest" /\ Sane(cf) /\ cb = Wanted(cf)
    /\ IF cb < Size(cf)
         THEN rpc' = "garbled" /\ UNCHANGED <<cf, cb, delivered>>
         ELSE /\ cf' = cf + 1 /\ cb' = 0
              /\ \/ /\ HeaderRead(cf).opcode \notin {Ping, Pong}
                    /\ rpc' = "out" /\ delivered' = Append(delivered, cf)
                 \/ /\ HeaderRead(cf).opcode = Pong
                    /\ rpc' = "head" /\ UNCHANGED delivered
                 \/ /\ HeaderRead(cf).opcode = Ping
                    /\ rpc' = "pong_lock" /\ UNCHANGED delivered
    /\ UNCHANGED <<streamVars, late, slow, open, writeVars>>

(* recv reports the end of the stream or an error. *)
ReadFails ==
    /\ rpc \in {"head", "rest"}
    /\ rpc' = "failed"
    /\ UNCHANGED <<streamVars, cf, cb, late, slow, delivered, open, writeVars>>

-----------------------------------------------------------------------------
(* SendText, SendBinary and the pong *)

(* WriteAll begins, under write_mu_. *)
BeginFrame(t) ==
    /\ wpc' = [wpc EXCEPT ![t] = "sending"]
    /\ left' = [left EXCEPT ![t] = WireSize]
    /\ begun' = begun + 1

Send(t) ==
    /\ t \in Senders /\ wpc[t] = "out"
    /\ rpc \notin {"dial", "handshake"} /\ begun < MaxOut
    /\ wpc' = [wpc EXCEPT ![t] = "lock"]
    /\ UNCHANGED <<streamVars, readVars, open, write_mu, left, begun, out, torn>>

SendLock(t) ==
    /\ t \in Senders /\ wpc[t] = "lock"
    /\ write_mu = NoThread /\ write_mu' = t
    /\ BeginFrame(t)
    /\ UNCHANGED <<streamVars, readVars, open, out, torn>>

(* The fault: the reader writes its pong without the lock. *)
PongUnlocked ==
    /\ rpc = "pong_lock"
    /\ rpc' = "pong"
    /\ BeginFrame(Reader)
    /\ UNCHANGED <<streamVars, cf, cb, late, slow, delivered, open, write_mu,
                   out, torn>>

PongLock ==
    /\ rpc = "pong_lock"
    /\ write_mu = NoThread /\ write_mu' = Reader
    /\ rpc' = "pong"
    /\ BeginFrame(Reader)
    /\ UNCHANGED <<streamVars, cf, cb, late, slow, delivered, open, out, torn>>

(* The socket takes a piece of the frame.  A pong has what is left of the *)
(* poll window.                                                           *)
SendPiece(t) ==
    /\ wpc[t] = "sending" /\ left[t] > 0
    /\ open /\ (t = Reader => ~late)
    /\ left' = [left EXCEPT ![t] = left[t] - 1]
    /\ out' = Append(out, [no |-> begun, left |-> left[t] - 1])
    /\ UNCHANGED <<streamVars, readVars, open, write_mu, wpc, begun, torn>>

(* WriteAll returns and the lock is released; Read goes on after its pong, *)
(* whatever became of it.                                                  *)
EndFrame(t) ==
    /\ wpc' = [wpc EXCEPT ![t] = "out"]
    /\ write_mu' = NoThread
    /\ rpc' = IF t = Reader THEN "head" ELSE rpc
    /\ UNCHANGED <<streamVars, cf, cb, late, slow, delivered, open, left, begun, out>>

SendDone(t) ==
    /\ wpc[t] = "sending" /\ left[t] = 0
    /\ EndFrame(t)
    /\ UNCHANGED torn

(* The fault: an error of the socket is taken for EAGAIN. *)
SendRetries(t) ==
    /\ wpc[t] = "sending" /\ left[t] > 0
    /\ t = Reader /\ late
    /\ EndFrame(t)
    /\ torn' = IF left[t] < WireSize THEN torn \cup {begun} ELSE torn

(* The deadline passes or the socket fails; pieces already sent stay sent. *)
SendFails(t) ==
    /\ wpc[t] = "sending" /\ left[t] > 0
    /\ EndFrame(t)
    /\ torn' = IF left[t] < WireSize THEN torn \cup {begun} ELSE torn

(* Close shuts the socket down. *)
Close ==
    /\ rpc \notin {"dial", "handshake"} /\ open
    /\ open' = FALSE
    /\ UNCHANGED <<streamVars, readVars, writeVars>>

ReadStep ==
    \/ ReadHead \/ ReadHeadTimesOut \/ ReadRest \/ ReadRestFails \/ FrameRead
    \/ PongLock

(* The connection is closed, nobody is in a call. *)
Terminated ==
    /\ ~open /\ rpc \in {"failed", "garbled"}
    /\ \A t \in Threads : wpc[t] = "out"
    /\ UNCHANGED vars

Next ==
    \/ ServerSends \/ Arrive
    \/ Dial \/ ConnectFails \/ ReadResponse
    \/ Read \/ WindowPasses \/ BudgetPasses \/ ReadStep \/ ReadFails
    \/ \E t \in Threads :
          Send(t) \/ SendLock(t) \/ SendPiece(t) \/ SendDone(t) \/ SendFails(t)
    \/ Close
    \/ Terminated

Spec == Init /\ [][Next]_vars

(* The threads run, the clock advances, and a socket that was shut down     *)
(* reports it; no arrival and no progress of the peer is assumed.           *)
FairSpec ==
    /\ Spec
    /\ WF_vars(ReadStep) /\ WF_vars(WindowPasses) /\ WF_vars(BudgetPasses)
    /\ WF_vars(ReadFails /\ ~open /\ Available = 0)
    /\ \A t \in Threads :
          /\ WF_vars(SendLock(t)) /\ WF_vars(SendDone(t))
          /\ WF_vars(SendFails(t) /\ ~open)

-----------------------------------------------------------------------------
(* Properties *)

(* No Read takes bytes from the middle of a frame for a header: a frame that *)
(* has started is consumed completely, by the length decoded from its        *)
(* header, before Read returns, however its bytes arrive and whenever the    *)
(* poll window ends.                                                         *)
Aligned == rpc # "garbled"

(* Read returns the server's messages in order, each once, none lost between *)
(* the upgrade response and the first frame or among pings and pongs.        *)
MessagesDelivered ==
    /\ \A i \in 1..(Len(delivered) - 1) : delivered[i] < delivered[i + 1]
    /\ \A k \in 1..(cf - 1) :
          srv[k].opcode \notin {Ping, Pong}
             <=> \E i \in DOMAIN delivered : delivered[i] = k

(* Once Read has the header of a frame it knows the length the server wrote,  *)
(* whichever of the three forms carries it, has taken all of the header's     *)
(* bytes, and refuses the frame only beyond the bound of 64 MiB: the payload  *)
(* it goes on to read ends where the frame ends.                              *)
LengthsUnderstood ==
    rpc = "rest" =>
        /\ HeaderRead(cf).len = srv[cf].len /\ HeaderRead(cf).mask = srv[cf].mask
        /\ HeaderRead(cf).taken = Len(HeaderSent(cf))
        /\ Sane(cf) <=> srv[cf].len <= 64 * 1024 * 1024

(* The bytes of a frame are never mixed with those of another, the pong that *)
(* the reader writes included; only a frame its sender gave up half way is   *)
(* followed by another before it is complete.                                *)
FramesContiguous ==
    \A i \in 1..(Len(out) - 1) :
        \/ out[i + 1].no = out[i].no /\ out[i + 1].left = out[i].left - 1
        \/ /\ out[i].left = 0 \/ out[i].no \in torn
           /\ out[i + 1].left = WireSize - 1

(* Close unblocks every Read and every send in progress, a reader that waits *)
(* for a blocked sender's lock to write its pong included.                   *)
CloseUnblocks ==
    /\ ~open /\ rpc \in Reading ~> rpc \notin Reading
    /\ \A t \in Senders : ~open /\ wpc[t] # "out" ~> wpc[t] = "out"

-----------------------------------------------------------------------------
(* The inductive invariant. *)

(* The client is never ahead of what arrived, nor that of what was sent. *)
StreamInv ==
    /\ af <= Len(srv) + 1
    /\ af <= Len(srv) => ab < Size(af)
    /\ af = Len(srv) + 1 => ab = 0
    /\ ~SplitHeaders /\ af > 0 => ab # 1
    /\ cf < af \/ (cf = af /\ cb <= ab)

(* Where Read is tells how much of the current frame it has taken. *)
ReadInv ==
    /\ rpc = "dial" => cf = 0 /\ cb = 0
    /\ rpc = "handshake" => cf = 0 /\ cb < ResponseSize
    /\ rpc \in Reading \cup {"out"} => cf > 0
    /\ rpc \in {"head", "out"} => cb < 2
    /\ rpc = "rest" => cf <= Len(srv) /\ 2 <= cb /\ cb <= Size(cf)
    /\ rpc \in {"pong_lock", "pong"} => cb = 0
    /\ ~SplitHeaders /\ rpc \in {"head", "out"} => cb = 0
    /\ ~SplitHeaders => Aligned

DeliverInv ==
    /\ \A i \in DOMAIN delivered : delivered[i] < cf
    /\ cf > 0 => cf - 1 <= Len(srv)
    /\ MessagesDelivered

(* The last piece sent is the unfinished one of the thread that holds the    *)
(* lock, or it ends a frame.                                                 *)
Settled == out # << >> => out[Len(out)].left = 0 \/ out[Len(out)].no \in torn

WriteInv ==
    /\ \A t \in Threads : wpc[t] = "sending" <=> write_mu = t
    /\ rpc = "pong" <=> wpc[Reader] = "sending"
    /\ wpc[Reader] # "lock"
    /\ \A t \in Threads : wpc[t] = "sending" =>
          \/ left[t] = WireSize /\ Settled
          \/ /\ left[t] < WireSize /\ out # << >>
             /\ out[Len(out)] = [no |-> begun, left |-> left[t]]
    /\ write_mu = NoThread => Settled
    /\ FramesContiguous

WsInv == TypeOK /\ StreamInv /\ ReadInv /\ DeliverInv /\ WriteInv
=============================================================================
