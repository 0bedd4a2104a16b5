--------------------------- MODULE WsClientProofs ---------------------------
(***************************************************************************)
(* The WebSocket client assembles and writes whole frames, for any frames  *)
(* of the server, any number of senders and any sizes.  StreamInv and      *)
(* ReadInv say how far the client may be in the server's stream at each    *)
(* control point of Read; WriteInv says whose frame the last piece sent    *)
(* belongs to.                                                             *)
(***************************************************************************)
EXTENDS WsClient, TLAPS

-----------------------------------------------------------------------------
(* The frame codec: a frame that EncodeWsFrame writes is the frame that Read *)
(* takes apart, for every opcode, every length of 64 bits, every payload and *)
(* every key.                                                                *)

(* A number is made of its low byte and the rest. *)
LEMMA ByteSplit ==
  ASSUME NEW x \in Nat
  PROVE  /\ Shr8(x) \in Nat /\ Low8(x) \in 0..255
         /\ x = 256 * Shr8(x) + Low8(x)
  BY DEF Shr8, Low8

LEMMA OneByte ==
  ASSUME NEW x \in Nat, x < 256
  PROVE  Low8(x) = x
  BY DEF Low8

(* The eight bytes of a length and the length they stand for. *)
LEMMA Ext64Value ==
  ASSUME NEW len \in Nat, Fits64(len), NEW a, NEW b
  PROVE  LET w == << a, b >> \o Ext64(len)
         IN  Len(w) = 10 /\ w[1] = a /\ w[2] = b /\ Value64(w) = len
  <1> SUFFICES ASSUME NEW w, w = << a, b >> \o Ext64(len)
               PROVE  Len(w) = 10 /\ w[1] = a /\ w[2] = b /\ Value64(w) = len
    OBVIOUS
  <1> DEFINE s1 == Shr8(len)  s2 == Shr8(s1)  s3 == Shr8(s2)  s4 == Shr8(s3)
             s5 == Shr8(s4)   s6 == Shr8(s5)  s7 == Shr8(s6)
             c1 == Low8(s7)   c2 == Low8(s6)  c3 == Low8(s5)  c4 == Low8(s4)
             c5 == Low8(s3)   c6 == Low8(s2)  c7 == Low8(s1)  c8 == Low8(len)
  <1>1. Ext64(len) = << c1, c2, c3, c4, c5, c6, c7, c8 >>
    BY DEF Ext64
  <1>2. s7 < 256
    BY DEF Fits64
  <1> HIDE DEF s1, s2, s3, s4, s5, s6, s7
  <1>3. s1 \in Nat /\ c8 \in 0..255 /\ len = 256 * s1 + c8
    BY ByteSplit DEF s1
  <1>4. s2 \in Nat /\ c7 \in 0..255 /\ s1 = 256 * s2 + c7
    BY <1>3, ByteSplit DEF s2
  <1>5. s3 \in Nat /\ c6 \in 0..255 /\ s2 = 256 * s3 + c6
    BY <1>4, ByteSplit DEF s3
  <1>6. s4 \in Nat /\ c5 \in 0..255 /\ s3 = 256 * s4 + c5
    BY <1>5, ByteSplit DEF s4
  <1>7. s5 \in Nat /\ c4 \in 0..255 /\ s4 = 256 * s5 + c4
    BY <1>6, ByteSplit DEF s5
  <1>8. s6 \in Nat /\ c3 \in 0..255 /\ s5 = 256 * s6 + c3
    BY <1>7, ByteSplit DEF s6
  <1>9. s7 \in Nat /\ c2 \in 0..255 /\ s6 = 256 * s7 + c2
    BY <1>8, ByteSplit DEF s7
  <1>10. c1 = s7
    BY <1>2, <1>9, OneByte
  <1> HIDE DEF c1, c2, c3, c4, c5, c6, c7, c8
  <1>11. /\ Len(w) = 10 /\ w[1] = a /\ w[2] = b
         /\ w[3] = c1 /\ w[4] = c2 /\ w[5] = c3 /\ w[6] = c4
         /\ w[7] = c5 /\ w[8] = c6 /\ w[9] = c7 /\ w[10] = c8
    BY <1>1, SMTT(60)
  <1>12. Value64(w) = len
    <2>1. Value16(w) = s6
      BY <1>9, <1>10, <1>11, SMTT(60) DEF Value16
    <2>2. s5 = 256 * s6 + w[5]
      BY <1>8, <1>11
    <2>3. s4 = 256 * s5 + w[6]
      BY <1>7, <1>11
    <2>4. s3 = 256 * s4 + w[7]
      BY <1>6, <1>11
    <2>5. s2 = 256 * s3 + w[8]
      BY <1>5, <1>11
    <2>6. s1 = 256 * s2 + w[9]
      BY <1>4, <1>11
    <2>7. len = 256 * s1 + w[10]
      BY <1>3, <1>11
    <2> QED
      BY <2>1, <2>2, <2>3, <2>4, <2>5, <2>6, <2>7, ZenonT(60) DEF Value64
  <1> QED
    BY <1>11, <1>12

(* The fields that a header was written for, and its size. *)
Written(opcode, len, mask) ==
    [fin |-> 128, opcode |-> opcode, mask |-> mask, len |-> len,
     taken |-> Len(EncodeHeader(opcode, len, mask))]

(* Read finds in the header that EncodeWsFrame writes the opcode, the mask   *)
(* bit and the length it was written for, and takes exactly its bytes: the   *)
(* seven-bit, the 16-bit and the 64-bit form are told apart for every length *)
(* a uint64_t can hold.                                                      *)
THEOREM HeaderCodec ==
  ASSUME NEW opcode \in 0..15, NEW len \in Nat, Fits64(len), NEW mask \in {0, 128}
  PROVE  DecodeHeader(EncodeHeader(opcode, len, mask)) = Written(opcode, len, mask)
  <1> DEFINE w == EncodeHeader(opcode, len, mask)
             first == 128 + opcode
             header == [fin |-> 128, opcode |-> opcode, mask |-> mask,
                        len |-> len, taken |-> Len(w)]
  <1> SUFFICES DecodeHeader(w) = header
    BY DEF Written
  <1>1. 128 * (first \div 128) = 128 /\ first % 16 = opcode
    OBVIOUS
  <1>2. ASSUME NEW n \in 0..127
        PROVE  (mask + n) % 128 = n /\ 128 * ((mask + n) \div 128) = mask
    OBVIOUS
  <1>3. CASE len < 126
    <2>1. w = << first, mask + len >>
      BY <1>3 DEF EncodeHeader
    <2>2. Len(w) = 2 /\ w[1] = first /\ w[2] = mask + len
      BY <2>1
    <2>3. w[2] % 128 = len /\ 128 * (w[2] \div 128) = mask
      BY <1>2, <1>3, <2>2
    <2>4. ExtSize(w[2]) = 0
      BY <1>3, <2>3 DEF ExtSize
    <2> HIDE DEF w
    <2> QED
      BY <1>1, <2>2, <2>3, <2>4 DEF DecodeHeader, HeaderLength
  <1>4. CASE len >= 126 /\ len <= 65535
    <2>1. w = << first, mask + 126, Low8(Shr8(len)), Low8(len) >>
      BY <1>4 DEF EncodeHeader
    <2>2. /\ Len(w) = 4 /\ w[1] = first /\ w[2] = mask + 126
          /\ w[3] = Low8(Shr8(len)) /\ w[4] = Low8(len)
      BY <2>1
    <2>3. w[2] % 128 = 126 /\ 128 * (w[2] \div 128) = mask
      BY <1>2, <2>2
    <2>4. ExtSize(w[2]) = 2
      BY <2>3 DEF ExtSize
    <2>5. Value16(w) = len
      <3>1. Shr8(len) \in Nat /\ Low8(len) \in 0..255 /\ len = 256 * Shr8(len) + Low8(len)
        BY ByteSplit
      <3>2. Shr8(len) < 256
        BY <1>4, <3>1
      <3>3. Low8(Shr8(len)) = Shr8(len)
        BY <3>1, <3>2 DEF Low8
      <3> HIDE DEF w
      <3> QED
        BY <2>2, <3>1, <3>3 DEF Value16
    <2> HIDE DEF w
    <2> QED
      BY <1>1, <2>2, <2>3, <2>4, <2>5 DEF DecodeHeader, HeaderLength
  <1>5. CASE len > 65535
    <2>1. w = << first, mask + 127 >> \o Ext64(len)
      BY <1>5 DEF EncodeHeader
    <2>2. Len(w) = 10 /\ w[1] = first /\ w[2] = mask + 127 /\ Value64(w) = len
      <3> DEFINE second == mask + 127
      <3>1. w = << first, second >> \o Ext64(len)
        BY <2>1
      <3> HIDE DEF w, first, second
      <3>2. LET v == << first, second >> \o Ext64(len)
            IN  Len(v) = 10 /\ v[1] = first /\ v[2] = second /\ Value64(v) = len
        BY Ext64Value, Zenon
      <3> QED
        BY <3>1, <3>2 DEF second
    <2> HIDE DEF w
    <2>3. w[2] % 128 = 127 /\ 128 * (w[2] \div 128) = mask
      BY <1>2, <2>2
    <2>4. ExtSize(w[2]) = 8
      BY <2>3 DEF ExtSize
    <2> QED
      BY <1>1, <2>2, <2>3, <2>4 DEF DecodeHeader, HeaderLength
  <1> QED
    BY <1>3, <1>4, <1>5

(* The payload that the peer unmasks is the payload that was masked, for     *)
(* every payload and key, wherever in the key the payload ends.              *)
THEOREM PayloadCodec ==
  ASSUME NEW payload \in Seq(SUBSET Bits), NEW key \in [1..4 -> SUBSET Bits]
  PROVE  UnmaskPayload(MaskPayload(payload, key), key) = payload
  <1> DEFINE masked == MaskPayload(payload, key)
  <1>1. Len(payload) \in Nat /\ payload \in [1..Len(payload) -> SUBSET Bits]
    OBVIOUS
  <1>2. ASSUME NEW i \in 1..Len(payload)
        PROVE  key[((i - 1) % 4) + 1] \in SUBSET Bits
    <2>1. ((i - 1) % 4) + 1 \in 1..4
      BY <1>1
    <2> QED
      BY <2>1
  <1>3. masked \in Seq(SUBSET Bits) /\ Len(masked) = Len(payload)
    <2>1. \A i \in 1..Len(payload) :
             Xor(payload[i], key[((i - 1) % 4) + 1]) \in SUBSET Bits
      BY <1>1, <1>2 DEF Xor
    <2> QED
      BY <1>1, <2>1 DEF MaskPayload
  <1>4. ASSUME NEW i \in 1..Len(payload)
        PROVE  Xor(masked[i], key[((i - 1) % 4) + 1]) = payload[i]
    <2>1. masked[i] = Xor(payload[i], key[((i - 1) % 4) + 1])
      BY DEF MaskPayload
    <2>2. \A a, b : Xor(Xor(a, b), b) = a
      BY DEF Xor
    <2> HIDE DEF masked
    <2> QED
      BY <2>1, <2>2
  <1>5. UnmaskPayload(masked, key) = [i \in 1..Len(payload) |-> payload[i]]
    <2> HIDE DEF masked
    <2> QED
      BY <1>3, <1>4 DEF UnmaskPayload
  <1> QED
    BY <1>1, <1>5

-----------------------------------------------------------------------------
(* The client *)

USE WsThreads, WsKinds, WsSizes DEF streamVars, readVars, writeVars

(* A frame of the server and its fields. *)
LEMMA KindFields ==
  ASSUME TypeOK, NEW k \in 1..Len(srv)
  PROVE  /\ srv[k].opcode \in 0..15 /\ srv[k].mask \in {0, 128}
         /\ srv[k].len \in Nat /\ Fits64(srv[k].len)
         /\ Rest(srv[k].mask, srv[k].len) \in Nat
  <1>1. srv[k] \in Kinds
    BY DEF TypeOK
  <1>2. Rest(srv[k].mask, srv[k].len) \in Nat
    BY <1>1, WsRest
  <1> QED
    BY <1>1, <1>2 DEF KindType

(* Read makes of a header what the server wrote. *)
LEMMA HeaderFields ==
  ASSUME TypeOK, NEW k \in 1..Len(srv)
  PROVE  HeaderRead(k) = [fin |-> 128, opcode |-> srv[k].opcode,
                          mask |-> srv[k].mask, len |-> srv[k].len,
                          taken |-> Len(HeaderSent(k))]
  <1> DEFINE opcode == srv[k].opcode  mask == srv[k].mask  len == srv[k].len
             sent == EncodeHeader(opcode, len, mask)
  <1>1. opcode \in 0..15 /\ mask \in {0, 128} /\ len \in Nat /\ Fits64(len)
    BY KindFields
  <1> HIDE DEF opcode, mask, len
  <1>2. DecodeHeader(sent) = Written(opcode, len, mask)
    BY <1>1, HeaderCodec, ZenonT(60)
  <1> QED
    BY <1>2 DEF HeaderRead, HeaderSent, Written, opcode, mask, len

(* So Read takes as many bytes of a frame as the frame has. *)
LEMMA WantedIsSize ==
  ASSUME TypeOK, NEW k \in 1..Len(srv)
  PROVE  Wanted(k) = Size(k)
  <1>1. k # 0
    BY DEF TypeOK
  <1>2. HeaderRead(k).mask = srv[k].mask /\ HeaderRead(k).len = srv[k].len
    BY HeaderFields
  <1> QED
    BY <1>1, <1>2 DEF Wanted, Size

(* What Append does to a sequence. *)
LEMMA AppendFacts ==
  ASSUME NEW S, NEW s \in Seq(S), NEW e \in S
  PROVE  /\ Len(s) \in Nat /\ DOMAIN s = 1..Len(s)
         /\ Len(Append(s, e)) = Len(s) + 1
         /\ DOMAIN Append(s, e) = 1..(Len(s) + 1)
         /\ \A i \in 1..Len(s) : Append(s, e)[i] = s[i]
         /\ Append(s, e)[Len(s) + 1] = e
         /\ Append(s, e) # << >>
  OBVIOUS

LEMMA DeliveredFacts ==
  ASSUME TypeOK
  PROVE  /\ Len(delivered) \in Nat /\ DOMAIN delivered = 1..Len(delivered)
         /\ \A i \in DOMAIN delivered : delivered[i] \in Nat
         /\ cf \in Nat /\ Len(srv) \in Nat
  BY DEF TypeOK

(* A unit of the stream has a size, and a frame at least a header. *)
LEMMA SizeType ==
  ASSUME TypeOK, NEW k \in Nat, k <= Len(srv)
  PROVE  Size(k) \in Nat \ {0} /\ (k > 0 => Size(k) >= 2)
  <1>1. CASE k = 0
    BY <1>1 DEF Size
  <1>2. CASE k > 0
    BY <1>2, KindFields DEF Size, TypeOK
  <1> QED
    BY <1>1, <1>2

LEMMA InitWsInv == Init => WsInv
  <1> SUFFICES ASSUME Init PROVE WsInv
    OBVIOUS
  <1> USE DEF Init
  <1>1. late \in BOOLEAN /\ slow \in BOOLEAN /\ open \in BOOLEAN
    OBVIOUS
  <1>2. TypeOK
    BY <1>1 DEF TypeOK, Threads
  <1>3. StreamInv /\ ReadInv
    BY DEF StreamInv, ReadInv, Reading, Size, Aligned
  <1>4. DeliverInv
    BY DEF DeliverInv, MessagesDelivered
  <1>5. WriteInv
    BY DEF WriteInv, Settled, FramesContiguous, Threads
  <1> QED
    BY <1>2, <1>3, <1>4, <1>5 DEF WsInv

-----------------------------------------------------------------------------
(* Reading *)

(* The steps of the network and of Connect, Read and its timeouts; PongLock, *)
(* SendDone and SendFails are with the writing steps.                        *)
ReadingStep ==
    \/ ServerSends \/ Arrive \/ Dial \/ ConnectFails \/ ReadResponse
    \/ Read \/ WindowPasses \/ BudgetPasses \/ ReadHead \/ ReadHeadTimesOut
    \/ ReadRest \/ ReadRestFails \/ FrameRead \/ ReadFails

WritingStep ==
    \/ PongLock
    \/ \E t \in Threads :
          Send(t) \/ SendLock(t) \/ SendPiece(t) \/ SendDone(t) \/ SendFails(t)

(* No frame is read past its end, and none is left with bytes to read. *)
LEMMA FrameEnds ==
  ASSUME WsInv, rpc = "rest"
  PROVE  /\ cf \in 1..Len(srv) /\ Size(cf) \in Nat
         /\ Wanted(cf) = Size(cf) /\ cb \in Nat /\ cb <= Size(cf)
  <1>1. cf \in 1..Len(srv)
    BY DEF WsInv, TypeOK, ReadInv, Reading
  <1> QED
    BY <1>1, WantedIsSize, SizeType DEF WsInv, TypeOK, ReadInv

(* What is left of ReadRest and FrameRead then. *)
TakesByte ==
    /\ rpc = "rest" /\ cb < Size(cf) /\ Available > 0
    /\ cb' = cb + 1
    /\ UNCHANGED <<streamVars, cf, rpc, late, slow, delivered, open, writeVars>>

TakesFrame ==
    /\ rpc = "rest" /\ cb = Size(cf)
    /\ cf' = cf + 1 /\ cb' = 0
    /\ \/ /\ HeaderRead(cf).opcode \notin {Ping, Pong}
          /\ rpc' = "out" /\ delivered' = Append(delivered, cf)
       \/ /\ HeaderRead(cf).opcode = Pong
          /\ rpc' = "head" /\ UNCHANGED delivered
       \/ /\ HeaderRead(cf).opcode = Ping
          /\ rpc' = "pong_lock" /\ UNCHANGED delivered
    /\ UNCHANGED <<streamVars, late, slow, open, writeVars>>

LEMMA FrameSteps ==
  ASSUME WsInv
  PROVE  (ReadRest => TakesByte) /\ (FrameRead => TakesFrame)
  BY FrameEnds DEF ReadRest, FrameRead, TakesByte, TakesFrame

LEMMA ReadingType ==
  ASSUME WsInv, ReadingStep
  PROVE  TypeOK'
  <1>0. (ReadRest => TakesByte) /\ (FrameRead => TakesFrame)
    BY FrameSteps
  <1> USE DEF WsInv, TypeOK, Reading
  <1>1. CASE ServerSends
    BY <1>1 DEF ServerSends
  <1>2. CASE Arrive
    BY <1>2 DEF Arrive
  <1>3. CASE Dial
    BY <1>3 DEF Dial
  <1>4. CASE ConnectFails
    <2>1. open' \in BOOLEAN
      BY <1>4 DEF ConnectFails
    <2> QED
      BY <1>4, <2>1 DEF ConnectFails
  <1>5. CASE ReadResponse
    BY <1>5 DEF ReadResponse
  <1>6. CASE Read
    <2>1. late' \in BOOLEAN
      BY <1>6 DEF Read
    <2> QED
      BY <1>6, <2>1 DEF Read
  <1>7. CASE WindowPasses
    <2>1. late' \in BOOLEAN
      BY <1>7 DEF WindowPasses
    <2> QED
      BY <1>7, <2>1 DEF WindowPasses
  <1>8. CASE BudgetPasses
    <2>1. slow' \in BOOLEAN
      BY <1>8 DEF BudgetPasses
    <2> QED
      BY <1>8, <2>1 DEF BudgetPasses
  <1>9. CASE ReadHead
    <2>1. slow' \in BOOLEAN
      BY <1>9 DEF ReadHead
    <2>2. Available \in Int /\ Available > 0 => cb' \in Nat
      BY <1>9 DEF ReadHead
    <2>3. Available \in Int
      <3>1. CASE cf < af
        <4>1. Size(cf) \in Nat
          BY <3>1, SizeType DEF StreamInv
        <4> QED
          BY <3>1, <4>1 DEF Available
      <3>2. CASE ~(cf < af)
        BY <3>2 DEF Available
      <3> QED
        BY <3>1, <3>2
    <2> QED
      BY <1>9, <2>1, <2>2, <2>3 DEF ReadHead
  <1>10. CASE ReadHeadTimesOut
    BY <1>10 DEF ReadHeadTimesOut
  <1>11. CASE ReadRest
    <2>1. TakesByte
      BY <1>11, <1>0
    <2> QED
      BY <2>1 DEF TakesByte
  <1>12. CASE ReadRestFails
    BY <1>12 DEF ReadRestFails
  <1>13. CASE FrameRead
    <2>1. delivered' \in Seq(Nat)
      <3>1. delivered' = Append(delivered, cf) \/ delivered' = delivered
        BY <1>13, <1>0 DEF TakesFrame
      <3>2. cf \in Nat /\ delivered \in Seq(Nat)
        OBVIOUS
      <3>3. Append(delivered, cf) \in Seq(Nat)
        BY ONLY <3>2
      <3> QED
        BY ONLY <3>1, <3>2, <3>3
    <2>2. rpc' \in {"out", "head", "pong_lock"} /\ cf' \in Nat /\ cb' \in Nat
      BY <1>13, <1>0 DEF TakesFrame
    <2>3. UNCHANGED <<srv, af, ab, late, slow, open, write_mu, wpc, left, begun,
                     out, torn>>
      BY <1>13, <1>0 DEF TakesFrame
    <2> QED
      BY <2>1, <2>2, <2>3
  <1>14. CASE ReadFails
    BY <1>14 DEF ReadFails
  <1> QED
    BY <1>1, <1>2, <1>3, <1>4, <1>5, <1>6, <1>7, <1>8, <1>9, <1>10, <1>11,
       <1>12, <1>13, <1>14 DEF ReadingStep

(* Appending a frame leaves the sizes of the earlier units alone. *)
LEMMA SizeStable ==
  ASSUME TypeOK, ServerSends, NEW k \in Nat, k <= Len(srv)
  PROVE  Size(k)' = Size(k)
  BY DEF TypeOK, ServerSends, Size

LEMMA ReadingStream ==
  ASSUME WsInv, ReadingStep
  PROVE  StreamInv' /\ ReadInv'
  <1>0. (ReadRest => TakesByte) /\ (FrameRead => TakesFrame)
    BY FrameSteps
  <1> USE DEF WsInv, TypeOK, StreamInv, ReadInv, Reading, Aligned
  <1>1. CASE ServerSends
    <2>1. Len(srv') = Len(srv) + 1 /\ rpc # "dial"
      BY <1>1 DEF ServerSends
    <2>2. \A k \in Nat : k <= Len(srv) => Size(k)' = Size(k)
      BY <1>1, SizeStable
    <2>3. TypeOK'
      BY <1>1, ReadingType DEF ReadingStep
    <2>4. \A k \in Nat : k <= Len(srv) + 1 => Size(k)' \in Nat \ {0}
      <3> SUFFICES ASSUME NEW k \in Nat, k <= Len(srv) + 1 PROVE Size(k)' \in Nat \ {0}
        OBVIOUS
      <3>1. CASE k <= Len(srv)
        BY <3>1, <2>2, SizeType
      <3>2. CASE k = Len(srv) + 1
        <4>1. srv'[k] \in Kinds /\ k # 0
          BY <3>2, <1>1 DEF ServerSends
        <4>2. Rest(srv'[k].mask, srv'[k].len) \in Nat
          BY <4>1, WsRest
        <4> QED
          BY <4>1, <4>2 DEF Size
      <3> QED
        BY <3>1, <3>2
    <2>5. UNCHANGED <<af, ab, cf, cb, rpc>>
      BY <1>1 DEF ServerSends
    <2>6. StreamInv'
      BY <2>1, <2>2, <2>4, <2>5
    <2>7. ReadInv'
      BY <2>1, <2>2, <2>5
    <2> QED
      BY <2>6, <2>7
  <1>2. CASE Arrive
    <2>1. Size(af) \in Nat \ {0} /\ (af > 0 => Size(af) >= 2)
      BY <1>2, SizeType DEF Arrive
    <2>2. af + 1 <= Len(srv) => Size(af + 1) \in Nat \ {0}
      BY SizeType
    <2>3. \A k \in Nat : Size(k)' = Size(k)
      BY <1>2 DEF Arrive, Size
    <2>4. ReadInv'
      BY <1>2, <2>3 DEF Arrive
    <2> DEFINE n == ab + (IF af > 0 /\ ab = 0 /\ ~SplitHeaders THEN 2 ELSE 1)
    <2>5. n \in Nat /\ n > ab /\ n <= Size(af)
      BY <1>2, <2>1 DEF Arrive
    <2>6. CASE n = Size(af)
      <3>1. af' = af + 1 /\ ab' = 0 /\ UNCHANGED <<srv, cf, cb>>
        BY <1>2, <2>6 DEF Arrive
      <3>2. af <= Len(srv)
        BY <1>2 DEF Arrive
      <3>3. Size(af)' = Size(af + 1)
        BY <3>1 DEF Size
      <3>4. StreamInv'
        BY <2>2, <3>1, <3>2, <3>3
      <3> QED
        BY <2>4, <3>4
    <2>7. CASE n # Size(af)
      <3>1. ab' = n /\ UNCHANGED <<af, srv, cf, cb>>
        BY <1>2, <2>7 DEF Arrive
      <3>2. ~SplitHeaders /\ af > 0 => n # 1
        BY <2>5
      <3>3. Size(af)' = Size(af) /\ af <= Len(srv)
        BY <1>2, <3>1 DEF Size, Arrive
      <3>4. StreamInv'
        BY <2>1, <2>5, <2>7, <3>1, <3>2, <3>3
      <3> QED
        BY <2>4, <3>4
    <2> QED
      BY <2>6, <2>7
  <1>3. CASE Dial \/ ConnectFails
    BY <1>3 DEF Dial, ConnectFails, Size
  <1>4. CASE ReadResponse
    <2>1. cf = 0 /\ Size(cf) = ResponseSize
      BY <1>4 DEF ReadResponse, Size
    <2>2. cf < af \/ cb + 1 <= ab
      BY <1>4, <2>1 DEF ReadResponse, Available
    <2>3. \A k \in Nat : Size(k)' = Size(k)
      BY <1>4 DEF ReadResponse, Size
    <2>4. cb + 1 = Size(cf) => cf < af
      BY <2>1, <2>2
    <2>5. CASE cb + 1 = Size(cf)
      BY <1>4, <2>1, <2>3, <2>4, <2>5 DEF ReadResponse
    <2>6. CASE cb + 1 # Size(cf)
      BY <1>4, <2>1, <2>2, <2>3, <2>6 DEF ReadResponse
    <2> QED
      BY <2>5, <2>6
  <1>5. CASE Read
    BY <1>5 DEF Read, Size
  <1>6. CASE WindowPasses \/ BudgetPasses \/ ReadHeadTimesOut \/ ReadFails
    BY <1>6 DEF WindowPasses, BudgetPasses, ReadHeadTimesOut, ReadFails, Size
  <1>7. CASE ReadHead
    <2>1. cf > 0 /\ cf <= Len(srv)
      BY <1>7 DEF ReadHead, Available
    <2>2. Size(cf) \in Nat /\ Size(cf) >= 2
      BY <2>1, SizeType
    <2>3. \A k \in Nat : Size(k)' = Size(k)
      BY <1>7 DEF ReadHead, Size
    <2>4. CASE cf < af
      <3>1. cb + Available = Size(cf)
        BY <2>2, <2>4 DEF Available
      <3> QED
        BY <1>7, <2>1, <2>2, <2>3, <2>4, <3>1 DEF ReadHead
    <2>5. CASE cf = af
      <3>1. cb + Available = ab /\ ab > 0
        BY <1>7, <2>5 DEF Available, ReadHead
      <3> QED
        BY <1>7, <2>1, <2>2, <2>3, <2>5, <3>1 DEF ReadHead
    <2> QED
      BY <2>4, <2>5
  <1>8. CASE ReadRest
    <2>1. Size(cf) \in Nat
      BY <1>8, SizeType DEF ReadRest
    <2>2. cf < af \/ cb + 1 <= ab
      BY <1>8, <1>0 DEF TakesByte, Available
    <2>3. \A k \in Nat : Size(k)' = Size(k)
      BY <1>8, <1>0 DEF TakesByte, Size
    <2> QED
      BY <1>8, <1>0, <2>1, <2>2, <2>3 DEF TakesByte
  <1>9. CASE ReadRestFails
    BY <1>9 DEF ReadRestFails, Size
  <1>10. CASE FrameRead
    <2>1. Size(cf) \in Nat /\ cf <= Len(srv)
      BY <1>10, SizeType DEF FrameRead
    <2>2. cf < af
      BY <1>10, <1>0, <2>1 DEF TakesFrame
    <2>3. \A k \in Nat : Size(k)' = Size(k)
      BY <1>10, <1>0 DEF TakesFrame, Size
    <2> QED
      BY <1>10, <1>0, <2>1, <2>2, <2>3 DEF TakesFrame
  <1> QED
    BY <1>1, <1>2, <1>3, <1>4, <1>5, <1>6, <1>7, <1>8, <1>9, <1>10
       DEF ReadingStep

(* What Read has returned: FrameRead alone delivers, and only the next frame. *)
LEMMA ReadingDeliver ==
  ASSUME WsInv, ReadingStep
  PROVE  DeliverInv'
  <1>0. (ReadRest => TakesByte) /\ (FrameRead => TakesFrame)
    BY FrameSteps
  <1> USE DeliveredFacts DEF WsInv, DeliverInv, MessagesDelivered
  <1>1. CASE ServerSends
    <2>1. /\ Len(srv') = Len(srv) + 1
          /\ \A k \in 1..Len(srv) : srv'[k] = srv[k]
          /\ UNCHANGED <<cf, delivered>>
      BY <1>1 DEF ServerSends, TypeOK
    <2>2. \A k \in 1..(cf - 1) : srv'[k] = srv[k]
      BY <2>1
    <2> QED
      BY <2>1, <2>2, SMTT(60)
  <1>2. CASE ReadResponse
    <2>1. cf = 0 /\ cf' \in {0, 1} /\ UNCHANGED <<srv, delivered>>
      BY <1>2 DEF ReadResponse, ReadInv
    <2>2. DOMAIN delivered = {} /\ Len(delivered) = 0
      BY <2>1
    <2>3. \A i \in DOMAIN delivered' : delivered'[i] < cf'
      BY <2>1, <2>2
    <2>4. cf' > 0 => cf' - 1 <= Len(srv')
      BY <2>1
    <2>5. \A k \in 1..(cf' - 1) : FALSE
      <3>1. CASE cf' = 0
        BY <3>1, SMT
      <3>2. CASE cf' = 1
        BY <3>2, SMT
      <3> QED
        BY <2>1, <3>1, <3>2
    <2>6. \A i \in 1..(Len(delivered') - 1) : FALSE
      <3>1. Len(delivered') = 0
        BY ONLY <2>1, <2>2
      <3> QED
        BY ONLY <3>1
    <2> QED
      BY <2>3, <2>4, <2>5, <2>6
  <1>3. CASE FrameRead
    <2>1. cf > 0 /\ cf <= Len(srv) /\ cf' = cf + 1 /\ UNCHANGED srv
      BY <1>3, <1>0 DEF TakesFrame, FrameRead, ReadInv, Reading
    <2> DEFINE Message(k) == srv[k].opcode \notin {Ping, Pong}
    <2>2. HeaderRead(cf).opcode = srv[cf].opcode
      BY <2>1, HeaderFields
    <2>3. CASE Message(cf)
      <3>1. delivered' = Append(delivered, cf)
        BY <1>3, <1>0, <2>3, <2>2 DEF TakesFrame
      <3>2. /\ Len(delivered') = Len(delivered) + 1
            /\ DOMAIN delivered' = 1..(Len(delivered) + 1)
            /\ \A i \in DOMAIN delivered : delivered'[i] = delivered[i]
            /\ delivered'[Len(delivered) + 1] = cf
        BY <3>1, AppendFacts DEF TypeOK
      <3>3. \A i \in DOMAIN delivered' : delivered'[i] < cf'
        BY <2>1, <3>2
      <3>4. \A i \in 1..(Len(delivered') - 1) : delivered'[i] < delivered'[i + 1]
        BY <3>2
      <3>5. \A k \in 1..(cf' - 1) :
               srv'[k].opcode \notin {Ping, Pong}
                  <=> \E i \in DOMAIN delivered' : delivered'[i] = k
        <4> SUFFICES ASSUME NEW k \in 1..(cf' - 1)
                     PROVE  Message(k)
                              <=> \E i \in DOMAIN delivered' : delivered'[i] = k
          BY <2>1
        <4>1. CASE k = cf
          BY <4>1, <2>3, <3>2, SMTT(60)
        <4>2. CASE k # cf
          <5>1. k \in 1..(cf - 1)
            BY <4>2, <2>1
          <5>2. (\E i \in DOMAIN delivered' : delivered'[i] = k)
                  <=> \E i \in DOMAIN delivered : delivered[i] = k
            BY <4>2, <3>2, SMTT(60)
          <5> QED
            BY <5>1, <5>2
        <4> QED
          BY <4>1, <4>2
      <3>6. cf' > 0 => cf' - 1 <= Len(srv')
        BY <2>1
      <3> QED
        BY <3>3, <3>4, <3>5, <3>6
    <2>4. CASE ~Message(cf)
      <3>1. UNCHANGED delivered
        BY <1>3, <1>0, <2>4, <2>2 DEF TakesFrame
      <3>2. \A i \in DOMAIN delivered : delivered[i] # cf
        OBVIOUS
      <3> QED
        BY <2>1, <2>4, <3>1, <3>2
    <2> QED
      BY <2>3, <2>4
  <1>4. CASE \/ Arrive \/ Dial \/ ConnectFails \/ Read \/ WindowPasses
            \/ BudgetPasses \/ ReadHead \/ ReadHeadTimesOut \/ ReadRest
            \/ ReadRestFails \/ ReadFails
    <2>1. UNCHANGED <<srv, cf, delivered>>
      BY <1>4 DEF Arrive, Dial, ConnectFails, Read, WindowPasses, BudgetPasses,
                  ReadHead, ReadHeadTimesOut, ReadRest, ReadRestFails, ReadFails
    <2> QED
      BY <2>1
  <1> QED
    BY <1>1, <1>2, <1>3, <1>4 DEF ReadingStep

(* A reading step leaves the writing side alone and is none of the pong. *)
LEMMA ReadingWrite ==
  ASSUME WsInv, ReadingStep
  PROVE  WriteInv'
  <1>1. /\ UNCHANGED writeVars
        /\ rpc' = rpc \/ (rpc # "pong" /\ rpc' # "pong")
    BY DEF ReadingStep, ServerSends, Arrive, Dial, ConnectFails, ReadResponse,
           Read, WindowPasses, BudgetPasses, ReadHead, ReadHeadTimesOut,
           ReadRest, ReadRestFails, FrameRead, ReadFails
  <1> QED
    BY <1>1 DEF WsInv, WriteInv, Settled, FramesContiguous

-----------------------------------------------------------------------------
(* Writing *)

LEMMA WritingType ==
  ASSUME WsInv, WritingStep
  PROVE  TypeOK'
  <1> USE DEF WsInv, TypeOK, Reading, BeginFrame, EndFrame, Threads
  <1>1. CASE PongLock
    BY <1>1 DEF PongLock
  <1>2. ASSUME NEW t \in Threads, Send(t) PROVE TypeOK'
    BY <1>2 DEF Send
  <1>3. ASSUME NEW t \in Threads, SendLock(t) PROVE TypeOK'
    BY <1>3 DEF SendLock
  <1>4. ASSUME NEW t \in Threads, SendPiece(t) PROVE TypeOK'
    <2>1. left[t] - 1 \in Nat
      BY <1>4 DEF SendPiece
    <2>2. out' \in Seq(Piece)
      <3>1. [no |-> begun, left |-> left[t] - 1] \in Piece
        BY <2>1 DEF Piece
      <3>2. out \in Seq(Piece)
              /\ out' = Append(out, [no |-> begun, left |-> left[t] - 1])
        BY <1>4 DEF SendPiece
      <3> QED
        BY ONLY <3>1, <3>2
    <2>3. left' \in [Threads -> Nat]
      BY <1>4, <2>1 DEF SendPiece
    <2>4. UNCHANGED <<streamVars, readVars, open, write_mu, wpc, begun, torn>>
      BY <1>4 DEF SendPiece
    <2> QED
      BY <2>2, <2>3, <2>4
  <1>5. ASSUME NEW t \in Threads, SendDone(t) PROVE TypeOK'
    BY <1>5 DEF SendDone
  <1>6. ASSUME NEW t \in Threads, SendFails(t) PROVE TypeOK'
    BY <1>6 DEF SendFails
  <1> QED
    BY <1>1, <1>2, <1>3, <1>4, <1>5, <1>6 DEF WritingStep

(* A writing step moves the reader only into and out of its pong, where no  *)
(* frame is half read.                                                      *)
LEMMA WritingRead ==
  ASSUME WsInv, WritingStep
  PROVE  StreamInv' /\ ReadInv' /\ DeliverInv'
  <1>1. UNCHANGED <<srv, af, ab, cf, cb, delivered>>
    BY DEF WritingStep, PongLock, Send, SendLock, SendPiece, SendDone, SendFails,
           BeginFrame, EndFrame
  <1>2. \/ rpc' = rpc
        \/ rpc = "pong_lock" /\ rpc' = "pong"
        \/ rpc = "pong" /\ rpc' = "head"
    <2>1. CASE PongLock
      BY <2>1 DEF PongLock
    <2>2. ASSUME NEW t \in Threads, Send(t) \/ SendLock(t) \/ SendPiece(t)
          PROVE  rpc' = rpc
      BY <2>2 DEF Send, SendLock, SendPiece
    <2>3. ASSUME NEW t \in Threads, SendDone(t) \/ SendFails(t)
          PROVE  rpc' = rpc \/ (rpc = "pong" /\ rpc' = "head")
      BY <2>3 DEF SendDone, SendFails, EndFrame, WsInv, WriteInv
    <2> QED
      BY <2>1, <2>2, <2>3 DEF WritingStep
  <1>3. StreamInv'
    BY <1>1 DEF WsInv, StreamInv, Size
  <1>4. ReadInv'
    BY <1>1, <1>2 DEF WsInv, ReadInv, Reading, Aligned, Size
  <1>5. DeliverInv'
    BY <1>1 DEF WsInv, DeliverInv, MessagesDelivered
  <1> QED
    BY <1>3, <1>4, <1>5

(* The lock holder's pieces extend its own frame; a frame begins after one   *)
(* that ended.                                                               *)
LEMMA WritingWrite ==
  ASSUME WsInv, WritingStep
  PROVE  WriteInv'
  <1> USE DEF WsInv, TypeOK, WriteInv, Threads
  <1>1. ASSUME NEW t \in Threads, wpc[t] = "sending"
        PROVE  /\ left[t] \in Nat /\ left[t] <= WireSize
               /\ left[t] = WireSize => Settled
               /\ left[t] # WireSize =>
                     /\ out # << >>
                     /\ out[Len(out)] = [no |-> begun, left |-> left[t]]
    <2>1. left[t] \in Nat
      OBVIOUS
    <2>2. \/ left[t] = WireSize /\ Settled
          \/ /\ left[t] < WireSize /\ out # << >>
             /\ out[Len(out)] = [no |-> begun, left |-> left[t]]
      BY <1>1
    <2> QED
      BY ONLY <2>1, <2>2, WsSizes
  <1>2. ASSUME NEW t \in Threads, write_mu = NoThread, write_mu' = t, BeginFrame(t),
               UNCHANGED <<out, torn>>,
               rpc' = "pong" <=> t = Reader
        PROVE  WriteInv'
    <2>1. Settled
      BY <1>2
    <2>2. Settled' /\ FramesContiguous'
      BY <1>2, <2>1 DEF Settled, FramesContiguous
    <2>3. \A u \in Threads : wpc'[u] = "sending" <=> write_mu' = u
      BY <1>2 DEF BeginFrame
    <2>4. left'[t] = WireSize
      BY <1>2 DEF BeginFrame
    <2>5. wpc'[Reader] # "lock" /\ (rpc' = "pong" <=> wpc'[Reader] = "sending")
      BY <1>2, <2>3 DEF BeginFrame
    <2> QED
      BY <1>2, <2>2, <2>3, <2>4, <2>5
  <1>3. CASE PongLock
    BY <1>2, <1>3 DEF PongLock
  <1>4. ASSUME NEW t \in Threads, SendLock(t) PROVE WriteInv'
    <2>1. t # Reader /\ rpc # "pong" /\ rpc' = rpc
      BY <1>4 DEF SendLock
    <2> QED
      BY <1>2, <1>4, <2>1 DEF SendLock
  <1>5. ASSUME NEW t \in Threads, Send(t) PROVE WriteInv'
    <2>1. UNCHANGED <<out, torn, begun, left, write_mu, rpc>>
      BY <1>5 DEF Send
    <2>2. Settled' = Settled /\ FramesContiguous'
      BY <2>1 DEF Settled, FramesContiguous
    <2>3. /\ \A u \in Threads : wpc'[u] = "sending" <=> wpc[u] = "sending"
          /\ wpc'[Reader] = wpc[Reader]
      BY <1>5 DEF Send
    <2> QED
      BY <2>1, <2>2, <2>3
  <1>6. ASSUME NEW t \in Threads, SendPiece(t) PROVE WriteInv'
    <2>1. /\ write_mu = t /\ left[t] > 0
          /\ UNCHANGED <<write_mu, wpc, begun, torn, rpc>>
          /\ left' = [left EXCEPT ![t] = left[t] - 1]
          /\ out' = Append(out, [no |-> begun, left |-> left[t] - 1])
      BY <1>6 DEF SendPiece
    <2>2. /\ Len(out') = Len(out) + 1 /\ Len(out) \in Nat
          /\ \A i \in 1..Len(out) : out'[i] = out[i]
          /\ out'[Len(out) + 1] = [no |-> begun, left |-> left[t] - 1]
          /\ out' # << >>
      <3>1. [no |-> begun, left |-> left[t] - 1] \in Piece /\ out \in Seq(Piece)
        BY <2>1 DEF Piece
      <3> QED
        BY ONLY <2>1, <3>1, AppendFacts
    <2>3. left'[t] = left[t] - 1 /\ left'[t] < WireSize
      <3>1. wpc[t] = "sending" /\ left[t] \in Nat
        BY <1>6 DEF SendPiece
      <3>2. left[t] <= WireSize
        BY <3>1, <1>1
      <3>3. left'[t] = left[t] - 1
        BY <2>1
      <3> QED
        BY ONLY <3>1, <3>2, <3>3, WsSizes
    <2>4. \/ left[t] = WireSize /\ Settled
          \/ out # << >> /\ out[Len(out)] = [no |-> begun, left |-> left[t]]
      BY <1>6, <1>1 DEF SendPiece
    <2>5. FramesContiguous'
      <3> SUFFICES ASSUME NEW i \in 1..(Len(out') - 1)
                   PROVE  \/ /\ out'[i + 1].no = out'[i].no
                             /\ out'[i + 1].left = out'[i].left - 1
                          \/ /\ out'[i].left = 0 \/ out'[i].no \in torn
                             /\ out'[i + 1].left = WireSize - 1
        BY <2>1 DEF FramesContiguous
      <3>1. CASE i < Len(out)
        <4>1. i \in 1..(Len(out) - 1) /\ out'[i] = out[i] /\ out'[i + 1] = out[i + 1]
          BY <3>1, <2>2
        <4>2. FramesContiguous
          OBVIOUS
        <4> QED
          BY ONLY <4>1, <4>2 DEF FramesContiguous
      <3>2. CASE i = Len(out)
        <4>1. out # << >> /\ out'[i] = out[Len(out)]
          BY <3>2, <2>2
        <4>2. CASE left[t] = WireSize /\ Settled
          BY <4>1, <4>2, <3>2, <2>2 DEF Settled
        <4>3. CASE out[Len(out)] = [no |-> begun, left |-> left[t]]
          BY <4>1, <4>3, <3>2, <2>2
        <4> QED
          BY <2>4, <4>2, <4>3
      <3> QED
        BY <3>1, <3>2, <2>2
    <2>6. \A u \in Threads : wpc'[u] = "sending" => u = t
      BY <2>1
    <2>7. out'[Len(out')] = [no |-> begun', left |-> left'[t]]
      BY <2>1, <2>2, <2>3
    <2> QED
      BY <2>1, <2>2, <2>3, <2>5, <2>6, <2>7
  <1>7. ASSUME NEW t \in Threads, EndFrame(t), wpc[t] = "sending",
               torn \subseteq torn', Settled'
        PROVE  WriteInv'
    <2>1. /\ wpc' = [wpc EXCEPT ![t] = "out"] /\ write_mu' = NoThread
          /\ UNCHANGED <<out, begun, left>>
          /\ rpc' = IF t = Reader THEN "head" ELSE rpc
      BY <1>7 DEF EndFrame
    <2>2. FramesContiguous'
      BY <1>7, <2>1 DEF FramesContiguous
    <2>3. \A u \in Threads : wpc'[u] # "sending"
      BY <1>7, <2>1
    <2>4. wpc'[Reader] # "lock" /\ rpc' # "pong"
      BY <1>7, <2>1
    <2> QED
      BY <1>7, <2>1, <2>2, <2>3, <2>4
  <1>8. ASSUME NEW t \in Threads, SendDone(t) PROVE WriteInv'
    <2>1. wpc[t] = "sending" /\ left[t] = 0 /\ UNCHANGED <<out, torn>>
      BY <1>8 DEF SendDone, EndFrame
    <2>2. out # << >> /\ out[Len(out)] = [no |-> begun, left |-> left[t]]
      BY <1>1, <2>1
    <2>3. Settled'
      BY ONLY <2>1, <2>2 DEF Settled
    <2> QED
      BY <1>7, <1>8, <2>3 DEF SendDone
  <1>9. ASSUME NEW t \in Threads, SendFails(t) PROVE WriteInv'
    <2>1. UNCHANGED out
      BY <1>9 DEF SendFails, EndFrame
    <2>2. CASE left[t] = WireSize
      <3>1. Settled /\ torn' = torn
        <4>1. wpc[t] = "sending" /\ ~(left[t] < WireSize)
          BY <1>9, <2>2 DEF SendFails
        <4> QED
          BY <1>1, <1>9, <2>2, <4>1 DEF SendFails
      <3>2. Settled'
        BY <2>1, <3>1 DEF Settled
      <3> QED
        BY <1>7, <1>9, <3>1, <3>2 DEF SendFails
    <2>3. CASE left[t] # WireSize
      <3>1. /\ out # << >> /\ out[Len(out)] = [no |-> begun, left |-> left[t]]
            /\ torn' = torn \cup {begun}
        <4>1. wpc[t] = "sending"
          BY <1>9 DEF SendFails
        <4>2. left[t] < WireSize
          BY <1>1, <2>3, <4>1
        <4> QED
          BY <1>1, <1>9, <2>3, <4>1, <4>2 DEF SendFails
      <3>2. Settled'
        BY <2>1, <3>1 DEF Settled
      <3>3. torn \subseteq torn'
        BY <3>1
      <3> QED
        BY <1>7, <1>9, <3>2, <3>3 DEF SendFails
    <2> QED
      BY <2>2, <2>3
  <1> QED
    BY <1>3, <1>4, <1>5, <1>6, <1>8, <1>9 DEF WritingStep

-----------------------------------------------------------------------------
(* The theorems *)

LEMMA NextWsInv == WsInv /\ [Next]_vars => WsInv'
  <1> SUFFICES ASSUME WsInv, [Next]_vars PROVE WsInv'
    OBVIOUS
  <1>1. CASE ReadingStep
    BY <1>1, ReadingType, ReadingStream, ReadingDeliver, ReadingWrite DEF WsInv
  <1>2. CASE WritingStep
    BY <1>2, WritingType, WritingRead, WritingWrite DEF WsInv
  <1>3. CASE Close \/ Terminated \/ UNCHANGED vars
    <2>1. UNCHANGED <<streamVars, readVars, writeVars>> /\ open' \in BOOLEAN
      BY <1>3 DEF Close, Terminated, vars, WsInv, TypeOK
    <2>2. TypeOK' /\ StreamInv' /\ ReadInv'
      BY <2>1 DEF WsInv, TypeOK, StreamInv, ReadInv, Aligned, Size
    <2>3. DeliverInv' /\ WriteInv'
      BY <2>1 DEF WsInv, DeliverInv, MessagesDelivered, WriteInv, Settled,
                  FramesContiguous
    <2> QED
      BY <2>2, <2>3 DEF WsInv
  <1> QED
    BY <1>1, <1>2, <1>3 DEF Next, ReadStep, ReadingStep, WritingStep

(* The inductive invariant holds of every behaviour of the client. *)
THEOREM WsInvariance == Spec => []WsInv
  <1>1. Init => WsInv
    BY InitWsInv
  <1> QED
    BY <1>1, NextWsInv, PTL DEF Spec

(* If the two bytes of a header arrive together, Read never loses its place: *)
(* the rest of a frame may come in any pieces and the poll window may end    *)
(* anywhere.  Only a header that is split across the end of a window, which  *)
(* Read does not guard against, can garble the stream.                       *)
THEOREM AlignedHolds == Spec => [](SplitHeaders \/ Aligned)
  <1>1. WsInv => SplitHeaders \/ Aligned
    BY DEF WsInv, ReadInv
  <1> QED
    BY <1>1, WsInvariance, PTL

(* Read returns the messages of the server in order, each once. *)
THEOREM MessagesDeliveredHolds == Spec => []MessagesDelivered
  <1>1. WsInv => MessagesDelivered
    BY DEF WsInv, DeliverInv
  <1> QED
    BY <1>1, WsInvariance, PTL

(* For every frame the server may send, of any length that eight bytes hold,  *)
(* Read knows its length from its header and refuses it only beyond 64 MiB.   *)
THEOREM LengthsUnderstoodHolds == Spec => []LengthsUnderstood
  <1>1. WsInv => LengthsUnderstood
    <2> SUFFICES ASSUME WsInv, rpc = "rest" PROVE LengthsUnderstood
      BY DEF LengthsUnderstood
    <2>1. TypeOK /\ cf \in 1..Len(srv)
      BY DEF WsInv, ReadInv, TypeOK, Reading
    <2>2. HeaderRead(cf) = [fin |-> 128, opcode |-> srv[cf].opcode,
                            mask |-> srv[cf].mask, len |-> srv[cf].len,
                            taken |-> Len(HeaderSent(cf))]
      BY <2>1, HeaderFields
    <2> QED
      BY <2>2 DEF LengthsUnderstood, Sane, SanityBound
  <1> QED
    BY <1>1, WsInvariance, PTL

(* write_mu_ keeps the frames of the senders and the reader's pongs apart. *)
THEOREM FramesContiguousHolds == Spec => []FramesContiguous
  <1>1. WsInv => FramesContiguous
    BY DEF WsInv, WriteInv
  <1> QED
    BY <1>1, WsInvariance, PTL
=============================================================================
