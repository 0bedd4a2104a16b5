------------------------------ MODULE Encoding ------------------------------
(***************************************************************************)
(* The text encodings of a request: Base64 for audio in a JSON body, its   *)
(* URL form for a UserSig, and the query string of the v2 stream.  A byte  *)
(* and a character are numbers, a character its ASCII code.                *)
(***************************************************************************)
EXTENDS Integers, Sequences, SequencesExt

Pad == 61           \* =

(* kB64Alphabet: A-Z, a-z, 0-9, +, / *)
Alphabet(v) ==
    IF v < 26 THEN 65 + v ELSE IF v < 52 THEN 71 + v
    ELSE IF v < 62 THEN v - 4 ELSE IF v = 62 THEN 43 ELSE 47

B64Value(c) ==
    IF c \in 65..90 THEN c - 65 ELSE IF c \in 97..122 THEN c - 71
    ELSE IF c \in 48..57 THEN c + 4 ELSE IF c = 43 THEN 62
    ELSE IF c = 47 THEN 63 ELSE -1

-----------------------------------------------------------------------------
(* Base64 *)

(* The four characters of the up to three bytes g. *)
Group(g) ==
    LET at(i) == IF i <= Len(g) THEN g[i] ELSE 0
        v == 65536 * at(1) + 256 * at(2) + at(3)
    IN  << Alphabet(v \div 262144), Alphabet((v \div 4096) % 64),
           IF Len(g) > 1 THEN Alphabet((v \div 64) % 64) ELSE Pad,
           IF Len(g) > 2 THEN Alphabet(v % 64) ELSE Pad >>

Base64Encode(data) ==
    LET lesser(a, b) == IF a < b THEN a ELSE b
    IN  FlattenSeq([k \in 1..((Len(data) + 2) \div 3) |->
                       Group(SubSeq(data, 3 * k - 2, lesser(3 * k, Len(data))))])

(* The last state of an automaton that reads t. *)
Run(Step(_, _), start, t) ==
    LET st[i \in 0..Len(t)] == IF i = 0 THEN start ELSE Step(st[i - 1], t[i])
    IN  st[Len(t)]

(* One character into the accumulator, one byte out when eight bits are      *)
(* there.  Of acc only the low bits + 6 < 14 bits are read again, so keeping *)
(* 24 of its 32 makes no difference.                                         *)
AccSize == 16777216
Shl6Or(x, v) == (64 * x + v) % AccSize
Shr(x, n) == x \div 2^n
DecodeChar(st, c) ==
    LET acc == Shl6Or(st.acc, B64Value(c))
        bits == st.bits + 6
    IN  IF bits < 8 THEN [acc |-> acc, bits |-> bits, out |-> st.out]
        ELSE [acc |-> acc, bits |-> bits - 8,
              out |-> Append(st.out, Shr(acc, bits - 8) % 256)]

(* What Base64Decode looks at, and whether it throws. *)
BeforePad(s) ==
    LET pad == SelectInSeq(s, LAMBDA c : c = Pad)
    IN  IF pad = 0 THEN s ELSE SubSeq(s, 1, pad - 1)
Decodable(s) == \A i \in DOMAIN BeforePad(s) : B64Value(s[i]) >= 0

DecodeStart == [acc |-> 0, bits |-> 0, out |-> << >>]
Base64Decode(s) == Run(DecodeChar, DecodeStart, BeforePad(s)).out

(* + / = as * - _ and back. *)
Base64UrlEncode(data) ==
    LET url(c) == IF c = 43 THEN 42 ELSE IF c = 47 THEN 45 ELSE IF c = Pad THEN 95 ELSE c
        s == Base64Encode(data)
    IN  [i \in DOMAIN s |-> url(s[i])]

Base64UrlDecode(s) ==
    LET std(c) == IF c = 95 THEN Pad ELSE IF c = 45 THEN 47 ELSE IF c = 42 THEN 43 ELSE c
    IN  Base64Decode([i \in DOMAIN s |-> std(s[i])])

-----------------------------------------------------------------------------
(* The query string *)

Amp == 38
Equals == 61

(* kHex *)
Hex(n) == IF n < 10 THEN 48 + n ELSE 55 + n

Unreserved(c) == c \in 65..90 \cup 97..122 \cup 48..57 \cup {45, 95, 46, 126}

(* The fault: the characters of standard Base64 pass unescaped. *)
EscapeCharKeeps(c) ==
    IF Unreserved(c) \/ c \in {43, 47, 61} THEN << c >>
    ELSE IF c = 32 THEN << 43 >> ELSE << 37, Hex(c \div 16), Hex(c % 16) >>

(* A space becomes +, everything else that is not unreserved %XX. *)
EscapeChar(c) ==
    IF Unreserved(c) THEN << c >>
    ELSE IF c = 32 THEN << 43 >> ELSE << 37, Hex(c \div 16), Hex(c % 16) >>

QueryEscape(s) == FlattenSeq([i \in DOMAIN s |-> EscapeChar(s[i])])

(* k=v&k=v..., params in the order of std::map. *)
BuildQueryString(params) ==
    FlattenSeq([i \in DOMAIN params |->
        (IF i > 1 THEN << Amp >> ELSE << >>)
        \o params[i].key \o << Equals >> \o QueryEscape(params[i].value)])

(* What the gateway makes of a query: cut at &, at the first = of a piece, *)
(* and unescape.  After a % two digits are due.                            *)
UnHex(c) == IF c < 65 THEN c - 48 ELSE c - 55
UnescapeChar(st, c) ==
    IF st.due = 2 THEN [due |-> 1, high |-> UnHex(c), out |-> st.out]
    ELSE IF st.due = 1
    THEN [due |-> 0, high |-> 0, out |-> Append(st.out, 16 * st.high + UnHex(c))]
    ELSE IF c = 37 THEN [due |-> 2, high |-> 0, out |-> st.out]
    ELSE [due |-> 0, high |-> 0, out |-> Append(st.out, IF c = 43 THEN 32 ELSE c)]
UnescapeStart == [due |-> 0, high |-> 0, out |-> << >>]
Unescape(s) == Run(UnescapeChar, UnescapeStart, s).out

(* The pieces of q between the &s. *)
CutChar(st, c) ==
    IF c = Amp THEN [done |-> Append(st.done, st.last), last |-> << >>]
    ELSE [done |-> st.done, last |-> Append(st.last, c)]
CutStart == [done |-> << >>, last |-> << >>]
Pieces(q) == LET st == Run(CutChar, CutStart, q) IN Append(st.done, st.last)

ParseParam(p) ==
    LET eq == SelectInSeq(p, LAMBDA c : c = Equals)
    IN  [key |-> SubSeq(p, 1, eq - 1), value |-> Unescape(SubSeq(p, eq + 1, Len(p)))]

ParseQuery(q) ==
    LET pieces == Pieces(q)
    IN  [k \in DOMAIN pieces |-> ParseParam(pieces[k])]
=============================================================================
