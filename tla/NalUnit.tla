------------------------------- MODULE NalUnit -------------------------------
(* One NAL unit: writeNaluContent puts the bytes of an RBSP out with emulation *)
(* prevention bytes, cabac_zero_word_padding adds zero words behind them, and  *)
(* convertPayloadToRBSP takes all of that away again.  A step is one pass of   *)
(* the loop of the writer or of the reader.                                    *)
EXTENDS Integers, Sequences

CONSTANTS Bytes,     \* the bytes an RBSP is made of
          Headers,   \* the NAL unit headers, two bytes each
          MaxBytes,  \* bound: the bytes of header and RBSP
          MaxWords   \* bound: the cabac_zero_words added

\* nuh_temporal_id_plus1 is not 0, so the second byte of a header is not either.
ASSUME NalAssumption ==
  /\ Bytes \subseteq 0..255
  /\ Headers \subseteq (0..255) \X (1..255)
  /\ MaxBytes \in Nat /\ MaxWords \in Nat

VARIABLES phase,   \* "write", "pad", "read", "done"
          rbsp,    \* the header and the RBSP bytes given to the writer
          words,   \* the cabac_zero_words added
          w,       \* the writer: the bytes of the NAL unit, its zeroCount
          r,       \* the reader: it_read, zeroCount, the bytes behind it_write,
                   \* the emulation prevention locations, whether a CHECK failed
          place    \* ghost: where each byte of rbsp and zero words stands in the NAL unit

vars == <<phase, rbsp, words, w, r, place>>

(* ---------------------------------- writer ---------------------------------- *)

PutByteKeepsCount(u, v) == \* a slip: zeroCount goes on after the inserted byte
  IF u.zeroCount = 2 /\ v <= 3
  THEN [nal |-> u.nal \o <<3, v>>, zeroCount |-> IF v = 0 THEN u.zeroCount + 1 ELSE 0]
  ELSE [nal |-> Append(u.nal, v), zeroCount |-> IF v = 0 THEN u.zeroCount + 1 ELSE 0]

PutByteBelowThree(u, v) == \* a slip: a byte 3 of the RBSP is not protected
  IF u.zeroCount = 2 /\ v < 3
  THEN [nal |-> u.nal \o <<3, v>>, zeroCount |-> IF v = 0 THEN 1 ELSE 0]
  ELSE [nal |-> Append(u.nal, v), zeroCount |-> IF v = 0 THEN u.zeroCount + 1 ELSE 0]

PutByte(u, v) ==
  IF u.zeroCount = 2 /\ v <= 3
  THEN [nal |-> u.nal \o <<3, v>>, zeroCount |-> IF v = 0 THEN 1 ELSE 0]
  ELSE [nal |-> Append(u.nal, v), zeroCount |-> IF v = 0 THEN u.zeroCount + 1 ELSE 0]

EndContent(u) == IF u.zeroCount > 0 THEN Append(u.nal, 3) ELSE u.nal

(* ---------------------------------- reader ---------------------------------- *)

Reader == [at |-> 0, zeroCount |-> 0, payload |-> <<>>, locations |-> <<>>, thrown |-> FALSE]

Take(q, v, to) ==
  [q EXCEPT !.at = to, !.zeroCount = IF v = 0 THEN q.zeroCount + 1 ELSE 0,
            !.payload = Append(@, v)]

\* A byte 3 after two zero bytes is skipped and its location kept; the byte behind
\* it, if there is one, is taken in the same pass.
GetByte(s, q) ==
  LET v == s[q.at + 1]
      skip == q.zeroCount = 2 /\ v = 3
      skipped == [q EXCEPT !.zeroCount = 0, !.locations = Append(@, q.at)]
  IN CASE q.zeroCount >= 2 /\ v < 3 -> [q EXCEPT !.thrown = TRUE]
       [] skip /\ q.at + 2 > Len(s) -> [skipped EXCEPT !.at = @ + 1]
       [] skip /\ q.at + 2 <= Len(s) ->
            IF s[q.at + 2] > 3 THEN [q EXCEPT !.thrown = TRUE]
            ELSE Take(skipped, s[q.at + 2], q.at + 2)
       [] OTHER -> Take(q, v, q.at + 1)

LastNonZero(s) == CHOOSE n \in 0..Len(s) : /\ n > 0 => s[n] # 0
                                           /\ \A i \in n + 1..Len(s) : s[i] = 0

\* Behind the last byte: no zero may be pending, and the zero words are removed.
EndPayload(q) ==
  IF q.zeroCount # 0 THEN [q EXCEPT !.thrown = TRUE]
  ELSE [q EXCEPT !.payload = SubSeq(@, 1, LastNonZero(@))]

(* ------------------------------- specification ------------------------------- *)

Init == /\ phase = "write"
        /\ rbsp \in Headers
        /\ words = 0
        /\ w = [nal |-> rbsp, zeroCount |-> 0]
        /\ r = Reader
        /\ place = <<1, 2>>

WriteByte(v) ==
  /\ phase = "write"
  /\ Len(rbsp) < MaxBytes
  /\ rbsp' = Append(rbsp, v)
  /\ w' = PutByte(w, v)
  /\ place' = Append(place, Len(w'.nal))
  /\ UNCHANGED <<phase, words, r>>

\* Every RBSP ends in the byte with its stop bit.
EndNalUnit ==
  /\ phase = "write"
  /\ rbsp[Len(rbsp)] # 0
  /\ phase' = "pad"
  /\ w' = [w EXCEPT !.nal = EndContent(w)]
  /\ UNCHANGED <<rbsp, words, r, place>>

\* One word of cabac_zero_word_padding, already with its emulation prevention.
PadZeroWord ==
  /\ phase = "pad"
  /\ words < MaxWords
  /\ words' = words + 1
  /\ w' = [w EXCEPT !.nal = @ \o <<0, 0, 3>>]
  /\ place' = place \o <<Len(w.nal) + 1, Len(w.nal) + 2>>
  /\ UNCHANGED <<phase, rbsp, r>>

Deliver ==
  /\ phase = "pad"
  /\ phase' = "read"
  /\ UNCHANGED <<rbsp, words, w, r, place>>

ReadByte ==
  /\ phase = "read"
  /\ r.at < Len(w.nal)
  /\ ~r.thrown
  /\ r' = GetByte(w.nal, r)
  /\ UNCHANGED <<phase, rbsp, words, w, place>>

EndRead ==
  /\ phase = "read"
  /\ r.at = Len(w.nal)
  /\ ~r.thrown
  /\ r' = EndPayload(r)
  /\ phase' = "done"
  /\ UNCHANGED <<rbsp, words, w, place>>

Next == \/ \E v \in Bytes : WriteByte(v)
        \/ EndNalUnit \/ PadZeroWord \/ Deliver \/ ReadByte \/ EndRead

Spec == Init /\ [][Next]_vars

(* -------------------------------- properties -------------------------------- *)

Byte == 0..255
ReaderType == [at : Nat, zeroCount : Nat, payload : Seq(Byte), locations : Seq(Nat), thrown : BOOLEAN]

\* Writer and reader hold bytes, and the counter of the writer stops at 2.
TypeOK ==
  /\ phase \in {"write", "pad", "read", "done"}
  /\ rbsp \in Seq(Byte)
  /\ words \in Nat
  /\ w \in [nal : Seq(Byte), zeroCount : 0..2]
  /\ r \in ReaderType
  /\ place \in Seq(Nat)

\* What a start code is told by never stands in a NAL unit: no 000000, 000001 or
\* 000002 at any place, and no zero byte at its end (the rule writeNaluContent
\* quotes from 7.4.1; the loop of _byteStreamNALUnit relies on it).
NoStartCode ==
  /\ \A i \in 1..Len(w.nal) - 2 : ~(w.nal[i] = 0 /\ w.nal[i+1] = 0 /\ w.nal[i+2] <= 2)
  /\ phase # "write" => w.nal[Len(w.nal)] # 0

\* The reader accepts every NAL unit the writer makes: none of the CHECKs of
\* convertPayloadToRBSP fails.
Accepted == ~r.thrown

\* The reader ends with the bytes given to the writer, the zero words removed.
ReadsBack == phase = "done" => r.payload = rbsp

\* The locations kept for the entry points are those of the bytes passed so far
\* that are no byte of the RBSP, in their order.
LocationsExact ==
  /\ {r.locations[k] : k \in 1..Len(r.locations)}
       = {x \in 0..r.at - 1 : \A i \in 1..Len(place) : place[i] # x + 1}
  /\ \A k \in 1..Len(r.locations) - 1 : r.locations[k] < r.locations[k+1]
=============================================================================
