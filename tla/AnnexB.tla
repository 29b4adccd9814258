------------------------------- MODULE AnnexB -------------------------------
(* The byte stream of Annex B: writeAnnexBAccessUnit puts a start code before *)
(* every NAL unit, _byteStreamNALUnit takes them apart again, and the decoder *)
(* reads ahead through the same file: isNewPicture and isNewAccessUnit read   *)
(* whole NAL units and put the file back to where they started.  What they    *)
(* must allow for are the bytes InputByteStream holds back.                   *)
(* A step is one pass of a loop of the reader, or one call.                   *)
EXTENDS Integers, Sequences

CONSTANTS Units,    \* NAL units, as sequences of bytes
          MaxUnits, \* bound: the NAL units written
          MaxZeros  \* bound: the zero bytes before a start code

\* What NalUnit!NoStartCode shows of every NAL unit the encoder writes.
ASSUME UnitsAssumption ==
  /\ MaxUnits \in Nat /\ MaxZeros \in Nat
  /\ \A u \in Units :
       /\ u \in Seq(0..255) /\ Len(u) >= 2 /\ u[Len(u)] # 0
       /\ \A i \in 1..Len(u) - 2 : ~(u[i] = 0 /\ u[i+1] = 0 /\ u[i+2] <= 2)

VARIABLES file,    \* the bytes of the bitstream file
          units,   \* ghost: the NAL units written, in order
          stage,   \* "write", "loop", or where the reader is: "lead", "body", "trail", "end"
          caller,  \* who reads: "decode", "isNewPicture", "isNewAccessUnit"
          in,      \* the file position, the bytes held back, eofbit
          nal,     \* the bytes of the NAL unit being read
          location,\* where the look-ahead puts the file back to
          fresh,   \* a NAL unit was read since isNewPicture was called last
          got      \* the NAL units DecApp::decode read, in order

vars == <<file, units, stage, caller, in, nal, location, fresh, got>>

(* ---------------------------- InputByteStream ------------------------------- *)

\* eofBeforeNBytes: hold n bytes, or all there are and then eofbit is set.
Fill(i, n) ==
  LET m == n - Len(i.held)
      some == IF m <= Len(file) - i.at THEN m ELSE Len(file) - i.at
  IN IF m <= 0 THEN i
     ELSE [at |-> i.at + some,
           held |-> i.held \o SubSeq(file, i.at + 1, i.at + some),
           eof |-> i.eof \/ some < m]

\* peekBytes(n) = v, where v is given by its bytes, unless the file ends before.
Peeks(i, v) == LET h == Fill(i, Len(v)).held
               IN Len(h) >= Len(v) /\ SubSeq(h, 1, Len(v)) = v

ReadByte(i) == [Fill(i, 1) EXCEPT !.held = Tail(@)]
NoByte(i)   == Fill(i, 1).held = <<>>

Short == <<0, 0, 1>>
Long  == <<0, 0, 0, 1>>

\* The condition both zero loops stop at, and what evaluating it has buffered.
AtStartCode(i) == Peeks(i, Short) \/ Peeks(Fill(i, 3), Long)
Looked(i) == IF Peeks(i, Short) THEN Fill(i, 3) ELSE Fill(Fill(i, 3), 4)

(* --------------------------------- writer ----------------------------------- *)

\* The first NAL unit of an access unit, and parameter sets, get the long code.
\* This encoder puts no zero bytes before it, the format allows any number.
WriteUnit(u, useLongStartCode, zeros) ==
  /\ stage = "write"
  /\ Len(units) < MaxUnits
  /\ file' = file \o [k \in 1..zeros |-> 0] \o (IF useLongStartCode THEN Long ELSE Short) \o u
  /\ units' = Append(units, u)
  /\ UNCHANGED <<stage, caller, in, nal, location, fresh, got>>

Open == /\ stage = "write"
        /\ units # <<>>
        /\ stage' = "loop"
        /\ UNCHANGED <<file, units, caller, in, nal, location, fresh, got>>

(* --------------------------- _byteStreamNALUnit ----------------------------- *)

\* An exception ends the reading: byteStreamNALUnit returns TRUE.
Step(i, s) == in' = i /\ stage' = s
Throw(i)   == in' = i /\ stage' = "end"
Kept == UNCHANGED <<file, units, caller, location, fresh, got>>

\* A byte that is not zero makes the reader throw, as the end of the file does.
LeadingZero ==
  /\ stage = "lead" /\ ~AtStartCode(in)
  /\ LET i == Looked(in)
     IN IF NoByte(i) THEN Throw(i)
        ELSE IF Fill(i, 1).held[1] = 0 THEN Step(ReadByte(i), "lead")
        ELSE Throw(ReadByte(i))
  /\ UNCHANGED nal /\ Kept

StartCode ==
  /\ stage = "lead" /\ AtStartCode(in)
  /\ LET i == Looked(in)
         h == IF Peeks(i, Short) THEN i ELSE ReadByte(i)
     IN Step(ReadByte(ReadByte(ReadByte(h))), "body")
  /\ UNCHANGED nal /\ Kept

AtUnitEnd(i) == \E b \in 0..2 : Peeks(i, <<0, 0, b>>)

BodyByte ==
  /\ stage = "body" /\ ~AtUnitEnd(in)
  /\ LET i == Fill(in, 3)
     IN IF NoByte(i) THEN Throw(i) /\ UNCHANGED nal
        ELSE Step(ReadByte(i), "body") /\ nal' = Append(nal, i.held[1])
  /\ Kept

EndBody == /\ stage = "body" /\ AtUnitEnd(in)
           /\ Step(Fill(in, 3), "trail")
           /\ UNCHANGED nal /\ Kept

TrailingZero ==
  /\ stage = "trail" /\ ~AtStartCode(in)
  /\ LET i == Looked(in)
     IN IF NoByte(i) THEN Throw(i)
        ELSE IF Fill(i, 1).held[1] = 0 THEN Step(ReadByte(i), "trail")
        ELSE Throw(ReadByte(i))
  /\ UNCHANGED nal /\ Kept

EndTrail == /\ stage = "trail" /\ AtStartCode(in)
            /\ in' = Looked(in) /\ stage' = "end"
            /\ UNCHANGED nal /\ Kept

(* ------------------------- the callers of the reader ------------------------- *)

Begin(who) == stage' = "lead" /\ caller' = who /\ nal' = <<>>

\* One turn of the loop of DecApp::decode that reads a NAL unit.
Decode == /\ stage = "loop" /\ ~in.eof
          /\ Begin("decode")
          /\ UNCHANGED <<file, units, in, location, fresh, got>>

Decoded == /\ stage = "end" /\ caller = "decode"
           /\ got' = Append(got, nal)
           /\ fresh' = TRUE
           /\ stage' = "loop"
           /\ UNCHANGED <<file, units, caller, in, nal, location>>

\* isNewPicture looks ahead only with a slice decoded since the last new picture
\* (m_bFirstSliceInPicture), so a NAL unit was read since it was called last
\* (DecoderLoop!LookAheadFresh).
IsNewPicture == /\ stage = "loop" /\ ~in.eof /\ fresh
                /\ Begin("isNewPicture")
                /\ location' = in.at
                /\ fresh' = FALSE
                /\ UNCHANGED <<file, units, in, got>>

\* The NAL unit read decides nothing and the file has not ended: read the next.
LookFurther == /\ stage = "end" /\ caller # "decode" /\ ~in.eof
               /\ Begin(caller)
               /\ UNCHANGED <<file, units, in, location, fresh, got>>

Restored(to) == [at |-> to, held |-> <<>>, eof |-> FALSE]

BackToNoLookAhead == location  \* a slip: the bytes held back are forgotten

\* The position of the file lies behind the bytes that were held back.
BackTo == IF caller = "isNewPicture" THEN location - 3 ELSE location

\* Not a new picture: the loop reads the NAL unit.
SamePicture == /\ stage = "end" /\ caller = "isNewPicture"
               /\ in' = Restored(BackTo)
               /\ stage' = "loop"
               /\ UNCHANGED <<file, units, caller, nal, location, fresh, got>>

\* A new picture: isNewAccessUnit reads the same NAL units once more.
NewPicture == /\ stage = "end" /\ caller = "isNewPicture"
              /\ in' = Restored(BackTo)
              /\ location' = BackTo
              /\ Begin("isNewAccessUnit")
              /\ UNCHANGED <<file, units, fresh, got>>

EndNewAccessUnit == /\ stage = "end" /\ caller = "isNewAccessUnit"
                    /\ in' = Restored(BackTo)
                    /\ stage' = "loop"
                    /\ UNCHANGED <<file, units, caller, nal, location, fresh, got>>

(* ------------------------------- specification ------------------------------- *)

Init == /\ file = <<>> /\ units = <<>>
        /\ stage = "write" /\ caller = "decode"
        /\ in = [at |-> 0, held |-> <<>>, eof |-> FALSE]
        /\ nal = <<>> /\ location = 0
        /\ fresh = FALSE /\ got = <<>>

Next == \/ \E u \in Units, useLongStartCode \in BOOLEAN, zeros \in 0..MaxZeros :
              WriteUnit(u, useLongStartCode, zeros)
        \/ Open
        \/ LeadingZero \/ StartCode \/ BodyByte \/ EndBody \/ TrailingZero \/ EndTrail
        \/ Decode \/ Decoded
        \/ IsNewPicture \/ LookFurther \/ SamePicture \/ NewPicture \/ EndNewAccessUnit

Spec == Init /\ [][Next]_vars

(* -------------------------------- properties -------------------------------- *)

\* DecApp::decode reads the NAL units that were written, in their order, whatever
\* was looked at ahead of them and whichever start code each of them has; its loop
\* ends with eofbit only behind the last one, also when a look-ahead had reached the
\* end of the file before.
ReadInOrder == /\ Len(got) <= Len(units)
               /\ \A k \in 1..Len(got) : got[k] = units[k]
               /\ stage = "loop" /\ in.eof => got = units

=============================================================================
