--------------------------- MODULE MCDecoderOrder ---------------------------
(* Every conforming stream of NumPics one-slice pictures, up to two of the POCs *)
(* of a sequence apart: IDR, CRA, RASL and trailing pictures in every decoding  *)
(* order and with every choice of kept references.                             *)
EXTENDS MCDecoderLoop

NumPics == 5
MaxPoc  == 3
NumReorderPics == 2
DecBuffering   == 3

\* The POC of the IDR pictures: those behind them have other high bits.
FirstPoc == 2 ^ PocBits - 2

CvsStart(ps) == Max({k \in 1..Len(ps) : ps[k].nut = "IDR"})

\* The last IRAP picture: leading pictures (RASL) follow it before any other does, and
\* are output behind all that came before it; the others keep nothing older than it.
LastIrap(ps) == Max({k \in 1..Len(ps) : ps[k].nut \in {"IDR", "CRA"}})

Extensions(ps) ==
  LET k == Len(ps) + 1
      start == CvsStart(ps)
      irap == LastIrap(ps)
      live == Last(ps).keep \cup {k - 1}
      used == {ps[j].poc : j \in start..(k - 1)}
      older == {ps[j].poc : j \in start..(irap - 1)}
      Keeps(set) == {s \in SUBSET set : Cardinality(s) < DecBuffering}
      Coming(nut, pocs, keeps) ==
        {Append(ps, Pic(nut, poc, 0, keep, FALSE)) : poc \in pocs, keep \in keeps}
      rasl == {q \in (1..ps[irap].poc) \ used :
                 /\ \A u \in older : u < q
                 /\ \A j \in (irap + 1)..(k - 1) : ps[j].nut = "RASL"}
  IN Coming("IDR", {0}, {{}})
       \cup Coming("CRA", {q \in 1..MaxPoc : \A u \in used : u < q}, Keeps(live))
       \cup Coming("TRAIL", (ps[irap].poc..MaxPoc) \ used, Keeps(live \cap (irap..k)))
       \cup Coming("RASL", rasl, Keeps(live))

SameCvs(ps, j, k) == \A i \in (j + 1)..k : ps[i].nut # "IDR"

\* Few enough pictures precede one in decoding order and follow it in output order,
\* and the buffer has room for what must be in it while picture k is decoded.
Conforming(ps) ==
  \A k \in 1..Len(ps) :
    LET late == {j \in 1..(k - 1) : SameCvs(ps, j, k) /\ ps[j].poc > ps[k].poc}
        waiting == {j \in 1..(k - 1) : \E i \in k..Len(ps) : SameCvs(ps, j, i) /\ ps[i].poc < ps[j].poc}
    IN /\ Cardinality(late) <= NumReorderPics
       /\ Cardinality(ps[k].keep \cup waiting \cup {k}) <= DecBuffering

\* Every prefix of a conforming sequence of pictures is one.
RECURSIVE Sequences(_)
Sequences(n) ==
  IF n = 1 THEN {<<Pic("IDR", 0, 0, {}, FALSE)>>}
  ELSE UNION {{qs \in Extensions(ps) : Conforming(qs)} : ps \in Sequences(n - 1)}

Shifted(ps) == [k \in 1..Len(ps) |-> [ps[k] EXCEPT !.poc = @ + FirstPoc]]

Orders == {Plain(Shifted(ps)) : ps \in Sequences(NumPics)}

(* ------------------------------ the jobs of a run ----------------------------- *)

Foreign ==
  {[units |-> s,
    limits |-> [reorder |-> <<NumReorderPics, NumReorderPics>>,
                buffers |-> <<DecBuffering, DecBuffering>>, bits |-> PocBits, target |-> 0]]
     : s \in Structures \cup LayerStreams \cup Restarts \cup Orders}
=============================================================================
