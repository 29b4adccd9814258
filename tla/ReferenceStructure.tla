-------------------------- MODULE ReferenceStructure --------------------------
(* What the configuration makes of a GOP: the reference picture lists of the   *)
(* pictures that lack references at the start of a sequence, the list a        *)
(* picture takes, and the limits of the picture buffer that the sequence       *)
(* parameter set announces (EncAppCfg::xCheckParameter and EncLib).  Frames,   *)
(* no composite reference.                                                     *)
EXTENDS Integers, FiniteSets, FiniteSetsExt, SequencesExt

(* An entry of the GOP, in coding order: its POC in the GOP, its temporal layer, *)
(* its slice type, and its two lists l0 and l1 of POC distances, of which the    *)
(* first a0 and a1 are active.                                                   *)
MaxRefs == 30  \* MAX_NUM_REF_PICS + 1, the room of refList

EntryOf(gop, c) == gop[((c - 1) % Len(gop)) + 1]

\* The POC of the picture that is coded as number c of the sequence.
PocOf(gop, c) == ((c - 1) \div Len(gop)) * Len(gop) + EntryOf(gop, c).poc

\* The distances that do not lead before the first picture.
Reachable(poc, list) == SelectSeq(list, LAMBDA x : poc - x >= 0)

\* A distance is put before the first longer one, if it leads backwards.
Insert(list, x) ==
  LET longer == {j \in 1..Len(list) : list[j] > x /\ x > 0}
  IN IF longer = {} THEN Append(list, x) ELSE InsertAt(list, Min(longer), x)

\* Stepping back in coding order, pictures that were available to the picture before are
\* taken in until the list is as long as it is to be; other is the length of the other list.
Backfill(gop, c, refs, list, active, other) ==
  LET poc == PocOf(gop, c)
      Visit(s, offset) ==
        LET q == PocOf(gop, c - offset)
            wanted == /\ EntryOf(gop, c - offset).tid <= EntryOf(gop, c).tid
                      /\ \E i \in 1..(Len(s.list) + other) : refs[i] = q
                      /\ ~Contains(s.list, poc - q)
            filled == IF s.open /\ wanted THEN Insert(s.list, poc - q) ELSE s.list
        IN [list |-> filled, open |-> s.open /\ Len(filled) < active]
  IN FoldLeft(Visit, [list |-> list, open |-> TRUE], [k \in 1..(c - 1) |-> k]).list

\* The entry for a picture some of whose references lie before the first picture.
ExtraEntry(gop, c, refs) ==
  LET e  == EntryOf(gop, c)
      r1 == Reachable(PocOf(gop, c), e.l1)
      l0 == Backfill(gop, c, refs, Reachable(PocOf(gop, c), e.l0), e.a0, Len(r1))
      l1 == Backfill(gop, c, refs, r1, e.a1, Len(l0))
  IN [e EXCEPT !.l0 = l0, !.a0 = Min({@, Len(l0)}), !.l1 = l1, !.a1 = Min({@, Len(l1)})]

\* The pictures that entry e keeps for the next picture; refList keeps its tail.
NewRefs(refs, poc, e) ==
  LET kept0 == [i \in 1..Len(Reachable(poc, e.l0)) |-> poc - Reachable(poc, e.l0)[i]]
      kept1 == [i \in 1..Len(Reachable(poc, e.l1)) |-> poc - Reachable(poc, e.l1)[i]]
      fresh == FoldLeft(LAMBDA s, q : IF Contains(s, q) THEN s ELSE Append(s, q), kept0, kept1) \o <<poc>>
  IN [list |-> [i \in 1..MaxRefs |-> IF i <= Len(fresh) THEN fresh[i] ELSE refs[i]], num |-> Len(fresh)]

\* One turn of the loop that goes through the pictures in coding order: s.rpl are the
\* entries so far, s.refs the pictures available, s.ok the entries found complete.
CheckPicture(gop, s, c) ==
  LET e == EntryOf(gop, c)
      poc == PocOf(gop, c)
      before == \E i \in 1..Len(e.l0) : poc < e.l0[i]
      missing == \E i \in 1..Len(e.l0) :
                   poc >= e.l0[i] /\ \A j \in 1..s.num : s.refs[j] # poc - e.l0[i]
      complete == ~before /\ ~missing
      used == IF complete THEN e ELSE ExtraEntry(gop, c, s.refs)
      next == NewRefs(s.refs, poc, used)
  IN IF s.error \/ Cardinality(s.ok) = Len(gop) THEN s
     ELSE [rpl |-> IF complete THEN s.rpl ELSE Append(s.rpl, used),
           refs |-> next.list, num |-> next.num,
           ok |-> IF complete THEN s.ok \cup {e.poc} ELSE s.ok,
           error |-> missing]

Turns(gop) == 8 * Len(gop)  \* more than the loop takes for a GOP it accepts

Structure(gop) ==
  FoldLeft(LAMBDA s, c : CheckPicture(gop, s, c),
           [rpl |-> gop, refs |-> [i \in 1..MaxRefs |-> 0], num |-> 1, ok |-> {}, error |-> FALSE],
           [c \in 1..Turns(gop) |-> c])

Accepts(gop) == LET s == Structure(gop) IN ~s.error /\ Cardinality(s.ok) = Len(gop)

(* ----------------------------- the limits announced --------------------------- *)

\* Of the pictures coded before the last one that is output no later than entry i, those
\* of its layer or below that are output behind it.
NumReorder(gop, i) ==
  LET last == Max({j \in 1..Len(gop) : gop[j].poc <= gop[i].poc})
  IN Cardinality({j \in 1..(last - 1) : gop[j].tid <= gop[i].tid /\ gop[j].poc > gop[i].poc})

NumBuffers(gop, i) == Cardinality(ToSet(gop[i].l0) \cup ToSet(gop[i].l1)) + 1

MaxOf(set) == Max(set \cup {0})

Layers(gop) == 1 + Max({gop[i].tid : i \in 1..Len(gop)})

\* A layer has no lower value than one below it, and more buffers than pictures to reorder.
MaxNumReorderPics(gop, t) == MaxOf({NumReorder(gop, i) : i \in {j \in 1..Len(gop) : gop[j].tid <= t}})

MaxDecPicBuffering(gop, t) ==
  Max({NumBuffers(gop, i) : i \in {j \in 1..Len(gop) : gop[j].tid <= t}}
        \cup {MaxNumReorderPics(gop, u) + 1 : u \in 0..t})

(* ---------------------------- the list of a picture --------------------------- *)

Identifier(list, k) == IF k <= Len(list) THEN -list[k] ELSE 0

\* With no intra period, lists that lead both ways repeat every two GOPs.
RplPeriod(gop, rpl, period) ==
  IF period < 0 /\ Len(rpl) > 1
     /\ Identifier(rpl[2].l0, 1) * Identifier(rpl[2].l1, 1) < 0
  THEN 2 * Len(gop) ELSE period

\* The entry of the picture with this POC that is number id of its GOP.  The loop over the
\* start-up entries steps over the one behind an entry it takes.
ListIndex(gop, rpl, period, poc, id) ==
  LET size == Len(gop)
      p == RplPeriod(gop, rpl, period)
      inGop == IF poc % size = 0 THEN size ELSE poc % size
      place == IF poc % p = 0 THEN p ELSE poc % p
      others == {k \in (size + 1)..Len(rpl) : rpl[k].poc # place}
      RunLength(k) == k - Max({size} \cup {j \in others : j < k})
      taken == {k \in ((size + 1)..Len(rpl)) \ others : RunLength(k) % 2 = 1}
  IN IF p < 0
     THEN IF poc >= 2 * size + 2 THEN inGop
          ELSE IF poc + size > Len(rpl) THEN id ELSE poc + size
     ELSE Max(taken \cup {IF taken = {} THEN id ELSE 0})

\* sps_all_active_rpl_entries_has_same_sign_flag, of the order of the identifiers: the
\* first entry of list 0 gives the sign for all its lists, in list 1 each gives its own.
SameSign(rpl) ==
  LET Falls(list, k) == Identifier(list, k) - (IF k = 1 THEN 0 ELSE Identifier(list, k - 1)) < 0
      Down(list) == Identifier(list, 1) < 0
      some == {i \in 1..Len(rpl) : rpl[i].a0 > 0}
      zero == some = {} \/ \A i \in some : \A k \in 1..rpl[i].a0 :
                             Falls(rpl[i].l0, k) = Down(rpl[Min(some)].l0)
      one == \A i \in 1..Len(rpl) : \A k \in 1..rpl[i].a1 : Falls(rpl[i].l1, k) = Down(rpl[i].l1)
  IN zero /\ ((\A i \in 1..Len(rpl) : rpl[i].l0 = rpl[i].l1) \/ one)
=============================================================================
