------------------------ MODULE PartitionSearch_proofs ------------------------
(* For any split kinds, costs and depth of the search: what a storing run      *)
(* keeps is what it codes, and a reading run codes what it has loaded.         *)
EXTENDS PartitionSearch, SequenceTheorems, WellFoundedInduction, TLAPS

(* --------------------------------- induction --------------------------------- *)

\* A set of numbers that has one has a least one.
LEMMA LeastNumber ==
  ASSUME NEW T, T \subseteq Nat, T # {}
  PROVE  \E least \in T : \A n \in T : least <= n
<1> DEFINE less == OpToRel(<, Nat)
<1>1. IsWellFoundedOn(less, Nat) /\ \A x, y \in Nat : <<y, x>> \in less <=> y < x
  BY NatLessThanWellFounded DEF OpToRel
<1> HIDE DEF less
<1>2. PICK least \in T : \A y \in T : ~ (<<y, least>> \in less)
  BY <1>1, WFMin
<1>3. \A n \in T : least \in Nat /\ n \in Nat /\ ~(n < least)
  BY <1>1, <1>2
<1> QED BY <1>3

LEMMA MaxNat == Max \in Nat
  BY SMT DEF Max

LEMMA CostsBelow == \A c \in Costs \cup {Max} : c \in 0..Max
  BY SearchAssumption, MaxNat

(* ---------------------------------- frames ---------------------------------- *)

\* The frames over a set S of trees.
KindOrNone == KindSet \cup {"none"}
Subs(S) == Seq(S)
Temps(S) == [KindSet -> [cost : Nat, subs : Subs(S)]]

FrameOf(S) ==
  [depth : Nat, best : 0..Max, coded : S, todo : Seq(KindSet), kind : KindOrNone,
   round : 0..2, rounds : 0..2, idx : Nat, acc : Nat, parts : Subs(S), temp : Temps(S)]

\* A CU with a split in progress is at one of its parts.
Shaped(f) ==
  f.kind # "none" => /\ f.idx \in 1..NumParts[f.kind]
                     /\ Len(f.temp[f.kind].subs) = NumParts[f.kind]
                     /\ Len(f.parts) = f.idx - 1
                     /\ f.round \in 1..f.rounds /\ f.rounds \in Rounds

Returned(S) == [cost : 0..Max, coded : S, stored : S, done : {TRUE}]

Frames(S) == {f \in FrameOf(S) : Shaped(f)}

\* What the two runs hold: frames and trees over some set of trees.
Typed(S) ==
  /\ Leaf \in S
  /\ stack \in Seq(Frames(S)) /\ Len(stack) >= 1
  /\ ret = Nothing \/ ret \in Returned(S)
  /\ tied \in BOOLEAN

\* A larger set of trees.
LEMMA FramesGrow ==
  ASSUME NEW S, NEW T, S \subseteq T
  PROVE  Frames(S) \subseteq Frames(T) /\ Seq(Frames(S)) \subseteq Seq(Frames(T))
<1>1. Subs(S) \subseteq Subs(T)
  BY DEF Subs
<1>2. Temps(S) \subseteq Temps(T)
  BY <1>1 DEF Temps
<1>3. FrameOf(S) \subseteq FrameOf(T)
  BY <1>1, <1>2 DEF FrameOf
<1>4. Frames(S) \subseteq Frames(T)
  BY <1>3 DEF Frames
<1> HIDE DEF Frames
<1> QED BY <1>4

LEMMA TypedGrows ==
  ASSUME NEW S, NEW T, S \subseteq T, Typed(S)
  PROVE  Typed(T)
<1>1. stack \in Seq(Frames(T))
  BY FramesGrow DEF Typed
<1>2. Returned(S) \subseteq Returned(T)
  BY DEF Returned
<1> QED BY <1>1, <1>2 DEF Typed

(* ----------------------------------- stack ----------------------------------- *)

\* The innermost frame is replaced, one is added, or it goes.
LEMMA Replaced ==
  ASSUME NEW F, NEW s \in Seq(F), Len(s) >= 1, NEW f \in F
  PROVE  /\ [s EXCEPT ![Len(s)] = f] \in Seq(F) /\ Len([s EXCEPT ![Len(s)] = f]) = Len(s)
         /\ [s EXCEPT ![Len(s)] = f][Len(s)] = f
         /\ \A i \in 1..Len(s) : i # Len(s) => [s EXCEPT ![Len(s)] = f][i] = s[i]
  OBVIOUS

LEMMA Pushed ==
  ASSUME NEW F, NEW s \in Seq(F), Len(s) >= 1, NEW f \in F, NEW g \in F,
         NEW t, t = Append([s EXCEPT ![Len(s)] = f], g)
  PROVE  /\ t \in Seq(F) /\ Len(t) = Len(s) + 1 /\ t[Len(s) + 1] = g /\ t[Len(s)] = f
         /\ \A i \in 1..Len(s) : i # Len(s) => t[i] = s[i]
<1> DEFINE u == [s EXCEPT ![Len(s)] = f]
<1>1. PICK n \in Nat : n = Len(s) /\ n >= 1
  OBVIOUS
<1>2. u \in Seq(F) /\ Len(u) = n /\ u[n] = f /\ \A i \in 1..n : i # n => u[i] = s[i]
  BY <1>1, Replaced
<1> HIDE DEF u
<1>3. t = Append(u, g)
  BY DEF u
<1>4. t \in Seq(F) /\ Len(t) = n + 1 /\ t[n + 1] = g /\ \A i \in 1..n : t[i] = u[i]
  BY <1>2, <1>3
<1> QED BY <1>1, <1>2, <1>4

LEMMA Popped ==
  ASSUME NEW F, NEW s \in Seq(F), Len(s) > 1, NEW t, t = SubSeq(s, 1, Len(s) - 1)
  PROVE  /\ t \in Seq(F) /\ Len(t) = Len(s) - 1 /\ Len(t) >= 1
         /\ \A i \in 1..Len(t) : t[i] = s[i]
  OBVIOUS

\* The innermost frame.
LEMMA TopFrame ==
  ASSUME NEW S, Typed(S)
  PROVE  /\ Top \in Frames(S) /\ Top \in FrameOf(S) /\ Shaped(Top)
         /\ Len(stack) \in Nat /\ Len(stack) \in 1..Len(stack)
  BY DEF Typed, Top, Frames
(* ------------------------------ steps of a frame ------------------------------ *)

\* The frame that EnterPart leaves at part i.
At(f, i) == [f EXCEPT !.idx = i]

\* A round begins with fresh leaves.
Begun(f) == [f EXCEPT !.acc = 0, !.parts = <<>>,
                      !.temp[f.kind].subs = [i \in 1..NumParts[f.kind] |-> Leaf]]

Started(f, n) == [f EXCEPT !.todo = Tail(@), !.kind = Head(f.todo), !.round = 1, !.rounds = n]

\* What a frame keeps of its best candidate and of the splits it has not begun.
Kept(f, g) ==
  /\ g.depth = f.depth /\ g.best = f.best /\ g.coded = f.coded
  /\ \A k \in KindSet : g.temp[k].cost = f.temp[k].cost
                        /\ (k # g.kind => g.temp[k].subs = f.temp[k].subs)

LEMMA PartsOf == \A k \in KindSet : NumParts[k] \in Nat \ {0}
  BY SearchAssumption

LEMMA BegunIs ==
  ASSUME NEW S, Leaf \in S, NEW f \in FrameOf(S), f.kind \in KindSet,
         f.round \in 1..f.rounds, f.rounds \in Rounds, NEW g, g = At(Begun(f), 1)
  PROVE  /\ g \in Frames(S) /\ Kept(f, g) /\ g.todo = f.todo /\ g.kind = f.kind
         /\ g.round = f.round /\ g.rounds = f.rounds /\ g.idx = 1 /\ g.acc = 0 /\ g.parts = <<>>
<1> DEFINE subs == [i \in 1..NumParts[f.kind] |-> Leaf]
           temp == [f.temp EXCEPT ![f.kind].subs = subs]
<1>1. subs \in Subs(S) /\ Len(subs) = NumParts[f.kind]
  BY PartsOf DEF Subs
<1> HIDE DEF subs
<1>2. temp \in Temps(S)
  BY <1>1 DEF FrameOf, Temps
<1>3. /\ temp[f.kind].subs = subs /\ temp[f.kind].cost = f.temp[f.kind].cost
      /\ \A k \in KindSet : k # f.kind => temp[k] = f.temp[k]
  BY DEF FrameOf, Temps
<1>4. g = [f EXCEPT !.acc = 0, !.parts = <<>>, !.temp = temp, !.idx = 1]
  BY DEF At, Begun, FrameOf, Temps, subs
<1> HIDE DEF temp
<1>5. /\ g.depth = f.depth /\ g.best = f.best /\ g.coded = f.coded /\ g.temp = temp
      /\ g.todo = f.todo /\ g.kind = f.kind /\ g.round = f.round /\ g.rounds = f.rounds
      /\ g.idx = 1 /\ g.acc = 0 /\ g.parts = <<>>
  BY <1>4 DEF FrameOf
<1>6. g \in FrameOf(S)
  <2>1. <<>> \in Subs(S)
    BY DEF Subs
  <2> DEFINE empty == <<>>
  <2>2. empty \in Subs(S) /\ g = [f EXCEPT !.acc = 0, !.parts = empty, !.temp = temp, !.idx = 1]
    BY <2>1, <1>4
  <2> DEFINE h == [f EXCEPT !.parts = empty, !.temp = temp]
  <2> HIDE DEF empty
  <2>3. h \in FrameOf(S)
    BY <2>2, <1>2 DEF FrameOf
  <2> DEFINE zero == 0
             one == 1
  <2>4. g = [h EXCEPT !.acc = zero, !.idx = one] /\ zero \in Nat /\ one \in Nat
    BY <2>2
  <2> HIDE DEF h, zero, one
  <2> QED BY <2>3, <2>4 DEF FrameOf
<1>7. Kept(f, g)
  BY <1>3, <1>5 DEF Kept
<1>8. Shaped(g)
  <2>1. 1 \in 1..NumParts[f.kind] /\ Len(g.parts) = 1 - 1
    BY <1>5, PartsOf
  <2> QED BY <2>1, <1>1, <1>3, <1>5 DEF Shaped
<1> QED BY <1>5, <1>6, <1>7, <1>8 DEF Frames

LEMMA StartedIs ==
  ASSUME NEW S, Leaf \in S, NEW f \in FrameOf(S), f.kind = "none", f.todo # <<>>, NEW n \in Rounds,
         NEW g, g = At(Begun(Started(f, n)), 1)
  PROVE  /\ g \in Frames(S) /\ Kept(f, g) /\ g.todo = Tail(f.todo) /\ g.kind = Head(f.todo)
         /\ g.kind \in KindSet /\ g.round = 1 /\ g.rounds = n
         /\ g.idx = 1 /\ g.acc = 0 /\ g.parts = <<>>
<1> DEFINE h == Started(f, n)
<1>1. n \in {1, 2}
  BY SearchAssumption
<1>2. f.todo \in Seq(KindSet) /\ Head(f.todo) \in KindSet /\ Tail(f.todo) \in Seq(KindSet)
  BY DEF FrameOf
<1>3. /\ h.depth = f.depth /\ h.best = f.best /\ h.coded = f.coded /\ h.temp = f.temp
      /\ h.todo = Tail(f.todo) /\ h.kind = Head(f.todo) /\ h.round = 1 /\ h.rounds = n
  BY DEF Started, FrameOf
<1>4. h \in FrameOf(S)
  <2>1. Head(f.todo) \in KindOrNone /\ 1 \in 0..2 /\ n \in 0..2
    BY <1>1, <1>2 DEF KindOrNone
  <2> QED BY <2>1, <1>2 DEF Started, FrameOf
<1> HIDE DEF h
<1>5. h.kind \in KindSet /\ h.round \in 1..h.rounds /\ h.rounds \in Rounds
  BY <1>1, <1>2, <1>3
<1>6. g = At(Begun(h), 1)
  BY DEF h
<1>7. /\ g \in Frames(S) /\ Kept(h, g) /\ g.todo = h.todo /\ g.kind = h.kind
      /\ g.round = h.round /\ g.rounds = h.rounds /\ g.idx = 1 /\ g.acc = 0 /\ g.parts = <<>>
  BY <1>4, <1>5, <1>6, BegunIs
<1>8. Kept(f, g)
  BY <1>3, <1>7 DEF Kept
<1> QED BY <1>2, <1>3, <1>7, <1>8

\* The part that has returned is kept in the temporary tree.
LEMMA WithPartIs ==
  ASSUME NEW S, Typed(S), GotPart, NEW f, f = WithPart
  PROVE  /\ f \in FrameOf(S) /\ Shaped(f) /\ Kept(Top, f) /\ f.todo = Top.todo /\ f.kind = Top.kind
         /\ f.kind \in KindSet /\ f.round = Top.round /\ f.rounds = Top.rounds
         /\ f.idx = Top.idx /\ f.acc = Top.acc /\ f.parts = Top.parts
         /\ f.temp[f.kind].subs = [Top.temp[Top.kind].subs EXCEPT ![Top.idx] = ret.stored]
         /\ ret \in Returned(S)
<1>1. Top \in FrameOf(S) /\ Shaped(Top)
  BY TopFrame
<1>2. ret \in Returned(S) /\ Top.kind # "none"
  BY DEF GotPart, Typed
<1> DEFINE t == Top
           k == Top.kind
           subs == [Top.temp[Top.kind].subs EXCEPT ![Top.idx] = ret.stored]
           temp == [Top.temp EXCEPT ![Top.kind].subs = subs]
<1>3. k \in KindSet
  BY <1>1, <1>2 DEF FrameOf, KindOrNone
<1>4. subs \in Subs(S) /\ Len(subs) = NumParts[k]
  <2>1. /\ Top.temp[Top.kind].subs \in Seq(S) /\ Len(Top.temp[Top.kind].subs) = NumParts[k]
        /\ ret.stored \in S
    BY <1>1, <1>2, <1>3 DEF FrameOf, Temps, Subs, Shaped, Returned
  <2> DEFINE old == Top.temp[Top.kind].subs
             at == Top.idx
             x == ret.stored
  <2> HIDE DEF old, at, x, k
  <2>2. [old EXCEPT ![at] = x] \in Seq(S) /\ Len([old EXCEPT ![at] = x]) = Len(old)
    <3>1. old \in Seq(S) /\ x \in S /\ at \in 1..Len(old)
      BY <2>1, <1>1, <1>2 DEF old, x, at, k, Shaped
    <3> QED BY <3>1, ExceptSeq
  <2> QED BY <2>1, <2>2 DEF old, at, x, Subs
<1>5. f = [Top EXCEPT !.temp = temp]
  BY <1>1, <1>3 DEF WithPart, FrameOf, Temps
<1> HIDE DEF subs
<1>6. temp \in Temps(S)
  BY <1>1, <1>4 DEF FrameOf, Temps
<1>7. /\ temp[k].subs = subs /\ temp[k].cost = Top.temp[k].cost
      /\ \A j \in KindSet : j # k => temp[j] = Top.temp[j]
  BY <1>1, <1>3 DEF FrameOf, Temps
<1> HIDE DEF temp
<1>8. /\ f.depth = t.depth /\ f.best = t.best /\ f.coded = t.coded /\ f.temp = temp
      /\ f.todo = t.todo /\ f.kind = t.kind /\ f.round = t.round /\ f.rounds = t.rounds
      /\ f.idx = t.idx /\ f.acc = t.acc /\ f.parts = t.parts
  BY <1>1, <1>5 DEF FrameOf
<1>9. f \in FrameOf(S)
  BY <1>1, <1>5, <1>6 DEF FrameOf
<1>10. Kept(t, f)
  BY <1>7, <1>8 DEF Kept
<1>11. Shaped(f)
  BY <1>1, <1>2, <1>4, <1>7, <1>8 DEF Shaped
<1> QED BY <1>2, <1>3, <1>7, <1>8, <1>9, <1>10, <1>11 DEF subs
\* A CU that is entered has tested the modes without split only.
LEMMA NewFrameIs ==
  ASSUME NEW S, Leaf \in S, NEW d \in Nat, NEW path, NEW g \in NewFrames(d, path)
  PROVE  /\ g \in Frames(S) /\ g.kind = "none" /\ g.coded = Leaf /\ g.depth = d
         /\ g.best \in NoSplitCosts(path)
         /\ \A k \in KindSet : g.temp[k].cost = Max
         /\ \E ks \in Orders : g.todo = IF d = MaxDepth THEN <<>> ELSE Testable(path, ks)
<1> DEFINE temp == [k \in KindSet |-> [cost |-> Max, subs |-> <<>>]]
           todo(ks) == IF d = MaxDepth THEN <<>> ELSE Testable(path, ks)
<1>1. PICK c \in NoSplitCosts(path), ks \in Orders :
        g = [depth |-> d, best |-> c, coded |-> Leaf, todo |-> todo(ks),
             kind |-> "none", round |-> 0, rounds |-> 0,
             idx |-> 0, acc |-> 0, parts |-> <<>>, temp |-> temp]
  BY DEF NewFrames
<1>2. temp \in Temps(S) /\ \A k \in KindSet : temp[k].cost = Max
  BY MaxNat DEF Temps, Subs
<1>3. todo(ks) \in Seq(KindSet)
  BY SearchAssumption DEF Testable
<1>4. c \in 0..Max
  BY CostsBelow, MaxNat DEF NoSplitCosts
<1> DEFINE empty == <<>>
           zero == 0
           td == todo(ks)
<1>5. /\ empty \in Subs(S) /\ zero \in Nat /\ zero \in 0..2 /\ "none" \in KindOrNone
      /\ td \in Seq(KindSet)
      /\ g = [depth |-> d, best |-> c, coded |-> Leaf, todo |-> td,
              kind |-> "none", round |-> zero, rounds |-> zero,
              idx |-> zero, acc |-> zero, parts |-> empty, temp |-> temp]
  BY <1>1, <1>3 DEF Subs, KindOrNone
<1>6. td = IF d = MaxDepth THEN <<>> ELSE Testable(path, ks)
  OBVIOUS
<1> HIDE DEF temp, empty, zero, td
<1>7. /\ g.kind = "none" /\ g.coded = Leaf /\ g.depth = d /\ g.best = c
      /\ g.temp = temp /\ g.todo = td
  BY <1>5
<1>8. g \in FrameOf(S)
  BY <1>2, <1>4, <1>5 DEF FrameOf
<1>9. g \in Frames(S)
  BY <1>7, <1>8 DEF Frames, Shaped
<1> QED BY <1>2, <1>6, <1>7, <1>9

\* EnterPart: the frame f stands at part i, and the frame of that part is on top of it.
LEMMA Entered ==
  ASSUME NEW S, Typed(S), NEW f, NEW i, EnterPart(f, i), At(f, i) \in Frames(S), f.depth \in Nat,
         tied' \in BOOLEAN
  PROVE  /\ Typed(S)' /\ ret' = Nothing /\ cursor' = CursorDown(i)
         /\ Len(stack') = Len(stack) + 1 /\ stack'[Len(stack)] = At(f, i)
         /\ stack'[Len(stack) + 1] \in NewFrames(f.depth + 1, CursorDown(i))
         /\ NoMode(CursorDown(i), stack'[Len(stack) + 1]) => refused'
         /\ Overrules(CursorDown(i), stack'[Len(stack) + 1]) => overruled'
         /\ \A j \in 1..Len(stack) : j # Len(stack) => stack'[j] = stack[j]
<1> DEFINE d == f.depth + 1
<1>1. PICK g \in NewFrames(d, CursorDown(i)) :
        /\ stack' = Append(SetTop(At(f, i)), g)
        /\ refused' = (refused \/ NoMode(CursorDown(i), g))
        /\ overruled' = (overruled \/ Overrules(CursorDown(i), g))
  BY DEF EnterPart, At
<1>2. g \in Frames(S)
  <2>1. d \in Nat
    OBVIOUS
  <2> HIDE DEF d
  <2> QED BY <2>1, <1>1, NewFrameIs DEF Typed
<1> DEFINE F == Frames(S)
           x == At(f, i)
           t == stack'
<1>3. stack \in Seq(F) /\ Len(stack) >= 1 /\ x \in F /\ g \in F
      /\ t = Append([stack EXCEPT ![Len(stack)] = x], g)
  BY <1>1, <1>2 DEF Typed, SetTop
<1> HIDE DEF F, x, t
<1>4. /\ t \in Seq(F) /\ Len(t) = Len(stack) + 1 /\ t[Len(stack) + 1] = g /\ t[Len(stack)] = x
      /\ \A j \in 1..Len(stack) : j # Len(stack) => t[j] = stack[j]
  BY <1>3, Pushed
<1>5. Len(t) >= 1
  BY <1>3, <1>4
<1>6. ret' = Nothing /\ cursor' = CursorDown(i)
  BY DEF EnterPart
<1>7. Leaf \in S
  BY DEF Typed
<1>8. /\ NoMode(CursorDown(i), t[Len(stack) + 1]) => refused'
      /\ Overrules(CursorDown(i), t[Len(stack) + 1]) => overruled'
  BY <1>1, <1>4
<1> QED BY <1>1, <1>4, <1>5, <1>6, <1>7, <1>8 DEF Typed, F, x, t

\* A split is left: its frame goes on with the splits that are still to be tested.
Closed(f) == [f EXCEPT !.kind = "none"]

LEMMA SplitLeft ==
  ASSUME NEW S, Typed(S), NEW f \in FrameOf(S), stack' = SetTop(Closed(f)), ret' = Nothing,
         tied' \in BOOLEAN
  PROVE  /\ Typed(S)' /\ Len(stack') = Len(stack) /\ stack'[Len(stack)] = Closed(f)
         /\ Closed(f) \in Frames(S) /\ Closed(f).kind = "none"
         /\ \A j \in 1..Len(stack) : j # Len(stack) => stack'[j] = stack[j]
<1> DEFINE g == Closed(f)
<1>1. g \in FrameOf(S) /\ g.kind = "none"
  <2>1. "none" \in KindOrNone
    BY DEF KindOrNone
  <2> QED BY <2>1 DEF Closed, FrameOf
<1>2. g \in Frames(S)
  BY <1>1 DEF Frames, Shaped
<1> DEFINE F == Frames(S)
           t == stack'
<1>3. stack \in Seq(F) /\ Len(stack) >= 1 /\ g \in F /\ t = [stack EXCEPT ![Len(stack)] = g]
  BY <1>2 DEF Typed, SetTop
<1> HIDE DEF F, g, t
<1>4. /\ t \in Seq(F) /\ Len(t) = Len(stack) /\ t[Len(stack)] = g
      /\ \A j \in 1..Len(stack) : j # Len(stack) => t[j] = stack[j]
  BY <1>3, Replaced
<1>5. Leaf \in S
  BY DEF Typed
<1> QED BY <1>1, <1>2, <1>3, <1>4, <1>5, Zenon DEF Typed, F, g, t

\* The end of a round: the second one begins or the split is left.
Second(f) == [f EXCEPT !.round = 2]

LEMMA RoundOverIs ==
  ASSUME NEW S, Typed(S), NEW f \in FrameOf(S), f.kind \in KindSet, f.round \in 1..f.rounds,
         f.rounds \in Rounds, RoundOver(f), tied' \in BOOLEAN
  PROVE  \/ /\ f.round < f.rounds /\ Typed(S)' /\ ret' = Nothing /\ cursor' = CursorDown(1)
            /\ At(Begun(Second(f)), 1) \in Frames(S)
            /\ Kept(f, At(Begun(Second(f)), 1))
            /\ At(Begun(Second(f)), 1).todo = f.todo /\ At(Begun(Second(f)), 1).kind = f.kind
            /\ At(Begun(Second(f)), 1).round = 2 /\ At(Begun(Second(f)), 1).rounds = f.rounds
            /\ At(Begun(Second(f)), 1).idx = 1 /\ At(Begun(Second(f)), 1).acc = 0
            /\ At(Begun(Second(f)), 1).parts = <<>>
            /\ Len(stack') = Len(stack) + 1 /\ stack'[Len(stack)] = At(Begun(Second(f)), 1)
            /\ stack'[Len(stack) + 1] \in NewFrames(f.depth + 1, CursorDown(1))
            /\ NoMode(CursorDown(1), stack'[Len(stack) + 1]) => refused'
            /\ Overrules(CursorDown(1), stack'[Len(stack) + 1]) => overruled'
            /\ \A j \in 1..Len(stack) : j # Len(stack) => stack'[j] = stack[j]
         \/ /\ Typed(S)' /\ ret' = Nothing /\ cursor' = cursor
            /\ Len(stack') = Len(stack) /\ stack'[Len(stack)] = Closed(f) /\ Closed(f).kind = "none"
            /\ \A j \in 1..Len(stack) : j # Len(stack) => stack'[j] = stack[j]
<1>1. CASE f.round < f.rounds /\ BeginRound([f EXCEPT !.round = 2])
  <2> DEFINE h == Second(f)
             g == At(Begun(h), 1)
  <2>1. /\ h.depth = f.depth /\ h.best = f.best /\ h.coded = f.coded /\ h.temp = f.temp
        /\ h.todo = f.todo /\ h.kind = f.kind /\ h.round = 2 /\ h.rounds = f.rounds
    BY DEF Second, FrameOf
  <2>2. h \in FrameOf(S) /\ 2 \in 1..f.rounds
    <3>0. Rounds \subseteq {1, 2}
      BY SearchAssumption
    <3>a. 2 \in 0..2
      OBVIOUS
    <3>b. f.rounds \in {1, 2}
      BY <3>0
    <3>1. 2 \in 0..2 /\ f.rounds \in {1, 2}
      BY <3>a, <3>b
    <3>2. h \in FrameOf(S)
      BY <3>1 DEF Second, FrameOf
    <3> QED BY <3>1, <3>2, <1>1
  <2>3. EnterPart(Begun(h), 1)
    BY <1>1 DEF BeginRound, Begun, Second
  <2>4. Begun(h).depth = f.depth /\ f.depth \in Nat
    <3> HIDE DEF h
    <3> QED BY <2>1, <2>2 DEF Begun, FrameOf
  <2> HIDE DEF h
  <2>5. /\ g \in Frames(S) /\ Kept(h, g) /\ g.todo = h.todo /\ g.kind = h.kind
        /\ g.round = h.round /\ g.rounds = h.rounds /\ g.idx = 1 /\ g.acc = 0 /\ g.parts = <<>>
    BY <2>1, <2>2, BegunIs DEF Typed
  <2>6. Kept(f, g)
    BY <2>1, <2>5 DEF Kept
  <2> DEFINE b == Begun(h)
  <2> HIDE DEF b
  <2>7. /\ Typed(S)' /\ ret' = Nothing /\ cursor' = CursorDown(1)
        /\ Len(stack') = Len(stack) + 1 /\ stack'[Len(stack)] = At(b, 1)
        /\ stack'[Len(stack) + 1] \in NewFrames(b.depth + 1, CursorDown(1))
        /\ NoMode(CursorDown(1), stack'[Len(stack) + 1]) => refused'
        /\ Overrules(CursorDown(1), stack'[Len(stack) + 1]) => overruled'
        /\ \A j \in 1..Len(stack) : j # Len(stack) => stack'[j] = stack[j]
    <3>1. EnterPart(b, 1) /\ At(b, 1) \in Frames(S) /\ b.depth \in Nat
      BY <2>3, <2>4, <2>5 DEF b
    <3> QED BY <3>1, Entered
  <2> HIDE DEF g
  <2>8. stack'[Len(stack)] = g /\ b.depth = f.depth
    BY <2>4, <2>7 DEF b, g
  <2> QED BY <1>1, <2>1, <2>5, <2>6, <2>7, <2>8 DEF g, h
<1>2. CASE stack' = SetTop([f EXCEPT !.kind = "none"]) /\ ret' = Nothing /\ UNCHANGED <<loaded, cursor, refused, overruled>>
  BY <1>2, SplitLeft DEF Closed
<1> QED BY <1>1, <1>2 DEF RoundOver
(* --------------------------------- the actions --------------------------------- *)

LEMMA SkipTyped ==
  ASSUME NEW S, Typed(S), SkipSplit
  PROVE  /\ Typed(S)' /\ Len(stack') = Len(stack) /\ Top \in FrameOf(S)
         /\ stack'[Len(stack)] = [Top EXCEPT !.todo = Tail(Top.todo)]
         /\ \A j \in 1..Len(stack) : j # Len(stack) => stack'[j] = stack[j]
<1> DEFINE f == Top
           g == [f EXCEPT !.todo = Tail(f.todo)]
           F == Frames(S)
           t == stack'
<1>1. f \in FrameOf(S) /\ f.kind = "none" /\ f.todo # <<>>
  BY TopFrame DEF SkipSplit
<1>2. t = [stack EXCEPT ![Len(stack)] = g] /\ UNCHANGED <<ret, loaded, cursor, tied, overruled>>
  BY DEF SkipSplit, SetTop
<1> HIDE DEF f
<1>3. Tail(f.todo) \in Seq(KindSet)
  BY <1>1 DEF FrameOf
<1>4. g \in F
  <2>1. g \in FrameOf(S) /\ g.kind = "none"
    BY <1>1, <1>3 DEF FrameOf
  <2> QED BY <2>1 DEF Frames, Shaped
<1>5. stack \in Seq(F) /\ Len(stack) >= 1
  BY DEF Typed
<1> HIDE DEF F, g, t
<1>6. /\ t \in Seq(F) /\ Len(t) = Len(stack) /\ t[Len(stack)] = g
      /\ \A j \in 1..Len(stack) : j # Len(stack) => t[j] = stack[j]
  BY <1>2, <1>4, <1>5, Replaced
<1>7. Typed(S)'
  BY <1>2, <1>5, <1>6, Zenon DEF Typed, Returned, F, t
<1> QED BY <1>1, <1>6, <1>7 DEF f, g, t

LEMMA StartTyped ==
  ASSUME NEW S, Typed(S), StartSplit
  PROVE  \E n \in Rounds :
           /\ Typed(S)' /\ ret' = Nothing /\ cursor' = CursorDown(1)
           /\ Top \in FrameOf(S) /\ Top.kind = "none" /\ Top.todo # <<>>
           /\ Len(stack') = Len(stack) + 1 /\ stack'[Len(stack)] = At(Begun(Started(Top, n)), 1)
           /\ stack'[Len(stack) + 1] \in NewFrames(Top.depth + 1, CursorDown(1))
           /\ NoMode(CursorDown(1), stack'[Len(stack) + 1]) => refused'
           /\ Overrules(CursorDown(1), stack'[Len(stack) + 1]) => overruled'
           /\ \A j \in 1..Len(stack) : j # Len(stack) => stack'[j] = stack[j]
<1> DEFINE f == Top
<1>1. f \in FrameOf(S) /\ f.kind = "none" /\ f.todo # <<>> /\ Leaf \in S
  BY TopFrame DEF StartSplit, Typed
<1>2. PICK n \in Rounds : BeginRound([Top EXCEPT !.todo = Tail(@), !.kind = Head(Top.todo),
                                               !.round = 1, !.rounds = n])
  BY Zenon DEF StartSplit
<1> DEFINE b == Begun(Started(f, n))
<1>3. EnterPart(b, 1)
  BY <1>2 DEF BeginRound, Begun, Started
<1> HIDE DEF f
<1>4. At(b, 1) \in Frames(S)
  BY <1>1, StartedIs
<1>5. b.depth = f.depth /\ f.depth \in Nat
  BY <1>1 DEF Begun, Started, FrameOf
<1>6. tied' \in BOOLEAN
  BY DEF StartSplit, Typed
<1> HIDE DEF b
<1>7. /\ Typed(S)' /\ ret' = Nothing /\ cursor' = CursorDown(1)
      /\ Len(stack') = Len(stack) + 1 /\ stack'[Len(stack)] = At(b, 1)
      /\ stack'[Len(stack) + 1] \in NewFrames(b.depth + 1, CursorDown(1))
      /\ NoMode(CursorDown(1), stack'[Len(stack) + 1]) => refused'
      /\ Overrules(CursorDown(1), stack'[Len(stack) + 1]) => overruled'
      /\ \A j \in 1..Len(stack) : j # Len(stack) => stack'[j] = stack[j]
  BY <1>3, <1>4, <1>5, <1>6, Entered
<1> QED BY <1>1, <1>5, <1>7 DEF f, b

LEMMA AbandonTyped ==
  ASSUME NEW S, Typed(S), AbandonSplit, NEW f, f = [WithPart EXCEPT !.idx = 0]
  PROVE  /\ f \in FrameOf(S) /\ Kept(Top, f) /\ f.todo = Top.todo /\ f.kind = Top.kind
         /\ f.kind \in KindSet /\ f.round = Top.round /\ f.rounds = Top.rounds
         /\ f.round \in 1..f.rounds /\ f.rounds \in Rounds /\ RoundOver(f) /\ tied' = tied
         /\ tied' \in BOOLEAN
<1> DEFINE g == WithPart
           zero == 0
<1>1. /\ g \in FrameOf(S) /\ Shaped(g) /\ Kept(Top, g) /\ g.todo = Top.todo /\ g.kind = Top.kind
      /\ g.kind \in KindSet /\ g.round = Top.round /\ g.rounds = Top.rounds
  BY WithPartIs DEF AbandonSplit
<1>2. f = [g EXCEPT !.idx = zero] /\ zero \in Nat
  OBVIOUS
<1> HIDE DEF g, zero
<1>3. /\ f \in FrameOf(S) /\ f.depth = g.depth /\ f.best = g.best /\ f.coded = g.coded
      /\ f.temp = g.temp /\ f.todo = g.todo /\ f.kind = g.kind /\ f.round = g.round
      /\ f.rounds = g.rounds
  BY <1>1, <1>2 DEF FrameOf
<1>4. Kept(Top, f)
  BY <1>1, <1>3 DEF Kept
<1>5. g.round \in 1..g.rounds /\ g.rounds \in Rounds
  <2>1. g.kind # "none"
    BY <1>1, SearchAssumption
  <2> QED BY <2>1, <1>1 DEF Shaped
<1>6. RoundOver(f) /\ tied' = tied /\ tied \in BOOLEAN
  BY DEF AbandonSplit, Typed
<1> QED BY <1>1, <1>3, <1>4, <1>5, <1>6

\* The frame NextPart leaves behind.
Taken == [WithPart EXCEPT !.acc = @ + ret.cost, !.parts = Append(@, ret.coded)]

LEMMA TakenIs ==
  ASSUME NEW S, Typed(S), GotPart, Top.idx < NumParts[Top.kind], NEW g, g = At(Taken, Top.idx + 1)
  PROVE  /\ g \in Frames(S) /\ Kept(Top, g) /\ g.todo = Top.todo /\ g.kind = Top.kind
         /\ g.round = Top.round /\ g.rounds = Top.rounds /\ g.kind \in KindSet
         /\ g.idx = Top.idx + 1 /\ g.acc = Top.acc + ret.cost /\ g.parts = Append(Top.parts, ret.coded)
         /\ g.temp[g.kind].subs = [Top.temp[Top.kind].subs EXCEPT ![Top.idx] = ret.stored]
         /\ Taken.depth = Top.depth /\ Top.depth \in Nat
<1> DEFINE f == WithPart
           parts == Append(f.parts, ret.coded)
           acc == f.acc + ret.cost
           idx == Top.idx + 1
<1>1. /\ f \in FrameOf(S) /\ Shaped(f) /\ Kept(Top, f) /\ f.todo = Top.todo /\ f.kind = Top.kind
      /\ f.kind \in KindSet /\ f.round = Top.round /\ f.rounds = Top.rounds
      /\ f.idx = Top.idx /\ f.acc = Top.acc /\ f.parts = Top.parts
      /\ f.temp[f.kind].subs = [Top.temp[Top.kind].subs EXCEPT ![Top.idx] = ret.stored]
      /\ ret \in Returned(S)
  BY WithPartIs
<1>2. g = [f EXCEPT !.acc = acc, !.parts = parts, !.idx = idx] /\ Taken = [f EXCEPT !.acc = acc, !.parts = parts]
  BY DEF At, Taken
<1> HIDE DEF f
<1>3. f.kind # "none"
  BY <1>1, SearchAssumption
<1>4. /\ f.idx \in 1..NumParts[f.kind] /\ Len(f.temp[f.kind].subs) = NumParts[f.kind]
      /\ Len(f.parts) = f.idx - 1 /\ f.round \in 1..f.rounds /\ f.rounds \in Rounds
  BY <1>1, <1>3 DEF Shaped
<1>5. parts \in Subs(S) /\ Len(parts) = Len(f.parts) + 1 /\ Len(f.parts) \in Nat
  <2>1. f.parts \in Seq(S) /\ ret.coded \in S
    BY <1>1 DEF FrameOf, Subs, Returned
  <2> QED BY <2>1 DEF Subs
<1>6. acc \in Nat /\ idx \in Nat /\ idx \in 1..NumParts[f.kind] /\ f.depth \in Nat
  <2>1. f.acc \in Nat /\ f.depth \in Nat /\ ret.cost \in Nat
    BY <1>1, MaxNat DEF FrameOf, Returned
  <2>2. Top.idx = f.idx /\ Top.kind = f.kind /\ NumParts[f.kind] \in Nat
    BY <1>1, PartsOf
  <2> QED BY <2>1, <2>2, <1>4, SMTT(20)
<1> HIDE DEF parts, acc, idx
<1>7. /\ g.depth = f.depth /\ g.best = f.best /\ g.coded = f.coded /\ g.temp = f.temp
      /\ g.todo = f.todo /\ g.kind = f.kind /\ g.round = f.round /\ g.rounds = f.rounds
      /\ g.idx = idx /\ g.acc = acc /\ g.parts = parts /\ Taken.depth = f.depth
  BY <1>1, <1>2 DEF FrameOf
<1>8. g \in FrameOf(S)
  BY <1>1, <1>2, <1>5, <1>6 DEF FrameOf
<1>9. Shaped(g)
  <2>1. Len(parts) = idx - 1
    BY <1>1, <1>4, <1>5 DEF idx
  <2> QED BY <2>1, <1>4, <1>6, <1>7 DEF Shaped
<1>10. Kept(Top, g)
  BY <1>1, <1>7 DEF Kept
<1>11. f.depth = Top.depth
  BY <1>1 DEF Kept
<1> QED BY <1>1, <1>6, <1>7, <1>8, <1>9, <1>10, <1>11 DEF Frames, parts, acc, idx

LEMMA NextPartTyped ==
  ASSUME NEW S, Typed(S), NextPart
  PROVE  /\ Typed(S)' /\ ret' = Nothing /\ cursor' = CursorDown(Top.idx + 1)
         /\ GotPart /\ Top.idx < NumParts[Top.kind] /\ ~PartFails
         /\ Len(stack') = Len(stack) + 1 /\ stack'[Len(stack)] = At(Taken, Top.idx + 1)
         /\ stack'[Len(stack) + 1] \in NewFrames(Top.depth + 1, CursorDown(Top.idx + 1))
         /\ NoMode(CursorDown(Top.idx + 1), stack'[Len(stack) + 1]) => refused'
         /\ Overrules(CursorDown(Top.idx + 1), stack'[Len(stack) + 1]) => overruled'
         /\ \A j \in 1..Len(stack) : j # Len(stack) => stack'[j] = stack[j]
<1> DEFINE f == Taken
           i == Top.idx + 1
<1>1. GotPart /\ Top.idx < NumParts[Top.kind] /\ EnterPart(f, i) /\ tied' = tied /\ ~PartFails
  BY DEF NextPart, GoesOn, Taken
<1>2. At(f, i) \in Frames(S) /\ f.depth = Top.depth /\ f.depth \in Nat
  BY <1>1, TakenIs
<1>3. tied' \in BOOLEAN
  BY <1>1 DEF Typed
<1> HIDE DEF f, i
<1>4. /\ Typed(S)' /\ ret' = Nothing /\ cursor' = CursorDown(i)
      /\ Len(stack') = Len(stack) + 1 /\ stack'[Len(stack)] = At(f, i)
      /\ stack'[Len(stack) + 1] \in NewFrames(f.depth + 1, CursorDown(i))
      /\ NoMode(CursorDown(i), stack'[Len(stack) + 1]) => refused'
      /\ Overrules(CursorDown(i), stack'[Len(stack) + 1]) => overruled'
      /\ \A j \in 1..Len(stack) : j # Len(stack) => stack'[j] = stack[j]
  BY <1>1, <1>2, <1>3, Entered
<1> QED BY <1>1, <1>2, <1>4 DEF f, i
\* The frame EndSplit leaves behind.
EndCost == Top.acc + ret.cost + SplitCost
EndTree == Tree(Top.kind, Append(Top.parts, ret.coded))
Costed == [WithPart EXCEPT !.idx = 0, !.temp[Top.kind].cost = EndCost]
Ended == IF Cheaper(EndCost, Top.best) THEN [Costed EXCEPT !.best = EndCost, !.coded = EndTree]
         ELSE Costed

LEMMA CostedIs ==
  ASSUME NEW S, Typed(S), GotPart, NEW g, g = Costed
  PROVE  /\ g \in FrameOf(S) /\ g.todo = Top.todo /\ g.kind = Top.kind /\ g.kind \in KindSet
         /\ g.round = Top.round /\ g.rounds = Top.rounds /\ g.depth = Top.depth
         /\ g.round \in 1..g.rounds /\ g.rounds \in Rounds
         /\ g.best = Top.best /\ g.coded = Top.coded
         /\ EndCost \in Nat /\ g.temp[g.kind].cost = EndCost
         /\ g.temp[g.kind].subs = [Top.temp[Top.kind].subs EXCEPT ![Top.idx] = ret.stored]
         /\ \A k \in KindSet : k # g.kind => g.temp[k].cost = Top.temp[k].cost
                                             /\ g.temp[k].subs = Top.temp[k].subs
<1> DEFINE f == WithPart
           zero == 0
           cost == EndCost
           temp == [f.temp EXCEPT ![f.kind].cost = cost]
<1>1. /\ f \in FrameOf(S) /\ Shaped(f) /\ Kept(Top, f) /\ f.todo = Top.todo /\ f.kind = Top.kind
      /\ f.kind \in KindSet /\ f.round = Top.round /\ f.rounds = Top.rounds
      /\ f.acc = Top.acc /\ ret \in Returned(S)
      /\ f.temp[f.kind].subs = [Top.temp[Top.kind].subs EXCEPT ![Top.idx] = ret.stored]
  BY WithPartIs
<1>2. cost \in Nat
  <2>1. f.acc \in Nat /\ ret.cost \in Nat /\ SplitCost \in Nat
    BY <1>1, MaxNat, SearchAssumption DEF FrameOf, Returned
  <2> QED BY <2>1, <1>1 DEF EndCost
<1>3. zero \in Nat /\ f.round \in 1..f.rounds /\ f.rounds \in Rounds
  <2>1. f.kind # "none"
    BY <1>1, SearchAssumption
  <2> QED BY <2>1, <1>1 DEF Shaped
<1>4. f.temp \in Temps(S)
  BY <1>1 DEF FrameOf
<1>5. g = [f EXCEPT !.idx = zero, !.temp = temp]
  BY <1>1, <1>4 DEF Costed, FrameOf, Temps
<1> HIDE DEF f, zero, cost
<1>6. /\ temp \in Temps(S) /\ temp[f.kind].cost = cost /\ temp[f.kind].subs = f.temp[f.kind].subs
      /\ \A k \in KindSet : k # f.kind => temp[k] = f.temp[k]
  BY <1>1, <1>2, <1>4 DEF Temps
<1> HIDE DEF temp
<1>7. /\ g.depth = f.depth /\ g.best = f.best /\ g.coded = f.coded /\ g.temp = temp
      /\ g.todo = f.todo /\ g.kind = f.kind /\ g.round = f.round /\ g.rounds = f.rounds
  BY <1>1, <1>5 DEF FrameOf
<1>8. g \in FrameOf(S)
  BY <1>1, <1>3, <1>5, <1>6 DEF FrameOf
<1>9. \A k \in KindSet : k # f.kind => temp[k].cost = Top.temp[k].cost /\ temp[k].subs = Top.temp[k].subs
  BY <1>1, <1>6 DEF Kept
<1>10. f.depth = Top.depth /\ f.best = Top.best /\ f.coded = Top.coded
  BY <1>1 DEF Kept
<1> QED BY <1>1, <1>2, <1>3, <1>6, <1>7, <1>8, <1>9, <1>10 DEF cost

LEMMA EndedIs ==
  ASSUME NEW S, Typed(S), EndSplit, NEW g, g = Ended
  PROVE  /\ \E T : g \in FrameOf(T) /\ Typed(T)
         /\ g.todo = Top.todo /\ g.kind = Top.kind /\ g.kind \in KindSet
         /\ g.round = Top.round /\ g.rounds = Top.rounds /\ g.depth = Top.depth
         /\ g.round \in 1..g.rounds /\ g.rounds \in Rounds /\ RoundOver(g)
         /\ EndCost \in Nat /\ g.temp[g.kind].cost = EndCost
         /\ g.temp[g.kind].subs = [Top.temp[Top.kind].subs EXCEPT ![Top.idx] = ret.stored]
         /\ \A k \in KindSet : k # g.kind => g.temp[k].cost = Top.temp[k].cost
                                             /\ g.temp[k].subs = Top.temp[k].subs
         /\ IF EndCost < Top.best THEN g.best = EndCost /\ g.coded = EndTree
                                  ELSE g.best = Top.best /\ g.coded = Top.coded
         /\ tied' = (tied \/ EndCost = Top.best) /\ tied' \in BOOLEAN
         /\ GotPart /\ ~PartFails /\ Top.idx = NumParts[Top.kind]
<1> DEFINE f == Costed
<1>0. PICK T : T = S \cup {EndTree}
  OBVIOUS
<1>1. GotPart /\ ~PartFails /\ Top.idx = NumParts[Top.kind] /\ RoundOver(g) /\ tied' = (tied \/ EndCost = Top.best)
  BY DEF EndSplit, GoesOn, Ended, Costed, EndCost, EndTree
<1>2. /\ f \in FrameOf(S) /\ f.todo = Top.todo /\ f.kind = Top.kind /\ f.kind \in KindSet
      /\ f.round = Top.round /\ f.rounds = Top.rounds /\ f.depth = Top.depth
      /\ f.round \in 1..f.rounds /\ f.rounds \in Rounds
      /\ f.best = Top.best /\ f.coded = Top.coded
      /\ EndCost \in Nat /\ f.temp[f.kind].cost = EndCost
      /\ f.temp[f.kind].subs = [Top.temp[Top.kind].subs EXCEPT ![Top.idx] = ret.stored]
      /\ \A k \in KindSet : k # f.kind => f.temp[k].cost = Top.temp[k].cost
                                          /\ f.temp[k].subs = Top.temp[k].subs
  BY <1>1, CostedIs
<1>3. Typed(T) /\ S \subseteq T
  BY <1>0, TypedGrows
<1>4. f \in FrameOf(T)
  <2>1. Subs(S) \subseteq Subs(T)
    BY <1>3 DEF Subs
  <2>2. Temps(S) \subseteq Temps(T)
    BY <2>1 DEF Temps
  <2> HIDE DEF f
  <2> QED BY <1>2, <1>3, <2>1, <2>2 DEF FrameOf
<1>5. Top.best \in 0..Max
  BY <1>2 DEF FrameOf
<1>6. tied' \in BOOLEAN
  BY <1>1
<1> DEFINE x == EndTree
           c == EndCost
<1>7. x \in T
  BY <1>0
<1>8. g = IF c < Top.best THEN [f EXCEPT !.best = c, !.coded = x] ELSE f
  BY DEF Ended, Cheaper
<1> HIDE DEF f, x, c
<1>9. CASE c < Top.best
  <2>1. c \in 0..Max
    BY <1>2, <1>5, <1>9, MaxNat DEF c
  <2>2. g = [f EXCEPT !.best = c, !.coded = x]
    BY <1>8, <1>9
  <2>3. g \in FrameOf(T)
    BY <2>1, <2>2, <1>4, <1>7 DEF FrameOf
  <2>4. /\ g.depth = f.depth /\ g.best = c /\ g.coded = x /\ g.temp = f.temp
        /\ g.todo = f.todo /\ g.kind = f.kind /\ g.round = f.round /\ g.rounds = f.rounds
    BY <2>2, <1>4 DEF FrameOf
  <2>5. EndCost < Top.best /\ g.best = EndCost /\ g.coded = EndTree
    BY <2>4, <1>9 DEF c, x
  <2> QED BY <2>3, <2>4, <2>5, <1>1, <1>2, <1>3, <1>6
<1>10. CASE ~(c < Top.best)
  <2>1. g = f /\ ~(EndCost < Top.best)
    BY <1>8, <1>10 DEF c
  <2> QED BY <2>1, <1>1, <1>2, <1>3, <1>4, <1>6
<1> QED BY <1>9, <1>10

LEMMA ReturnTyped ==
  ASSUME NEW S, Typed(S), ReturnCu
  PROVE  /\ \E T : Typed(T)'
         /\ Len(stack) > 1 /\ Len(stack') = Len(stack) - 1
         /\ \A j \in 1..Len(stack') : stack'[j] = stack[j]
         /\ ret' = [cost |-> Top.best, coded |-> Top.coded, stored |-> StoredTree(Top), done |-> TRUE]
         /\ cursor' = CursorUp
         /\ Top \in FrameOf(S) /\ Top.kind = "none" /\ Top.todo = <<>>
<1>0. PICK T : T = S \cup {StoredTree(Top)}
  OBVIOUS
<1> DEFINE x == StoredTree(Top)
           F == Frames(T)
           t == stack'
           f == Top
<1>1. /\ f \in FrameOf(S) /\ f.kind = "none" /\ f.todo = <<>> /\ Len(stack) > 1
      /\ t = SubSeq(stack, 1, Len(stack) - 1) /\ tied' = tied
      /\ ret' = [cost |-> f.best, coded |-> f.coded, stored |-> x, done |-> TRUE]
      /\ cursor' = CursorUp
  BY TopFrame DEF ReturnCu
<1>2. stack \in Seq(F) /\ Leaf \in T
  <2>1. Typed(T)
    BY <1>0, TypedGrows
  <2> QED BY <2>1 DEF Typed
<1>3. f.best \in 0..Max /\ f.coded \in T /\ x \in T
  BY <1>0, <1>1 DEF FrameOf
<1> HIDE DEF x, F, t, f
<1>4. /\ t \in Seq(F) /\ Len(t) = Len(stack) - 1 /\ Len(t) >= 1
      /\ \A i \in 1..Len(t) : t[i] = stack[i]
  BY <1>1, <1>2, Popped
<1>5. ret' \in Returned(T)
  BY <1>1, <1>3 DEF Returned
<1>6. t \in Seq(Frames(T)) /\ tied' \in BOOLEAN
  BY <1>1, <1>4 DEF F, Typed
<1>7. Typed(T)'
  BY <1>2, <1>4, <1>5, <1>6 DEF Typed, t
<1> QED BY <1>1, <1>4, <1>7 DEF x, t, f
(* ------------------------------ the storing run ------------------------------ *)

\* The partition a CU is coded with is that of one temporary tree, cheaper than any
\* other, or not split, and then no tree is as cheap.
Chosen(f) ==
  \/ f.coded = Leaf /\ \A k \in KindSet : f.temp[k].cost = f.best => f.best = Max
  \/ \E k \in KindSet : /\ f.coded = Tree(k, f.temp[k].subs) /\ f.temp[k].cost = f.best /\ f.best # Max
                        /\ \A j \in KindSet : f.temp[j].cost = f.best => j = k

\* A frame of a storing run in which no two candidates were equal.
Sound(f) ==
  /\ \A i, j \in 1..Len(f.todo) : f.todo[i] = f.todo[j] => i = j
  /\ \A i \in 1..Len(f.todo) : f.temp[f.todo[i]].cost = Max /\ f.todo[i] # f.kind
  /\ f.kind # "none" => /\ f.temp[f.kind].cost = Max
                        /\ \A i \in 1..f.idx - 1 : f.parts[i] = f.temp[f.kind].subs[i]
  /\ \A k \in KindSet : f.best <= f.temp[k].cost
  /\ Chosen(f)

\* What is stored for a CU is what it is coded with, once it is through.
LEMMA SoundStores ==
  ASSUME Writing, NEW S, NEW f \in FrameOf(S), Sound(f)
  PROVE  StoredTree(f) = f.coded
<1> DEFINE candidates == {f.best} \cup {f.temp[k].cost : k \in KindSet}
<1>1. /\ f.best \in Nat /\ \A k \in KindSet : f.temp[k].cost \in Nat /\ f.best <= f.temp[k].cost
  BY MaxNat DEF FrameOf, Temps, Sound
<1>2. MinCost(f) = f.best
  <2>1. f.best \in candidates /\ \A d \in candidates : d \in Nat /\ f.best <= d
    BY <1>1
  <2>2. MinCost(f) = CHOOSE c \in candidates : \A d \in candidates : c <= d
    BY DEF MinCost
  <2> HIDE DEF candidates
  <2>3. MinCost(f) \in candidates /\ \A d \in candidates : MinCost(f) <= d
    BY <2>1, <2>2
  <2>4. MinCost(f) <= f.best /\ f.best <= MinCost(f) /\ MinCost(f) \in Nat
    BY <2>1, <2>3
  <2> QED BY <2>4, <1>1
<1>3. \A i \in 1..Len(Kinds) : Kinds[i] \in KindSet
  BY DEF KindSet
<1>4. \A i : i \in Selected(f) <=> i \in 1..Len(Kinds) /\ f.temp[Kinds[i]].cost = f.best /\ f.best # Max
  BY <1>2 DEF Selected
<1>5. CASE f.coded = Leaf /\ \A k \in KindSet : f.temp[k].cost = f.best => f.best = Max
  <2>1. Selected(f) = {}
    BY <1>3, <1>4, <1>5
  <2> QED BY <2>1, <1>5 DEF StoredTree
<1>6. ASSUME NEW k \in KindSet, f.coded = Tree(k, f.temp[k].subs), f.temp[k].cost = f.best, f.best # Max,
             \A j \in KindSet : f.temp[j].cost = f.best => j = k
      PROVE  StoredTree(f) = f.coded
  <2>1. PICK i \in 1..Len(Kinds) : Kinds[i] = k
    BY DEF KindSet
  <2>2. i \in Selected(f) /\ \A j \in Selected(f) : Kinds[j] = k
    BY <2>1, <1>3, <1>4, <1>6
  <2> DEFINE sel == Selected(f)
             first == CHOOSE j \in sel : \A l \in sel : j <= l
  <2>3. sel \subseteq Nat /\ sel # {}
    BY <2>2, <1>4
  <2>4. first \in sel
    <3> HIDE DEF sel
    <3> QED BY <2>3, LeastNumber
  <2>5. StoredTree(f) = Tree(Kinds[first], f.temp[Kinds[first]].subs)
    BY <2>2 DEF StoredTree, Reading, Writing
  <2> HIDE DEF first
  <2> QED BY <2>2, <2>4, <2>5, <1>6
<1> QED BY <1>5, <1>6 DEF Sound, Chosen

LEMMA ChosenKept ==
  ASSUME NEW f, NEW g, Chosen(f), Kept(f, g), g.kind \in KindSet => f.temp[g.kind].cost = Max
  PROVE  Chosen(g)
<1>1. g.best = f.best /\ g.coded = f.coded /\ \A k \in KindSet : g.temp[k].cost = f.temp[k].cost
  BY DEF Kept
<1>2. CASE f.coded = Leaf /\ \A k \in KindSet : f.temp[k].cost = f.best => f.best = Max
  BY <1>1, <1>2 DEF Chosen
<1>3. ASSUME NEW k \in KindSet, f.coded = Tree(k, f.temp[k].subs), f.temp[k].cost = f.best, f.best # Max,
             \A j \in KindSet : f.temp[j].cost = f.best => j = k
      PROVE  Chosen(g)
  <2>1. k # g.kind
    BY <1>3
  <2>2. g.temp[k].subs = f.temp[k].subs
    BY <2>1 DEF Kept
  <2> QED BY <2>2, <1>1, <1>3 DEF Chosen
<1> QED BY <1>2, <1>3 DEF Chosen

LEMMA SoundNew ==
  ASSUME NEW g, NEW ks \in Orders, Writing, g.todo = <<>> \/ g.todo = ks,
         g.kind = "none", g.coded = Leaf, g.best \in 0..Max, \A k \in KindSet : g.temp[k].cost = Max
  PROVE  Sound(g)
<1>1. ks \in Seq(KindSet) /\ \A i, j \in 1..Len(ks) : ks[i] = ks[j] => i = j
  BY SearchAssumption
<1>2. "none" \notin KindSet /\ g.best <= Max
  BY SearchAssumption, MaxNat
<1>3. Chosen(g)
  BY DEF Chosen
<1>4. \A i \in 1..Len(ks) : ks[i] \in KindSet
  BY <1>1
<1>5. CASE g.todo = <<>>
  BY <1>2, <1>3, <1>5 DEF Sound
<1>6. CASE g.todo = ks
  BY <1>1, <1>2, <1>3, <1>4, <1>6 DEF Sound
<1> QED BY <1>5, <1>6

LEMMA SoundStarted ==
  ASSUME NEW S, NEW f \in FrameOf(S), Sound(f), f.kind = "none", f.todo # <<>>,
         NEW g, Kept(f, g), g.todo = Tail(f.todo), g.kind = Head(f.todo), g.idx = 1
  PROVE  Sound(g)
<1>1. f.todo \in Seq(KindSet)
  BY DEF FrameOf
<1>2. PICK n \in Nat : n = Len(f.todo) /\ n >= 1
  BY <1>1
<1>3. /\ Len(g.todo) = n - 1 /\ \A i \in 1..n - 1 : g.todo[i] = f.todo[i + 1] /\ i + 1 \in 1..n
      /\ g.kind = f.todo[1] /\ 1 \in 1..n /\ g.kind \in KindSet
  BY <1>1, <1>2
<1>4. f.temp[g.kind].cost = Max
  BY <1>2, <1>3 DEF Sound
<1>5. \A k \in KindSet : g.temp[k].cost = f.temp[k].cost
  BY DEF Kept
<1>6. Chosen(g)
  BY <1>4, ChosenKept DEF Sound
<1>7. \A i, j \in 1..n : f.todo[i] = f.todo[j] => i = j
  BY <1>2 DEF Sound
<1>8. \A i \in 1..n : f.temp[f.todo[i]].cost = Max /\ f.todo[i] \in KindSet
  BY <1>1, <1>2 DEF Sound
<1>9. ASSUME NEW i \in 1..n - 1, NEW j \in 1..n - 1, g.todo[i] = g.todo[j] PROVE i = j
  <2>1. i + 1 = j + 1
    BY <1>3, <1>7, <1>9
  <2> QED BY <2>1
<1>10. ASSUME NEW i \in 1..n - 1 PROVE g.temp[g.todo[i]].cost = Max /\ g.todo[i] # g.kind
  <2>1. i + 1 \in 1..n /\ g.todo[i] = f.todo[i + 1] /\ i + 1 # 1
    BY <1>3
  <2>2. f.todo[i + 1] # f.todo[1]
    BY <2>1, <1>3, <1>7
  <2> QED BY <2>1, <2>2, <1>3, <1>5, <1>8
<1>11. \A k \in KindSet : g.best <= g.temp[k].cost
  BY DEF Kept, Sound
<1>12. \A i \in 1..g.idx - 1 : FALSE
  OBVIOUS
<1> QED BY <1>3, <1>4, <1>5, <1>6, <1>9, <1>10, <1>11, <1>12 DEF Sound

LEMMA SoundSkipped ==
  ASSUME NEW S, NEW f \in FrameOf(S), Sound(f), f.kind = "none", f.todo # <<>>,
         NEW g, g = [f EXCEPT !.todo = Tail(f.todo)]
  PROVE  Sound(g)
<1>0. /\ g.kind = f.kind /\ g.best = f.best /\ g.temp = f.temp /\ g.coded = f.coded
      /\ g.todo = Tail(f.todo)
  BY DEF FrameOf
<1>1. f.todo \in Seq(KindSet)
  BY DEF FrameOf
<1>2. PICK n \in Nat : n = Len(f.todo) /\ n >= 1
  BY <1>1
<1>3. Len(g.todo) = n - 1 /\ \A i \in 1..n - 1 : g.todo[i] = f.todo[i + 1] /\ i + 1 \in 1..n
  BY <1>0, <1>1, <1>2
<1>7. \A i, j \in 1..n : f.todo[i] = f.todo[j] => i = j
  BY <1>2 DEF Sound
<1>8. \A i \in 1..n : f.temp[f.todo[i]].cost = Max /\ f.todo[i] # f.kind
  BY <1>2 DEF Sound
<1>9. ASSUME NEW i \in 1..n - 1, NEW j \in 1..n - 1, g.todo[i] = g.todo[j] PROVE i = j
  <2>1. i + 1 = j + 1
    BY <1>3, <1>7, <1>9
  <2> QED BY <2>1
<1>10. \A i \in 1..n - 1 : g.temp[g.todo[i]].cost = Max /\ g.todo[i] # g.kind
  BY <1>0, <1>3, <1>8
<1>11. Chosen(g) /\ \A k \in KindSet : g.best <= g.temp[k].cost
  BY <1>0 DEF Sound, Chosen
<1> QED BY <1>0, <1>3, <1>9, <1>10, <1>11 DEF Sound

\* The next part of a split begins.
LEMMA SoundTaken ==
  ASSUME NEW S, Typed(S), Sound(Top), GotPart, Top.idx < NumParts[Top.kind], ret.stored = ret.coded,
         NEW g, g = At(Taken, Top.idx + 1)
  PROVE  Sound(g)
<1> DEFINE f == Top
           old == Top.temp[Top.kind].subs
           new == g.temp[g.kind].subs
           x == ret.coded
<1>1. /\ Kept(f, g) /\ g.todo = f.todo /\ g.kind = f.kind /\ g.kind \in KindSet
      /\ g.idx = f.idx + 1 /\ g.parts = Append(f.parts, x)
      /\ new = [old EXCEPT ![f.idx] = ret.stored]
  BY TakenIs
<1>2. f \in FrameOf(S) /\ Shaped(f) /\ f.kind # "none"
  BY TopFrame DEF GotPart
<1>3. /\ f.idx \in 1..NumParts[f.kind] /\ Len(old) = NumParts[f.kind] /\ NumParts[f.kind] \in Nat
      /\ Len(f.parts) = f.idx - 1 /\ f.parts \in Seq(S) /\ old \in Seq(S) /\ f.idx \in Nat
  BY <1>1, <1>2, PartsOf DEF Shaped, FrameOf, Subs, Temps
<1>4. new = [old EXCEPT ![f.idx] = x]
  BY <1>1
<1>5. ASSUME NEW i \in 1..f.idx - 1 PROVE f.parts[i] = old[i]
  BY <1>2 DEF Sound
<1> HIDE DEF f, old, new, x
<1>6. ASSUME NEW i \in 1..f.idx PROVE g.parts[i] = new[i]
  <2>1. CASE i = f.idx
    <3>1. new[f.idx] = x
      BY <1>3, <1>4
    <3>2. g.parts[f.idx] = x
      BY <1>1, <1>3
    <3> QED BY <2>1, <3>1, <3>2
  <2>2. CASE i # f.idx
    <3>1. i \in 1..f.idx - 1 /\ i \in 1..Len(old)
      BY <2>2, <1>3
    <3>2. new[i] = old[i]
      BY <3>1, <2>2, <1>3, <1>4
    <3>3. g.parts[i] = f.parts[i]
      BY <3>1, <1>1, <1>3
    <3> QED BY <3>1, <3>2, <3>3, <1>5
  <2> QED BY <2>1, <2>2
<1>7. 1..g.idx - 1 = 1..f.idx
  BY <1>1, <1>3
<1>8. /\ \A k \in KindSet : g.temp[k].cost = f.temp[k].cost
      /\ g.best = f.best
  BY <1>1 DEF Kept
<1>9. Sound(f)
  BY DEF f
<1>10. f.temp[f.kind].cost = Max /\ \A k \in KindSet : f.best <= f.temp[k].cost
  BY <1>2, <1>9 DEF Sound
<1>11. Chosen(g)
  BY <1>1, <1>9, <1>10, ChosenKept DEF Sound
<1>12. \A i \in 1..Len(f.todo) : f.todo[i] \in KindSet
  BY <1>2 DEF FrameOf
<1>13. \A i, j \in 1..Len(g.todo) : g.todo[i] = g.todo[j] => i = j
  BY <1>1, <1>9 DEF Sound
<1>14. \A i \in 1..Len(g.todo) : g.temp[g.todo[i]].cost = Max /\ g.todo[i] # g.kind
  BY <1>1, <1>8, <1>9, <1>12 DEF Sound
<1>15. g.temp[g.kind].cost = Max /\ \A k \in KindSet : g.best <= g.temp[k].cost
  BY <1>1, <1>8, <1>10
<1>16. \A i \in 1..g.idx - 1 : g.parts[i] = g.temp[g.kind].subs[i]
  BY <1>6, <1>7 DEF new
<1> QED BY <1>11, <1>13, <1>14, <1>15, <1>16 DEF Sound

\* A split is left, whatever became of it.
LEMMA SoundClosed ==
  ASSUME NEW S, NEW f \in FrameOf(S), Chosen(f),
         \A i, j \in 1..Len(f.todo) : f.todo[i] = f.todo[j] => i = j,
         \A i \in 1..Len(f.todo) : f.temp[f.todo[i]].cost = Max,
         \A k \in KindSet : f.best <= f.temp[k].cost
  PROVE  Sound(Closed(f))
<1> DEFINE g == Closed(f)
<1>1. g.kind = "none" /\ g.best = f.best /\ g.temp = f.temp /\ g.coded = f.coded /\ g.todo = f.todo
  BY DEF Closed, FrameOf
<1>2. \A i \in 1..Len(f.todo) : f.todo[i] \in KindSet
  BY DEF FrameOf
<1> HIDE DEF g
<1>3. Chosen(g)
  BY <1>1 DEF Chosen
<1>4. \A i \in 1..Len(g.todo) : g.todo[i] # g.kind
  BY <1>1, <1>2, SearchAssumption
<1>5. Sound(g)
  BY <1>1, <1>3, <1>4 DEF Sound
<1> QED BY <1>5 DEF g

LEMMA SoundAbandoned ==
  ASSUME NEW S, Typed(S), Sound(Top), Top.kind # "none", NEW f \in FrameOf(S), Kept(Top, f),
         f.todo = Top.todo, f.kind = Top.kind
  PROVE  Sound(Closed(f))
<1>1. Top \in FrameOf(S)
  BY TopFrame
<1>2. \A i \in 1..Len(Top.todo) : Top.todo[i] \in KindSet
  BY <1>1 DEF FrameOf
<1>3. Chosen(f)
  BY ChosenKept DEF Sound
<1>4. \A k \in KindSet : f.temp[k].cost = Top.temp[k].cost /\ f.best = Top.best
  BY DEF Kept
<1> QED BY <1>2, <1>3, <1>4, SoundClosed DEF Sound

\* The last part: the split is compared with the best so far.
LEMMA SoundEnded ==
  ASSUME NEW S, Typed(S), EndSplit, Sound(Top), ret.stored = ret.coded, EndCost # Top.best,
         NEW f, f = Ended
  PROVE  Sound(Closed(f))
<1> DEFINE t == Top
           old == Top.temp[Top.kind].subs
           new == f.temp[f.kind].subs
           x == ret.coded
           parts == Append(t.parts, x)
<1>1. /\ f.todo = t.todo /\ f.kind = t.kind /\ f.kind \in KindSet
      /\ EndCost \in Nat /\ f.temp[f.kind].cost = EndCost
      /\ new = [old EXCEPT ![t.idx] = ret.stored]
      /\ \A k \in KindSet : k # f.kind => f.temp[k].cost = t.temp[k].cost
                                          /\ f.temp[k].subs = t.temp[k].subs
      /\ IF EndCost < t.best THEN f.best = EndCost /\ f.coded = EndTree
                             ELSE f.best = t.best /\ f.coded = t.coded
      /\ t.idx = NumParts[t.kind] /\ GotPart /\ EndTree = Tree(t.kind, parts)
  BY EndedIs DEF EndTree
<1>2. PICK T : f \in FrameOf(T)
  BY EndedIs
<1>3. t \in FrameOf(S) /\ Shaped(t) /\ t.kind # "none" /\ ret \in Returned(S)
  BY <1>1, TopFrame DEF GotPart, Typed
<1>4. Sound(t)
  OBVIOUS
<1>5. /\ t.idx \in Nat /\ t.idx >= 1 /\ Len(old) = t.idx /\ Len(t.parts) = t.idx - 1
      /\ t.parts \in Seq(S) /\ old \in Seq(S) /\ x \in S
  BY <1>1, <1>3 DEF Shaped, FrameOf, Subs, Temps, Returned
<1>6. new = [old EXCEPT ![t.idx] = x]
  BY <1>1
<1>7. ASSUME NEW i \in 1..t.idx - 1 PROVE t.parts[i] = old[i]
  BY <1>3, <1>4 DEF Sound
<1>8. /\ t.temp[t.kind].cost = Max /\ t.best \in 0..Max
      /\ \A k \in KindSet : t.best <= t.temp[k].cost /\ t.temp[k].cost \in Nat
  BY <1>3, <1>4, MaxNat DEF Sound, FrameOf, Temps
<1> HIDE DEF t, old, new, x, parts
<1>9. parts = new
  <2>1. parts \in Seq(S) /\ Len(parts) = t.idx /\ parts[t.idx] = x /\ \A i \in 1..t.idx - 1 : parts[i] = t.parts[i]
    BY <1>5 DEF parts
  <2>2. new \in Seq(S) /\ Len(new) = t.idx /\ new[t.idx] = x /\ \A i \in 1..t.idx - 1 : new[i] = old[i]
    BY <1>5, <1>6
  <2>3. \A i \in 1..t.idx : i = t.idx \/ i \in 1..t.idx - 1
    BY <1>5
  <2>4. \A i \in 1..Len(parts) : parts[i] = new[i]
    BY <2>1, <2>2, <2>3, <1>7
  <2>5. Len(parts) = Len(new)
    BY <2>1, <2>2
  <2> QED BY ONLY <2>1, <2>2, <2>4, <2>5, SeqEqual
<1>10. /\ \A i \in 1..Len(t.todo) : t.todo[i] \in KindSet /\ t.temp[t.todo[i]].cost = Max /\ t.todo[i] # t.kind
       /\ \A i, j \in 1..Len(t.todo) : t.todo[i] = t.todo[j] => i = j
  BY <1>3, <1>4 DEF FrameOf, Sound
<1>11. \A i \in 1..Len(f.todo) : f.temp[f.todo[i]].cost = Max
  BY <1>1, <1>10
<1>12. CASE EndCost < t.best
  <2>1. f.best = EndCost /\ f.coded = Tree(f.kind, f.temp[f.kind].subs)
    BY <1>1, <1>9, <1>12 DEF new
  <2>2. \A k \in KindSet : k # f.kind => f.best < f.temp[k].cost
    BY <2>1, <1>1, <1>8, <1>12
  <2>3. f.best # Max
    BY <2>1, <1>1, <1>8, <1>12, MaxNat
  <2>4. \A k \in KindSet : f.best <= f.temp[k].cost
    BY <2>1, <2>2, <1>1, <1>8
  <2>5. \A k \in KindSet : f.temp[k].cost = f.best => k = f.kind
    BY <2>1, <2>2, <1>1, <1>8
  <2>6. Chosen(f)
    BY <2>1, <2>3, <2>5, <1>1 DEF Chosen
  <2> QED BY <2>4, <2>6, <1>1, <1>2, <1>10, <1>11, SoundClosed
<1>13. CASE t.best < EndCost
  <2>1. f.best = t.best /\ f.coded = t.coded
    BY <1>1, <1>8, <1>13
  <2>2. f.temp[f.kind].cost # f.best
    BY <2>1, <1>1, <1>8, <1>13
  <2>3. \A k \in KindSet : f.best <= f.temp[k].cost
    BY <2>1, <1>1, <1>8, <1>13
  <2>4. Chosen(f)
    <3>1. CASE t.coded = Leaf /\ \A k \in KindSet : t.temp[k].cost = t.best => t.best = Max
      BY <3>1, <2>1, <2>2, <1>1 DEF Chosen
    <3>2. ASSUME NEW k \in KindSet, t.coded = Tree(k, t.temp[k].subs), t.temp[k].cost = t.best, t.best # Max,
                 \A j \in KindSet : t.temp[j].cost = t.best => j = k
          PROVE  Chosen(f)
      <4>1. k # f.kind
        BY <3>2, <1>1, <1>8
      <4>2. f.temp[k].subs = t.temp[k].subs /\ f.temp[k].cost = t.temp[k].cost
        BY <4>1, <1>1
      <4>3. \A j \in KindSet : f.temp[j].cost = f.best => j = k
        BY <2>1, <2>2, <3>2, <1>1
      <4> QED BY <4>2, <4>3, <2>1, <3>2 DEF Chosen
    <3> QED BY <3>1, <3>2, <1>4 DEF Sound, Chosen
  <2> QED BY <2>3, <2>4, <1>1, <1>2, <1>10, <1>11, SoundClosed
<1>14. EndCost < t.best \/ t.best < EndCost
  <2>1. EndCost # t.best /\ t.best \in Nat
    BY <1>8, MaxNat DEF t
  <2> QED BY <2>1, <1>1
<1> QED BY <1>12, <1>13, <1>14

LEMMA SoundEntered ==
  ASSUME Writing, NEW d \in Nat, NEW path, NEW g \in NewFrames(d, path)
  PROVE  Sound(g)
<1>1. PICK S : S = {Leaf}
  OBVIOUS
<1>2. /\ g \in Frames(S) /\ g.kind = "none" /\ g.coded = Leaf
      /\ \A k \in KindSet : g.temp[k].cost = Max
  BY <1>1, NewFrameIs
<1>3. PICK ks \in Orders : g.todo = IF d = MaxDepth THEN <<>> ELSE Testable(path, ks)
  BY <1>1, NewFrameIs
<1>4. g.todo = <<>> \/ g.todo = ks
  BY <1>3 DEF Testable
<1>5. g.best \in 0..Max
  BY <1>2 DEF Frames, FrameOf
<1> QED BY <1>2, <1>4, <1>5, SoundNew

(* -------------------------------- the invariant -------------------------------- *)

AllSound ==
  /\ \A i \in 1..Len(stack) : Sound(stack[i])
  /\ ret # Nothing => ret.stored = ret.coded

SearchInv ==
  /\ \E S : Typed(S)
  /\ Writing /\ ~tied => AllSound

LEMMA InitTyped ==
  ASSUME Init
  PROVE  Typed({Leaf}) /\ Len(stack) = 1 /\ stack[1] \in NewFrames(0, <<>>)
<1>1. PICK f \in NewFrames(0, <<>>) : stack = <<f>>
  BY DEF Init
<1> DEFINE S == {Leaf}
           zero == 0
<1>2. Leaf \in S /\ zero \in Nat /\ f \in NewFrames(zero, <<>>)
  OBVIOUS
<1>3. f \in Frames(S)
  <2> HIDE DEF S, zero
  <2> QED BY <1>2, NewFrameIs
<1> HIDE DEF S
<1>4. stack \in Seq(Frames(S)) /\ Len(stack) = 1 /\ stack[1] = f /\ Len(stack) >= 1
  BY <1>1, <1>3
<1>5. ret = Nothing /\ tied \in BOOLEAN
  BY DEF Init
<1>6. Typed(S)
  BY <1>2, <1>4, <1>5 DEF Typed
<1> QED BY <1>1, <1>4, <1>6 DEF S

\* Every step keeps the shape of frames and trees; what is loaded stays.
LEMMA NextTyped ==
  ASSUME NEW S, Typed(S), [Next]_vars
  PROVE  (\E T : Typed(T)') /\ loaded' = loaded
<1>1. CASE SkipSplit
  BY <1>1, SkipTyped DEF SkipSplit
<1>2. CASE StartSplit
  BY <1>2, StartTyped, Zenon DEF StartSplit
<1>3. CASE AbandonSplit
  <2> DEFINE f == [WithPart EXCEPT !.idx = 0]
  <2>1. /\ f \in FrameOf(S) /\ f.kind \in KindSet /\ f.round \in 1..f.rounds /\ f.rounds \in Rounds
        /\ RoundOver(f) /\ tied' \in BOOLEAN
    BY <1>3, AbandonTyped
  <2> HIDE DEF f
  <2>2. Typed(S)'
    BY <2>1, RoundOverIs
  <2>3. loaded' = loaded
    BY <2>1 DEF RoundOver
  <2> QED BY <2>2, <2>3
<1>4. CASE NextPart
  BY <1>4, NextPartTyped DEF NextPart
<1>5. CASE EndSplit
  <2> DEFINE f == Ended
  <2>1. /\ f.kind \in KindSet /\ f.round \in 1..f.rounds /\ f.rounds \in Rounds
        /\ RoundOver(f) /\ tied' \in BOOLEAN
    BY <1>5, EndedIs
  <2>2. PICK T : f \in FrameOf(T) /\ Typed(T)
    BY <1>5, EndedIs
  <2> HIDE DEF f
  <2>3. Typed(T)'
    BY <2>1, <2>2, RoundOverIs
  <2>4. loaded' = loaded
    BY <2>1 DEF RoundOver
  <2> QED BY <2>3, <2>4
<1>6. CASE ReturnCu
  BY <1>6, ReturnTyped DEF ReturnCu
<1>7. CASE UNCHANGED vars
  BY <1>7 DEF vars, Typed
<1> QED BY <1>1, <1>2, <1>3, <1>4, <1>5, <1>6, <1>7 DEF Next

\* A storing run with splits of one round: no step spoils a frame unless two costs meet.
LEMMA NextSound ==
  ASSUME Rounds = {1}, NEW S, Typed(S), AllSound, Writing, [Next]_vars, ~tied'
  PROVE  AllSound'
<1> DEFINE n == Len(stack)
<1>0. /\ Top = stack[n] /\ Sound(Top) /\ Top \in FrameOf(S) /\ n \in Nat /\ n \in 1..n
      /\ \A i \in 1..n : Sound(stack[i])
  BY TopFrame DEF Top, AllSound
<1> HIDE DEF n
<1>a. ASSUME n = Len(stack), Len(stack') = n, Sound(stack'[n]), \A j \in 1..n : j # n => stack'[j] = stack[j],
             ret' # Nothing => ret'.stored = ret'.coded
      PROVE  AllSound'
  <2>1. \A j \in 1..n : Sound(stack'[j])
    BY <1>0, <1>a
  <2> QED BY <2>1, <1>a DEF AllSound
<1>b. ASSUME n = Len(stack), Len(stack') = n + 1, Sound(stack'[n]), Sound(stack'[n + 1]),
             \A j \in 1..n : j # n => stack'[j] = stack[j], ret' = Nothing
      PROVE  AllSound'
  <2>1. \A j \in 1..n + 1 : j \in 1..n \/ j = n + 1
    BY <1>0
  <2>2. \A j \in 1..n + 1 : Sound(stack'[j])
    BY <2>1, <1>0, <1>b
  <2> QED BY <2>2, <1>b DEF AllSound
<1>1. CASE SkipSplit
  <2>1. Top.kind = "none" /\ Top.todo # <<>> /\ ret' = ret
    BY <1>1 DEF SkipSplit
  <2>2. Len(stack') = n /\ stack'[n] = [Top EXCEPT !.todo = Tail(Top.todo)]
        /\ \A j \in 1..n : j # n => stack'[j] = stack[j]
    BY <1>1, SkipTyped DEF n
  <2>3. Sound(stack'[n])
    BY <2>1, <2>2, <1>0, SoundSkipped
  <2> QED BY <2>1, <2>2, <2>3, <1>a DEF AllSound, n
<1>2. CASE StartSplit
  <2>1. PICK r \in Rounds :
          /\ ret' = Nothing /\ Top.kind = "none" /\ Top.todo # <<>>
          /\ Len(stack') = n + 1 /\ stack'[n] = At(Begun(Started(Top, r)), 1)
          /\ stack'[n + 1] \in NewFrames(Top.depth + 1, CursorDown(1))
          /\ \A j \in 1..n : j # n => stack'[j] = stack[j]
    BY <1>2, StartTyped DEF n
  <2> DEFINE f == Top
             g == At(Begun(Started(f, r)), 1)
             d == Top.depth + 1
  <2>2. f \in FrameOf(S) /\ Sound(f) /\ f.kind = "none" /\ f.todo # <<>> /\ Leaf \in S /\ d \in Nat
    BY <1>0, <2>1 DEF Typed, FrameOf
  <2> HIDE DEF f
  <2>3. Kept(f, g) /\ g.todo = Tail(f.todo) /\ g.kind = Head(f.todo) /\ g.idx = 1
    BY <2>2, StartedIs
  <2>4. stack'[n] = g /\ stack'[n + 1] \in NewFrames(d, CursorDown(1))
    BY <2>1 DEF f
  <2> HIDE DEF g, d
  <2>5. Sound(g)
    BY <2>2, <2>3, SoundStarted
  <2>6. Sound(stack'[n + 1])
    BY <2>2, <2>4, SoundEntered
  <2> QED BY <2>1, <2>4, <2>5, <2>6, <1>b DEF n
<1>3. CASE AbandonSplit
  <2> DEFINE f == [WithPart EXCEPT !.idx = 0]
  <2>1. /\ f \in FrameOf(S) /\ Kept(Top, f) /\ f.todo = Top.todo /\ f.kind = Top.kind
        /\ f.kind \in KindSet /\ f.round \in 1..f.rounds /\ f.rounds \in Rounds
        /\ RoundOver(f) /\ tied' \in BOOLEAN
    BY <1>3, AbandonTyped
  <2> HIDE DEF f
  <2>2. ~(f.round < f.rounds)
    BY <2>1
  <2>3. /\ ret' = Nothing /\ Len(stack') = n /\ stack'[n] = Closed(f)
        /\ \A j \in 1..n : j # n => stack'[j] = stack[j]
    BY <2>1, <2>2, RoundOverIs DEF n
  <2>4. Sound(Closed(f))
    BY <2>1, <1>0, SoundAbandoned, SearchAssumption
  <2> QED BY <2>3, <2>4, <1>a DEF n
<1>4. CASE NextPart
  <2> DEFINE g == At(Taken, Top.idx + 1)
             d == Top.depth + 1
  <2>1. /\ ret' = Nothing /\ GotPart /\ Top.idx < NumParts[Top.kind]
        /\ Len(stack') = n + 1 /\ stack'[n] = g
        /\ stack'[n + 1] \in NewFrames(d, CursorDown(Top.idx + 1))
        /\ \A j \in 1..n : j # n => stack'[j] = stack[j]
    BY <1>4, NextPartTyped DEF n
  <2>2. d \in Nat /\ ret.stored = ret.coded
    BY <1>0, <2>1 DEF FrameOf, AllSound, GotPart
  <2> HIDE DEF g, d
  <2>3. Sound(g)
    BY <2>1, <2>2, <1>0, SoundTaken DEF g
  <2>4. Sound(stack'[n + 1])
    BY <2>1, <2>2, SoundEntered
  <2> QED BY <2>1, <2>3, <2>4, <1>b DEF n
<1>5. CASE EndSplit
  <2> DEFINE f == Ended
  <2>1. /\ f.kind \in KindSet /\ f.round \in 1..f.rounds /\ f.rounds \in Rounds
        /\ RoundOver(f) /\ tied' \in BOOLEAN /\ tied' = (tied \/ EndCost = Top.best) /\ GotPart
    BY <1>5, EndedIs
  <2>2. PICK T : f \in FrameOf(T) /\ Typed(T)
    BY <1>5, EndedIs
  <2>3. EndCost # Top.best /\ ret.stored = ret.coded
    BY <2>1 DEF AllSound, GotPart
  <2>4. Sound(Closed(f))
    BY <1>5, <2>3, <1>0, SoundEnded
  <2> HIDE DEF f
  <2>5. ~(f.round < f.rounds)
    BY <2>1
  <2>6. /\ ret' = Nothing /\ Len(stack') = n /\ stack'[n] = Closed(f)
        /\ \A j \in 1..n : j # n => stack'[j] = stack[j]
    BY <2>1, <2>2, <2>5, RoundOverIs DEF n
  <2> QED BY <2>4, <2>6, <1>a DEF n
<1>6. CASE ReturnCu
  <2>1. /\ Len(stack') = n - 1 /\ \A j \in 1..Len(stack') : stack'[j] = stack[j]
        /\ ret' = [cost |-> Top.best, coded |-> Top.coded, stored |-> StoredTree(Top), done |-> TRUE]
    BY <1>6, ReturnTyped DEF n
  <2>2. ret'.stored = ret'.coded
    BY <2>1, <1>0, SoundStores
  <2>3. \A j \in 1..Len(stack') : Sound(stack'[j])
    BY <2>1, <1>0
  <2> QED BY <2>2, <2>3 DEF AllSound
<1>7. CASE UNCHANGED vars
  <2>1. stack' = stack /\ ret' = ret
    BY <1>7 DEF vars
  <2> QED BY <2>1 DEF AllSound
<1> QED BY <1>1, <1>2, <1>3, <1>4, <1>5, <1>6, <1>7 DEF Next

\* Two equal costs leave their mark.
LEMMA TiedStays == ASSUME NEW S, Typed(S), [Next]_vars, tied PROVE tied'
<1>1. CASE EndSplit
  BY <1>1, EndedIs
<1> QED BY <1>1, Zenon DEF Next, SkipSplit, StartSplit, AbandonSplit, NextPart, ReturnCu, vars

\* So does a refusal.
LEMMA RefusedStays == ASSUME [Next]_vars, refused PROVE refused'
<1>1. CASE SkipSplit
  BY <1>1 DEF SkipSplit
<1>2. ASSUME NEW f, NEW i, EnterPart(f, i) PROVE refused'
  BY <1>2 DEF EnterPart
<1>3. CASE StartSplit
  BY <1>2, <1>3, Zenon DEF StartSplit, BeginRound
<1>4. ASSUME NEW f, RoundOver(f) PROVE refused'
  BY <1>2, <1>4, Zenon DEF RoundOver, BeginRound
<1>5. CASE AbandonSplit
  BY <1>4, <1>5, Zenon DEF AbandonSplit
<1>6. CASE NextPart
  BY <1>2, <1>6, Zenon DEF NextPart
<1>7. CASE EndSplit
  BY <1>4, <1>7, Zenon DEF EndSplit
<1>8. CASE ReturnCu
  BY <1>8 DEF ReturnCu
<1>9. CASE UNCHANGED vars
  BY <1>9 DEF vars
<1> QED BY <1>1, <1>3, <1>5, <1>6, <1>7, <1>8, <1>9, Zenon DEF Next

\* So does a CU coded unsplit where the loaded tree splits.
LEMMA OverruledStays == ASSUME [Next]_vars, overruled PROVE overruled'
<1>1. CASE SkipSplit
  BY <1>1 DEF SkipSplit
<1>2. ASSUME NEW f, NEW i, EnterPart(f, i) PROVE overruled'
  BY <1>2 DEF EnterPart
<1>3. CASE StartSplit
  BY <1>2, <1>3, Zenon DEF StartSplit, BeginRound
<1>4. ASSUME NEW f, RoundOver(f) PROVE overruled'
  BY <1>2, <1>4, Zenon DEF RoundOver, BeginRound
<1>5. CASE AbandonSplit
  BY <1>4, <1>5, Zenon DEF AbandonSplit
<1>6. CASE NextPart
  BY <1>2, <1>6, Zenon DEF NextPart
<1>7. CASE EndSplit
  BY <1>4, <1>7, Zenon DEF EndSplit
<1>8. CASE ReturnCu
  BY <1>8 DEF ReturnCu
<1>9. CASE UNCHANGED vars
  BY <1>9 DEF vars
<1> QED BY <1>1, <1>3, <1>5, <1>6, <1>7, <1>8, <1>9, Zenon DEF Next

\* Type correctness of the search: whatever is tested, skipped or abandoned, every CU on
\* the stack keeps the shape xCompressCU gives it, and a split in progress as many leaves
\* in its temporary tree as it has parts.
THEOREM SearchTyped == Spec => [](\E S : Typed(S))
<1> DEFINE Shape == \E S : Typed(S)
<1>1. Init => Shape
  BY InitTyped
<1>2. Shape /\ [Next]_vars => Shape'
  <2> SUFFICES ASSUME NEW S, Typed(S), [Next]_vars PROVE Shape'
    OBVIOUS
  <2>1. PICK T : Typed(T)'
    BY NextTyped
  <2> QED BY <2>1
<1> HIDE DEF Shape
<1>3. Spec => []Shape
  BY <1>1, <1>2, PTL DEF Spec
<1> QED BY <1>3 DEF Shape

\* What a storing run writes for a CTU is the partition it codes: two recursions of
\* xCompressCU keep the two answers apart, and only equal costs let them differ.
THEOREM StoredIsCodedHolds == ASSUME Rounds = {1} PROVE Spec => []StoredIsCoded
<1>1. Init => SearchInv
  <2> SUFFICES ASSUME Init PROVE SearchInv
    OBVIOUS
  <2>1. Typed({Leaf}) /\ Len(stack) = 1 /\ stack[1] \in NewFrames(0, <<>>) /\ ret = Nothing
    BY InitTyped DEF Init
  <2>2. Writing => Sound(stack[1])
    <3> DEFINE zero == 0
    <3>1. zero \in Nat /\ stack[1] \in NewFrames(zero, <<>>)
      BY <2>1
    <3> HIDE DEF zero
    <3> QED BY <3>1, SoundEntered
  <2>3. \A i \in 1..Len(stack) : i = 1
    BY <2>1
  <2> QED BY <2>1, <2>2, <2>3 DEF SearchInv, AllSound
<1>2. SearchInv /\ [Next]_vars => SearchInv'
  <2> SUFFICES ASSUME SearchInv, [Next]_vars PROVE SearchInv'
    OBVIOUS
  <2>1. PICK S : Typed(S)
    BY DEF SearchInv
  <2>2. (\E T : Typed(T)') /\ loaded' = loaded
    BY <2>1, NextTyped
  <2>3. ASSUME Writing', ~tied' PROVE AllSound'
    <3>1. Writing /\ ~tied
      BY <2>1, <2>2, <2>3, TiedStays DEF Writing, Reading
    <3>2. AllSound
      BY <3>1 DEF SearchInv
    <3> QED BY <3>1, <3>2, <2>1, <2>3, NextSound
  <2> QED BY <2>2, <2>3 DEF SearchInv
<1>3. SearchInv => StoredIsCoded
  <2> SUFFICES ASSUME SearchInv, Writing, Done, ~tied PROVE StoredTree(Top) = Top.coded
    BY DEF StoredIsCoded
  <2>1. PICK S : Typed(S)
    BY DEF SearchInv
  <2>2. Top \in FrameOf(S) /\ Sound(Top)
    BY <2>1, TopFrame DEF SearchInv, AllSound, Top
  <2> QED BY <2>2, SoundStores
<1> QED BY <1>1, <1>2, <1>3, PTL DEF Spec

(* ------------------------------- the reading run ------------------------------- *)

\* The trees a storing run can write, level by level.
LEMMA TreesAre ==
  /\ MaxDepth \in Nat /\ TreesOf[0] = {Leaf}
  /\ \A h \in 1..MaxDepth : TreesOf[h] = Grown(TreesOf[h - 1])
<1> DEFINE leaves == {Leaf}
           Is(g, n) == g = [h \in 0..n |-> IF h = 0 THEN leaves ELSE Grown(g[h - 1])]
           without == {n \in 0..MaxDepth : ~ \E g : Is(g, n)}
<1>1. MaxDepth \in Nat
  BY SearchAssumption
<1>2. \E g : Is(g, 0)
  <2>1. PICK g : g = [h \in 0..0 |-> leaves]
    OBVIOUS
  <2>2. Is(g, 0)
    BY <2>1
  <2> QED BY <2>2
<1>3. ASSUME NEW n \in Nat, NEW g, Is(g, n) PROVE \E f : Is(f, n + 1)
  <2> DEFINE m == n + 1
  <2> HIDE DEF leaves
  <2>0. /\ m \in Nat /\ 0 \in 0..n /\ n \in 0..n /\ m # 0 /\ m - 1 = n
        /\ \A h \in 0..m : h \in 0..n \/ h = m
        /\ \A h \in 0..n : h <= n /\ (h # 0 => h - 1 \in 0..n) /\ h # m
    OBVIOUS
  <2>1. PICK f : f = [h \in 0..m |-> IF h = m THEN Grown(g[n]) ELSE g[h]]
    OBVIOUS
  <2> HIDE DEF m
  <2>2. \A h \in 0..n : g[h] = IF h = 0 THEN leaves ELSE Grown(g[h - 1])
    BY <1>3
  <2>3. f[m] = Grown(g[n]) /\ \A h \in 0..n : f[h] = g[h]
    <3>1. m \in 0..m /\ \A h \in 0..n : h \in 0..m
      BY <2>0 DEF m
    <3> QED BY <3>1, <2>0, <2>1
  <2>4. ASSUME NEW h \in 0..m PROVE f[h] = IF h = 0 THEN leaves ELSE Grown(f[h - 1])
    <3>1. CASE h \in 0..n
      BY <3>1, <2>0, <2>2, <2>3
    <3>2. CASE h = m
      BY <3>2, <2>0, <2>3
    <3> QED BY <3>1, <3>2, <2>0
  <2>5. f = [h \in 0..m |-> f[h]]
    BY <2>1
  <2>6. Is(f, m)
    BY <2>4, <2>5
  <2> QED BY <2>6 DEF m
<1>4. \E g : Is(g, MaxDepth)
  <2> HIDE DEF Is
  <2> SUFFICES ASSUME without # {} PROVE FALSE
    BY <1>1
  <2>0. without \subseteq Nat
    BY <1>1
  <2>1. PICK n \in without : \A m \in without : n <= m
    <3> HIDE DEF without
    <3> QED BY <2>0, LeastNumber
  <2>2. n # 0 /\ n \in 0..MaxDepth /\ ~ \E g : Is(g, n)
    BY <2>1, <1>2
  <2>3. n - 1 \in Nat /\ n - 1 \in 0..MaxDepth /\ ~(n <= n - 1) /\ (n - 1) + 1 = n
    BY <2>2, <1>1
  <2>4. \E g : Is(g, n - 1)
    BY <2>1, <2>3
  <2>5. \E g : Is(g, n)
    <3> DEFINE m == n - 1
    <3>1. m \in Nat /\ m + 1 = n /\ \E g : Is(g, m)
      BY <2>3, <2>4
    <3> HIDE DEF m
    <3> QED BY <3>1, <1>3
  <2> QED BY <2>2, <2>5
<1>5. Is(TreesOf, MaxDepth)
  BY <1>4 DEF TreesOf
<1>6. 0 \in 0..MaxDepth /\ \A h \in 1..MaxDepth : h \in 0..MaxDepth /\ h # 0
  BY <1>1
<1>7. TreesOf[0] = leaves /\ \A h \in 1..MaxDepth : TreesOf[h] = Grown(TreesOf[h - 1])
  <2> HIDE DEF leaves
  <2>1. \A h \in 0..MaxDepth : TreesOf[h] = IF h = 0 THEN leaves ELSE Grown(TreesOf[h - 1])
    BY <1>5
  <2> QED BY <2>1, <1>6
<1> QED BY <1>1, <1>7

LEMMA TreeIs ==
  ASSUME NEW h \in 0..MaxDepth, NEW t \in TreesOf[h]
  PROVE  \/ t = Leaf
         \/ /\ h - 1 \in 0..MaxDepth /\ h \in 1..MaxDepth /\ t.kind \in KindSet /\ t = Tree(t.kind, t.subs)
            /\ t.subs \in [1..NumParts[t.kind] -> TreesOf[h - 1]]
<1>1. CASE h = 0
  BY <1>1, TreesAre
<1>2. CASE h # 0
  <2>1. h \in 1..MaxDepth /\ h - 1 \in 0..MaxDepth
    BY <1>2, TreesAre
  <2>2. t = Leaf \/ t \in Grown(TreesOf[h - 1])
    BY <2>1, TreesAre
  <2>3. ASSUME t # Leaf
        PROVE  /\ t.kind \in KindSet /\ t = Tree(t.kind, t.subs)
               /\ t.subs \in [1..NumParts[t.kind] -> TreesOf[h - 1]]
    <3>1. PICK k \in KindSet : t \in {Tree(k, s) : s \in [1..NumParts[k] -> TreesOf[h - 1]]}
      BY <2>2, <2>3 DEF Grown
    <3>2. PICK s \in [1..NumParts[k] -> TreesOf[h - 1]] : t = Tree(k, s)
      BY <3>1
    <3>3. t.kind = k /\ t.subs = s
      BY <3>2 DEF Tree
    <3> QED BY <3>2, <3>3
  <2> QED BY <2>1, <2>2, <2>3
<1> QED BY <1>1, <1>2

\* The node under the cursor, when the nodes on the way to it are known.
LEMMA NodeOf ==
  ASSUME NEW n \in Nat, NEW path \in Seq(Nat), Len(path) = n, NEW nodes, nodes[1] = loaded,
         \A i \in 1..n : nodes[i + 1] = nodes[i].subs[path[i]]
  PROVE  NodeAt(path) = nodes[n + 1]
<1> DEFINE Is(g) == g = [i \in 0..n |-> IF i = 0 THEN loaded ELSE g[i - 1].subs[path[i]]]
           at == CHOOSE g : Is(g)
           wrong == {i \in 0..n : at[i] # nodes[i + 1]}
<1>1. NodeAt(path) = at[n]
  BY DEF NodeAt
<1>2. \E g : Is(g)
  <2>1. PICK g : g = [i \in 0..n |-> nodes[i + 1]]
    OBVIOUS
  <2>2. ASSUME NEW i \in 0..n PROVE g[i] = IF i = 0 THEN loaded ELSE g[i - 1].subs[path[i]]
    <3>1. CASE i = 0
      BY <3>1, <2>1
    <3>2. CASE i # 0
      <4>1. i \in 1..n /\ i - 1 \in 0..n /\ (i - 1) + 1 = i
        BY <3>2
      <4>2. g[i] = nodes[i + 1] /\ g[i - 1] = nodes[i]
        BY <4>1, <2>1
      <4> QED BY <4>1, <4>2, <3>2
    <3> QED BY <3>1, <3>2
  <2>3. g = [i \in 0..n |-> g[i]]
    BY <2>1
  <2> QED BY <2>2, <2>3
<1>3. Is(at)
  <2> HIDE DEF Is
  <2> QED BY <1>2
<1>4. at[0] = loaded /\ \A i \in 1..n : at[i] = at[i - 1].subs[path[i]]
  <2> HIDE DEF at
  <2>1. \A i \in 0..n : at[i] = IF i = 0 THEN loaded ELSE at[i - 1].subs[path[i]]
    BY <1>3
  <2> QED BY <2>1
<1> HIDE DEF at
<1>5. wrong = {}
  <2> SUFFICES ASSUME wrong # {} PROVE FALSE
    OBVIOUS
  <2>0. wrong \subseteq Nat
    OBVIOUS
  <2>1. PICK i \in wrong : \A j \in wrong : i <= j
    <3> HIDE DEF wrong
    <3> QED BY <2>0, LeastNumber
  <2>2. i # 0 /\ i \in 0..n
    BY <2>1, <1>4
  <2>3. i \in 1..n /\ i - 1 \in 0..n /\ ~(i <= i - 1) /\ (i - 1) + 1 = i
    BY <2>2
  <2>4. at[i - 1] = nodes[i]
    BY <2>1, <2>3
  <2>5. at[i] = nodes[i + 1]
    BY <2>3, <2>4, <1>4
  <2> QED BY <2>1, <2>5
<1> QED BY <1>1, <1>5

\* A CU of a reading run beside the node under the cursor, when a CU costs at most whole
\* and each of its parts at most part: untouched, under way, or coded as the node says;
\* or without a coding, when lost says that something has been refused.
Copied(f, node, whole, lost) == \/ f.coded = node /\ f.best <= whole
                                \/ lost /\ f.best = Max

Follows(f, node, whole, part, lost) ==
  \/ node = Leaf /\ f.kind = "none" /\ f.todo = <<>> /\ Copied(f, node, whole, lost)
  \/ /\ node.kind \in KindSet
     /\ \/ f.kind = "none" /\ f.todo = <<node.kind>> /\ f.best = Max
        \/ f.kind = "none" /\ f.todo = <<>> /\ Copied(f, node, whole, lost)
        \/ /\ f.kind = node.kind /\ f.todo = <<>>
           /\ f.best = Max \/ Copied(f, node, whole, lost)
           /\ f.acc <= (f.idx - 1) * part
           /\ \A i \in 1..f.idx - 1 : f.parts[i] = node.subs[i]

\* One more refusal leaves it beside its node.
LEMMA FollowsStill ==
  ASSUME NEW f, NEW node, NEW whole, NEW part, NEW was, NEW lost, was => lost,
         Follows(f, node, whole, part, was)
  PROVE  Follows(f, node, whole, part, lost)
<1>1. Copied(f, node, whole, was) => Copied(f, node, whole, lost)
  BY DEF Copied
<1> QED BY <1>1, Zenon DEF Follows

\* A CU that is entered in a reading run.
LEMMA FollowsNew ==
  ASSUME Reading, NEW bound, Budget(bound), NEW d \in 0..MaxDepth, NEW path,
         NodeAt(path) \in TreesOf[MaxDepth - d], NEW g \in NewFrames(d, path), NEW part,
         NEW lost, NoMode(path, g) => lost, ~Overrules(path, g)
  PROVE  Follows(g, NodeAt(path), bound[MaxDepth - d], part, lost) /\ g.depth = d
<1> DEFINE h == MaxDepth - d
           node == NodeAt(path)
<1>1. h \in 0..MaxDepth /\ d \in Nat
  BY SearchAssumption
<1>2. \E S : Leaf \in S
  <2>1. Leaf \in {Leaf}
    OBVIOUS
  <2> QED BY <2>1
<1>3. /\ g.kind = "none" /\ g.coded = Leaf /\ g.depth = d /\ g.best \in NoSplitCosts(path)
      /\ \E ks \in Orders : g.todo = IF d = MaxDepth THEN <<>> ELSE Testable(path, ks)
  BY ONLY <1>1, <1>2, g \in NewFrames(d, path), NewFrameIs
<1>4. ~Writing
  BY DEF Writing
<1>5. CASE node = Leaf
  <2>1. node.kind = "none" /\ "none" \notin KindSet
    BY <1>5, SearchAssumption DEF Leaf
  <2>2. g.todo = <<>>
    BY <2>1, <1>3, <1>4 DEF Testable
  <2>3. g.best \in Costs \/ g.best = Max
    BY <2>1, <1>3, <1>4 DEF NoSplitCosts
  <2>4. CASE g.best \in Costs
    <3>1. g.best <= bound[h]
      BY <2>4, <1>1 DEF Budget
    <3>2. Copied(g, node, bound[h], lost)
      BY <3>1, <1>3, <1>5 DEF Copied
    <3> QED BY <3>2, <2>2, <1>3, <1>5, Zenon DEF Follows
  <2>5. CASE g.best = Max
    <3>1. lost
      BY <2>1, <2>5 DEF NoMode
    <3>2. Copied(g, node, bound[h], lost)
      BY <3>1, <2>5 DEF Copied
    <3> QED BY <3>2, <2>2, <1>3, <1>5, Zenon DEF Follows
  <2> QED BY <2>3, <2>4, <2>5
<1>6. CASE h \in 1..MaxDepth /\ node.kind \in KindSet
  <2>1. node.kind # "none" /\ d # MaxDepth
    BY <1>6, SearchAssumption
  <2>2. g.todo = <<node.kind>>
    BY <2>1, <1>3, <1>4, <1>6 DEF Testable
  <2>3. g.best = Max
    BY <2>1 DEF Overrules
  <2> QED BY <2>2, <2>3, <1>3, <1>6 DEF Follows
<1>7. node = Leaf \/ (h \in 1..MaxDepth /\ node.kind \in KindSet)
  <2> HIDE DEF h, node
  <2>1. node \in TreesOf[h]
    BY DEF h, node
  <2> QED BY <2>1, <1>1, TreeIs
<1> QED BY <1>3, <1>5, <1>6, <1>7

\* A leaf is not a split.
LEMMA LeafOrSplit ==
  ASSUME NEW f, NEW node, NEW whole, NEW part, NEW lost, Follows(f, node, whole, part, lost)
  PROVE  /\ node.kind \in KindSet => node # Leaf
         /\ f.todo # <<>> => /\ node.kind \in KindSet /\ f.kind = "none" /\ f.todo = <<node.kind>>
                             /\ f.best = Max
         /\ f.kind # "none" => /\ node.kind \in KindSet /\ f.kind = node.kind /\ f.todo = <<>>
                               /\ f.best = Max \/ Copied(f, node, whole, lost)
                               /\ f.acc <= (f.idx - 1) * part
                               /\ \A i \in 1..f.idx - 1 : f.parts[i] = node.subs[i]
         /\ f.kind = "none" /\ f.todo = <<>> => Copied(f, node, whole, lost)
<1>1. node.kind \in KindSet => node # Leaf
  BY SearchAssumption DEF Leaf
<1>2. \A k : <<k>> # <<>>
  OBVIOUS
<1>3. "none" \notin KindSet
  BY SearchAssumption
<1>4. CASE node = Leaf /\ f.kind = "none" /\ f.todo = <<>> /\ Copied(f, node, whole, lost)
  BY <1>1, <1>4
<1>5. CASE node.kind \in KindSet /\ f.kind = "none" /\ f.todo = <<node.kind>> /\ f.best = Max
  BY <1>1, <1>2, <1>5
<1>6. CASE node.kind \in KindSet /\ f.kind = "none" /\ f.todo = <<>> /\ Copied(f, node, whole, lost)
  BY <1>1, <1>6
<1>7. CASE /\ node.kind \in KindSet /\ f.kind = node.kind /\ f.todo = <<>>
           /\ f.best = Max \/ Copied(f, node, whole, lost)
           /\ f.acc <= (f.idx - 1) * part
           /\ \A i \in 1..f.idx - 1 : f.parts[i] = node.subs[i]
  BY <1>1, <1>3, <1>7
<1> QED BY <1>4, <1>5, <1>6, <1>7 DEF Follows

LEMMA FollowsBegun ==
  ASSUME NEW S, NEW node, node.kind \in KindSet, NEW whole, NEW part \in Nat, NEW lost, NEW g,
         g.kind = node.kind, g.todo = <<>>, g.idx = 1, g.acc = 0,
         g.best = Max \/ Copied(g, node, whole, lost)
  PROVE  Follows(g, node, whole, part, lost)
<1>1. g.acc <= (g.idx - 1) * part /\ \A i \in 1..g.idx - 1 : FALSE
  BY SMT
<1> QED BY <1>1 DEF Follows

LEMMA FollowsClosed ==
  ASSUME NEW S, NEW f \in FrameOf(S), NEW node, node.kind \in KindSet, NEW whole, NEW part,
         NEW lost, f.todo = <<>>, Copied(f, node, whole, lost)
  PROVE  Follows(Closed(f), node, whole, part, lost)
<1> DEFINE g == Closed(f)
<1>1. g.kind = "none" /\ g.best = f.best /\ g.coded = f.coded /\ g.todo = f.todo
  BY DEF Closed, FrameOf
<1> HIDE DEF g
<1>2. Follows(g, node, whole, part, lost)
  BY <1>1 DEF Follows, Copied
<1> QED BY <1>2 DEF g

\* The parts so far cost no more than as many dear ones.
LEMMA SumOfParts ==
  ASSUME NEW i \in Nat, NEW n \in Nat, i >= 1, i <= n, NEW part \in Nat, NEW acc \in Nat, NEW c \in Nat,
         acc <= (i - 1) * part, c <= part
  PROVE  acc + c <= i * part /\ i * part <= n * part /\ acc + c <= (i + 1 - 1) * part
<1>1. (i - 1) * part + part = i * part
  OBVIOUS
<1>2. PICK k \in Nat : n = i + k
  BY n - i \in Nat
<1>3. n * part = i * part + k * part
  BY <1>2
<1>4. k * part \in Nat /\ i * part \in Nat /\ (i - 1) * part \in Int
  OBVIOUS
<1>5. i + 1 - 1 = i
  OBVIOUS
<1> QED BY <1>1, <1>3, <1>4, <1>5

\* What holds of a part that has returned to a frame that follows its node.
PartReplayed(node, part, lost) == \/ ret.coded = node.subs[Top.idx] /\ ret.cost <= part
                                  \/ lost /\ ret.cost = Max

LEMMA FollowsTaken ==
  ASSUME NEW S, Typed(S), GotPart, ~PartFails, Top.idx < NumParts[Top.kind], NEW node, NEW whole,
         NEW part \in Nat, NEW lost, Follows(Top, node, whole, part, lost), PartReplayed(node, part, lost), NEW g, g = At(Taken, Top.idx + 1)
  PROVE  Follows(g, node, whole, part, lost) /\ g.kind # "none" /\ g.idx = Top.idx + 1
         /\ g.depth = Top.depth /\ node.kind = Top.kind
<1> DEFINE f == Top
           x == ret.coded
           c == ret.cost
<1>1. /\ Kept(f, g) /\ g.todo = f.todo /\ g.kind = f.kind /\ g.kind \in KindSet
      /\ g.idx = f.idx + 1 /\ g.parts = Append(f.parts, x) /\ g.acc = f.acc + c
  BY TakenIs
<1>2. f \in FrameOf(S) /\ Shaped(f) /\ f.kind # "none" /\ ret \in Returned(S)
  BY TopFrame DEF GotPart, Typed
<1>3. /\ node.kind \in KindSet /\ f.kind = node.kind /\ f.todo = <<>>
      /\ f.best = Max \/ Copied(f, node, whole, lost)
      /\ f.acc <= (f.idx - 1) * part
      /\ \A i \in 1..f.idx - 1 : f.parts[i] = node.subs[i]
  BY <1>2, LeafOrSplit
<1>4. x = node.subs[f.idx] /\ c <= part /\ c \in Nat
  BY <1>2, MaxNat DEF PartReplayed, PartFails, Returned
<1>5. /\ f.idx \in Nat /\ f.idx >= 1 /\ f.acc \in Nat /\ f.parts \in Seq(S) /\ Len(f.parts) = f.idx - 1
      /\ x \in S
  <2>1. f.acc \in Nat /\ f.parts \in Seq(S) /\ f.idx \in Nat /\ x \in S
    BY <1>2 DEF FrameOf, Subs, Returned
  <2>2. f.idx \in 1..NumParts[f.kind] /\ Len(f.parts) = f.idx - 1
    BY <1>2 DEF Shaped
  <2> QED BY <2>1, <2>2
<1> HIDE DEF f, x, c
<1>6. g.acc <= (g.idx - 1) * part
  <2>1. f.acc + c <= f.idx * part
    BY <1>3, <1>4, <1>5, SumOfParts
  <2>2. g.idx - 1 = f.idx
    BY <1>1, <1>5
  <2>3. g.acc <= f.idx * part
    BY <2>1, <1>1
  <2> QED BY ONLY <2>2, <2>3
<1>7. ASSUME NEW i \in 1..g.idx - 1 PROVE g.parts[i] = node.subs[i]
  <2>0. i \in 1..f.idx
    BY <1>1, <1>5
  <2>1. CASE i = f.idx
    <3>1. g.parts[f.idx] = x
      BY <1>1, <1>5
    <3> QED BY <2>1, <3>1, <1>4
  <2>2. CASE i # f.idx
    <3>1. i \in 1..f.idx - 1
      BY <2>0, <2>2, <1>5
    <3>2. i \in 1..Len(f.parts)
      BY <3>1, <1>5
    <3> DEFINE old == f.parts
    <3>3. old \in Seq(S) /\ i \in 1..Len(old) /\ g.parts = Append(old, x)
      BY <3>2, <1>1, <1>5
    <3> HIDE DEF old
    <3>4. g.parts[i] = old[i]
      BY <3>3
    <3> QED BY <3>1, <3>4, <1>3 DEF old
  <2> QED BY <2>1, <2>2
<1>8. g.best = Max \/ Copied(g, node, whole, lost)
  BY <1>1, <1>3 DEF Kept, Copied
<1>9. g.depth = f.depth
  BY <1>1 DEF Kept
<1>10. g.kind # "none"
  BY <1>1, SearchAssumption
<1>11. Follows(g, node, whole, part, lost)
  BY <1>1, <1>3, <1>6, <1>7, <1>8 DEF Follows
<1> QED BY <1>1, <1>3, <1>9, <1>10, <1>11 DEF f

\* A round is given up because the node is coded already, or because a part was refused.
LEMMA FollowsAbandoned ==
  ASSUME NEW S, Typed(S), GotPart, PartFails \/ TooDear, NEW node, NEW whole \in Nat, whole < Max,
         NEW part \in Nat, part < Max, NEW lost, Follows(Top, node, whole, part, lost),
         PartReplayed(node, part, lost), NumParts[Top.kind] * part <= whole
  PROVE  Copied(Top, node, whole, lost) /\ Top.todo = <<>> /\ node.kind \in KindSet
<1> DEFINE f == Top
           c == ret.cost
           n == NumParts[Top.kind]
<1>1. f \in FrameOf(S) /\ Shaped(f) /\ f.kind # "none" /\ ret \in Returned(S)
  BY TopFrame DEF GotPart, Typed
<1>2. /\ node.kind \in KindSet /\ f.kind = node.kind /\ f.todo = <<>>
      /\ f.best = Max \/ Copied(f, node, whole, lost)
      /\ f.acc <= (f.idx - 1) * part
  BY <1>1, LeafOrSplit
<1>3. CASE lost
  BY <1>2, <1>3 DEF Copied
<1>4. CASE ~lost
  <2>1. c <= part /\ c \in Nat /\ n \in Nat /\ f.acc \in Nat /\ f.best \in Nat
    <3>1. c <= part /\ c \in 0..Max
      BY <1>1, <1>4 DEF PartReplayed, Returned
    <3>2. f.acc \in Nat /\ f.best \in 0..Max
      BY <1>1 DEF FrameOf
    <3>3. n \in Nat
      BY <1>2, PartsOf
    <3> QED BY <3>1, <3>2, <3>3, MaxNat
  <2>2. f.idx \in 1..n
    BY <1>1 DEF Shaped
  <2>3. f.acc + c > f.best
    BY <2>1, MaxNat DEF PartFails, TooDear
  <2> HIDE DEF f, c, n
  <2>4. f.acc + c <= f.idx * part /\ f.idx * part <= n * part
    <3>1. f.idx \in Nat /\ f.idx >= 1 /\ f.idx <= n
      BY <2>1, <2>2
    <3> QED BY <3>1, <1>2, <2>1, SumOfParts
  <2>5. n * part <= whole /\ n * part \in Nat /\ f.idx * part \in Nat
    BY <2>1, <2>2 DEF n
  <2>6. f.best < Max
    BY <2>1, <2>3, <2>4, <2>5, MaxNat
  <2>7. f.best # Max
    BY <2>1, <2>6, MaxNat
  <2> QED BY <1>2, <2>7 DEF f
<1> QED BY <1>3, <1>4

\* The last part completes the node.
LEMMA FollowsEnded ==
  ASSUME NEW S, Typed(S), EndSplit, NEW node, NEW whole \in Nat, whole < Max,
         NEW part \in Nat, NEW lost, Follows(Top, node, whole, part, lost),
         PartReplayed(node, part, lost), NumParts[Top.kind] * part + SplitCost <= whole,
         node = Tree(node.kind, node.subs), NEW U, node.subs \in [1..NumParts[node.kind] -> U],
         NEW f, f = Ended
  PROVE  Copied(f, node, whole, lost) /\ f.todo = <<>> /\ f.kind = node.kind /\ node.kind \in KindSet
<1> DEFINE t == Top
           x == ret.coded
           c == ret.cost
           n == NumParts[Top.kind]
           parts == Append(t.parts, x)
<1>1. /\ f.todo = t.todo /\ f.kind = t.kind
      /\ IF EndCost < t.best THEN f.best = EndCost /\ f.coded = EndTree
                             ELSE f.best = t.best /\ f.coded = t.coded
      /\ t.idx = n /\ GotPart /\ ~PartFails /\ EndTree = Tree(t.kind, parts) /\ EndCost = t.acc + c + SplitCost
      /\ EndCost \in Nat
  BY EndedIs DEF EndTree, EndCost
<1>2. t \in FrameOf(S) /\ Shaped(t) /\ t.kind # "none" /\ ret \in Returned(S)
  BY <1>1, TopFrame DEF GotPart, Typed
<1>3. /\ node.kind \in KindSet /\ t.kind = node.kind /\ t.todo = <<>>
      /\ t.best = Max \/ Copied(t, node, whole, lost)
      /\ t.acc <= (t.idx - 1) * part
      /\ \A i \in 1..t.idx - 1 : t.parts[i] = node.subs[i]
  BY <1>2, LeafOrSplit
<1>4. /\ x = node.subs[n] /\ c <= part /\ c \in Nat /\ n \in Nat /\ n >= 1 /\ t.acc \in Nat
      /\ t.best \in 0..Max /\ x \in S /\ t.parts \in Seq(S) /\ Len(t.parts) = n - 1
  <2>1. c <= part /\ c \in 0..Max /\ x \in S /\ x = node.subs[n]
    BY <1>1, <1>2 DEF PartReplayed, PartFails, Returned
  <2>2. t.acc \in Nat /\ t.best \in 0..Max /\ t.parts \in Seq(S)
    BY <1>2 DEF FrameOf, Subs
  <2>3. n \in Nat /\ n >= 1
    BY <1>3, PartsOf
  <2>4. Len(t.parts) = n - 1
    BY <1>1, <1>2 DEF Shaped
  <2> QED BY <2>1, <2>2, <2>3, <2>4, MaxNat
<1>a. node.subs \in [1..n -> U] /\ n * part + SplitCost <= whole
  BY <1>3
<1> HIDE DEF t, x, c, n, parts
<1>5. EndCost <= whole
  <2>1. t.acc + c <= n * part
    BY <1>1, <1>3, <1>4, SumOfParts
  <2>2. n * part \in Nat /\ SplitCost \in Nat
    BY <1>4, SearchAssumption
  <2> DEFINE all == n * part
             sum == t.acc + c
  <2>3. sum <= all /\ all \in Nat /\ SplitCost \in Nat /\ sum \in Nat /\ all + SplitCost <= whole
        /\ EndCost = sum + SplitCost
    BY <2>1, <2>2, <1>1, <1>4, <1>a, SMTT(20)
  <2> HIDE DEF all, sum
  <2> QED BY ONLY <2>3, whole \in Nat
<1>6. parts = node.subs
  <2>1. parts = [i \in 1..n |-> parts[i]]
    BY <1>4 DEF parts
  <2>2. node.subs = [i \in 1..n |-> node.subs[i]]
    BY <1>a
  <2>3. ASSUME NEW i \in 1..n PROVE parts[i] = node.subs[i]
    <3>1. CASE i = n
      BY <3>1, <1>4 DEF parts
    <3>2. CASE i # n
      <4>1. i \in 1..n - 1
        BY <3>2, <1>4
      <4>2. parts[i] = t.parts[i]
        BY <4>1, <1>4 DEF parts
      <4> QED BY <4>1, <4>2, <1>1, <1>3
    <3> QED BY <3>1, <3>2
  <2> QED BY <2>1, <2>2, <2>3
<1>7. EndTree = node
  BY <1>1, <1>3, <1>6
<1>8. Copied(f, node, whole, lost)
  <2>1. CASE EndCost < t.best
    BY <2>1, <1>1, <1>5, <1>7 DEF Copied
  <2>2. CASE ~(EndCost < t.best)
    <3>1. t.best # Max
      BY <2>2, <1>1, <1>4, <1>5, MaxNat
    <3>2. Copied(t, node, whole, lost)
      BY <3>1, <1>3
    <3> QED BY <2>2, <3>2, <1>1 DEF Copied
  <2> QED BY <2>1, <2>2
<1> QED BY <1>1, <1>3, <1>8

\* The frames of a reading run, each beside the node that the cursor has reached with it.
Level(f, node, l, bound, lost) ==
  /\ f.depth = l - 1 /\ l - 1 <= MaxDepth /\ node \in TreesOf[MaxDepth - (l - 1)]
  /\ Follows(f, node, bound[MaxDepth - (l - 1)], bound[MaxDepth - l], lost)

Along(nodes, bound, root, st, cur, lost) ==
  /\ nodes[1] = root /\ cur \in Seq(Nat) /\ Len(cur) = Len(st) - 1
  /\ \A l \in 1..Len(st) - 1 : /\ cur[l] = st[l].idx /\ st[l].kind # "none"
                               /\ nodes[l + 1] = nodes[l].subs[cur[l]]
  /\ \A l \in 1..Len(st) : Level(st[l], nodes[l], l, bound, lost)

Replayed(nodes, bound, st, r, lost) ==
  r # Nothing => \/ /\ r.coded = nodes[Len(st)].subs[st[Len(st)].idx]
                    /\ r.cost <= bound[MaxDepth - Len(st)]
                 \/ lost /\ r.cost = Max

LEMMA AlongStill ==
  ASSUME NEW nodes, NEW bound, NEW root, NEW st, NEW cur, NEW r, NEW was, NEW lost, was => lost,
         Along(nodes, bound, root, st, cur, was), Replayed(nodes, bound, st, r, was)
  PROVE  Along(nodes, bound, root, st, cur, lost) /\ Replayed(nodes, bound, st, r, lost)
<1>1. ASSUME NEW l \in 1..Len(st) PROVE Level(st[l], nodes[l], l, bound, lost)
  <2>1. Level(st[l], nodes[l], l, bound, was)
    BY Zenon DEF Along
  <2> QED BY <2>1, FollowsStill DEF Level
<1>2. Along(nodes, bound, root, st, cur, lost)
  BY <1>1 DEF Along
<1>3. Replayed(nodes, bound, st, r, lost)
  BY DEF Replayed
<1> QED BY <1>2, <1>3

LEMMA AlongKept ==
  ASSUME NEW nodes, NEW bound, NEW root, NEW st, NEW cur, NEW lost,
         Along(nodes, bound, root, st, cur, lost),
         NEW n \in Nat, n = Len(st), NEW st2, Len(st2) = n, \A j \in 1..n : j # n => st2[j] = st[j],
         Level(st2[n], nodes[n], n, bound, lost)
  PROVE  Along(nodes, bound, root, st2, cur, lost)
<1>1. \A l \in 1..n - 1 : l \in 1..n /\ l # n /\ st2[l] = st[l]
  OBVIOUS
<1>2. \A l \in 1..n : l = n \/ l \in 1..n - 1
  OBVIOUS
<1>3. \A l \in 1..n : Level(st2[l], nodes[l], l, bound, lost)
  BY <1>1, <1>2 DEF Along
<1> QED BY <1>1, <1>3 DEF Along

LEMMA AlongPopped ==
  ASSUME NEW nodes, NEW bound, NEW root, NEW st, NEW cur, NEW lost,
         Along(nodes, bound, root, st, cur, lost),
         NEW n \in Nat, n = Len(st), n > 1, NEW st2, Len(st2) = n - 1, \A j \in 1..n - 1 : st2[j] = st[j],
         NEW cur2, cur2 = SubSeq(cur, 1, Len(cur) - 1)
  PROVE  Along(nodes, bound, root, st2, cur2, lost)
<1>1. cur \in Seq(Nat) /\ Len(cur) = n - 1
  BY DEF Along
<1>2. cur2 \in Seq(Nat) /\ Len(cur2) = n - 2 /\ \A l \in 1..n - 2 : cur2[l] = cur[l]
  BY <1>1
<1>3. (n - 1) - 1 = n - 2 /\ \A l \in 1..n - 2 : l \in 1..n - 1
  OBVIOUS
<1>4. \A l \in 1..n - 1 : l \in 1..n
  OBVIOUS
<1>5. \A l \in 1..n - 2 : /\ cur2[l] = st2[l].idx /\ st2[l].kind # "none"
                          /\ nodes[l + 1] = nodes[l].subs[cur2[l]]
  BY <1>2, <1>3 DEF Along
<1>6. \A l \in 1..n - 1 : Level(st2[l], nodes[l], l, bound, lost)
  BY <1>4 DEF Along
<1> QED BY <1>2, <1>3, <1>5, <1>6 DEF Along

\* A part is entered: the cursor moves down to its node.
LEMMA AlongPushed ==
  ASSUME Reading, NEW bound, Budget(bound), NEW nodes, NEW lost,
         Along(nodes, bound, loaded, stack, cursor, lost),
         NEW n \in Nat, n >= 1, n = Len(stack), NEW st2, Len(st2) = n + 1,
         \A j \in 1..n : j # n => st2[j] = stack[j],
         Level(st2[n], nodes[n], n, bound, lost), st2[n].kind # "none", nodes[n].kind \in KindSet,
         NEW i \in 1..NumParts[nodes[n].kind], st2[n].idx = i,
         st2[n + 1] \in NewFrames(n, CursorDown(i)), NoMode(CursorDown(i), st2[n + 1]) => lost,
         ~Overrules(CursorDown(i), st2[n + 1])
  PROVE  \E more : Along(more, bound, loaded, st2, CursorDown(i), lost)
<1> DEFINE node == nodes[n].subs[i]
           cur == Append(cursor, i)
           h == MaxDepth - (n - 1)
<1>0. MaxDepth \in Nat /\ i \in Nat
  <2>1. NumParts[nodes[n].kind] \in Nat
    BY PartsOf
  <2> QED BY <2>1, SearchAssumption
<1>1. CursorDown(i) = cur
  BY DEF CursorDown
<1>2. n - 1 <= MaxDepth /\ nodes[n] \in TreesOf[h]
  BY DEF Level
<1>3. h \in 0..MaxDepth /\ MaxDepth - n = h - 1
  BY <1>0, <1>2
<1>4. /\ nodes[n] # Leaf /\ h - 1 \in 0..MaxDepth
      /\ nodes[n].subs \in [1..NumParts[nodes[n].kind] -> TreesOf[h - 1]]
  <2>1. nodes[n] # Leaf
    BY LeafOrSplit DEF Level
  <2> HIDE DEF h
  <2> QED BY <2>1, <1>2, <1>3, TreeIs
<1>5. node \in TreesOf[MaxDepth - n] /\ n \in 0..MaxDepth
  <2>1. n \in 0..MaxDepth
    BY <1>0, <1>3, <1>4
  <2>2. node \in TreesOf[h - 1]
    BY <1>4
  <2> QED BY <2>1, <2>2, <1>3
<1>6. PICK more : more = [l \in 1..n + 1 |-> IF l = n + 1 THEN node ELSE nodes[l]]
  OBVIOUS
<1> HIDE DEF node
<1>7. more[n + 1] = node /\ \A l \in 1..n : more[l] = nodes[l]
  <2>1. n + 1 \in 1..n + 1 /\ \A l \in 1..n : l \in 1..n + 1 /\ l # n + 1
    OBVIOUS
  <2> QED BY <2>1, <1>6
<1>8. cursor \in Seq(Nat) /\ Len(cursor) = n - 1
  BY DEF Along
<1>9. cur \in Seq(Nat) /\ Len(cur) = n /\ cur[n] = i /\ \A l \in 1..n - 1 : cur[l] = cursor[l]
  BY <1>0, <1>8
<1> HIDE DEF cur
<1>10. more[1] = loaded
  <2>1. 1 \in 1..n
    OBVIOUS
  <2> QED BY <2>1, <1>7 DEF Along
<1>11. ASSUME NEW l \in 1..n
       PROVE cur[l] = st2[l].idx /\ st2[l].kind # "none" /\ more[l + 1] = more[l].subs[cur[l]]
  <2>1. CASE l = n
    BY <2>1, <1>7, <1>9 DEF node
  <2>2. CASE l # n
    <3>1. l \in 1..n - 1 /\ l + 1 \in 1..n
      BY <2>2
    <3>2. cursor[l] = stack[l].idx /\ stack[l].kind # "none" /\ nodes[l + 1] = nodes[l].subs[cursor[l]]
      BY <3>1 DEF Along
    <3>3. st2[l] = stack[l] /\ more[l + 1] = nodes[l + 1] /\ more[l] = nodes[l] /\ cur[l] = cursor[l]
      BY <3>1, <2>2, <1>7, <1>9
    <3> QED BY <3>2, <3>3
  <2> QED BY <2>1, <2>2
<1>12. NodeAt(cur) = node
  BY <1>7, <1>9, <1>10, <1>11, NodeOf
<1> DEFINE f == st2[n + 1]
<1>13. Follows(f, node, bound[MaxDepth - n], bound[MaxDepth - (n + 1)], lost) /\ f.depth = n
  <2>1. f \in NewFrames(n, cur) /\ NodeAt(cur) \in TreesOf[MaxDepth - n]
        /\ (NoMode(cur, f) => lost) /\ ~Overrules(cur, f)
    BY <1>1, <1>5, <1>12
  <2> HIDE DEF f
  <2> QED BY <2>1, <1>5, <1>12, FollowsNew
<1>14. Level(f, node, n + 1, bound, lost)
  <2>1. (n + 1) - 1 = n /\ n <= MaxDepth
    BY <1>5
  <2> QED BY <2>1, <1>5, <1>13 DEF Level
<1>15. \A l \in 1..n + 1 : Level(st2[l], more[l], l, bound, lost)
  <2>1. \A l \in 1..n + 1 : l = n + 1 \/ l = n \/ (l \in 1..n /\ l # n)
    OBVIOUS
  <2>2. \A l \in 1..n : l # n => Level(st2[l], more[l], l, bound, lost)
    BY <1>7 DEF Along
  <2>3. Level(st2[n], more[n], n, bound, lost)
    <3>1. n \in 1..n
      OBVIOUS
    <3> QED BY <3>1, <1>7
  <2>4. Level(st2[n + 1], more[n + 1], n + 1, bound, lost)
    BY <1>7, <1>14
  <2> QED BY <2>1, <2>2, <2>3, <2>4
<1>16. (n + 1) - 1 = n
  OBVIOUS
<1>17. Along(more, bound, loaded, st2, cur, lost)
  BY <1>9, <1>10, <1>11, <1>15, <1>16 DEF Along
<1> QED BY <1>1, <1>17

\* The frame of a CU that is split stands beside a node of the same kind.
LEMMA SplitNode ==
  ASSUME NEW bound, Budget(bound), NEW f, NEW node, NEW n \in Nat, n >= 1, NEW lost, Level(f, node, n, bound, lost),
         node.kind \in KindSet
  PROVE  /\ MaxDepth - (n - 1) \in 1..MaxDepth /\ (MaxDepth - (n - 1)) - 1 = MaxDepth - n
         /\ bound[MaxDepth - (n - 1)] \in Nat /\ bound[MaxDepth - (n - 1)] < Max
         /\ bound[MaxDepth - n] \in Nat /\ bound[MaxDepth - n] < Max
         /\ NumParts[node.kind] * bound[MaxDepth - n] + SplitCost <= bound[MaxDepth - (n - 1)]
         /\ NumParts[node.kind] * bound[MaxDepth - n] <= bound[MaxDepth - (n - 1)]
         /\ node = Tree(node.kind, node.subs) /\ \E U : node.subs \in [1..NumParts[node.kind] -> U]
         /\ NumParts[node.kind] \in Nat /\ NumParts[node.kind] >= 1
<1> DEFINE h == MaxDepth - (n - 1)
           k == NumParts[node.kind]
<1>1. MaxDepth \in Nat /\ SplitCost \in Nat /\ k \in Nat /\ k >= 1 /\ Max \in Nat
  BY SearchAssumption, PartsOf, MaxNat
<1>2. n - 1 <= MaxDepth /\ node \in TreesOf[h] /\ node # Leaf
  BY LeafOrSplit DEF Level
<1>3. h \in 0..MaxDepth /\ MaxDepth - n = h - 1
  BY <1>1, <1>2
<1>4. /\ h - 1 \in 0..MaxDepth /\ h \in 1..MaxDepth /\ node = Tree(node.kind, node.subs)
      /\ node.subs \in [1..k -> TreesOf[h - 1]]
  <2> HIDE DEF h
  <2> QED BY <1>2, <1>3, TreeIs
<1> HIDE DEF h, k
<1>5. bound[h] \in 0..Max - 1 /\ bound[h - 1] \in 0..Max - 1 /\ k * bound[h - 1] + SplitCost <= bound[h]
  BY <1>3, <1>4 DEF Budget, k
<1> DEFINE a == bound[h]
           b == bound[h - 1]
<1>6. a \in 0..Max - 1 /\ b \in 0..Max - 1 /\ k * b + SplitCost <= a
  BY <1>5
<1> HIDE DEF a, b
<1>7. a \in Nat /\ b \in Nat /\ a < Max /\ b < Max /\ k * b \in Nat
  BY <1>1, <1>6
<1>8. k * b <= a
  BY <1>1, <1>6, <1>7
<1> QED BY <1>1, <1>3, <1>4, <1>6, <1>7, <1>8 DEF h, k, a, b

\* A step of a reading run stays on the loaded tree.
LEMMA NextReplays ==
  ASSUME Reading, NEW bound, Budget(bound), NEW S, Typed(S), NEW nodes,
         NEW lost, refused' => lost, ~overruled', Along(nodes, bound, loaded, stack, cursor, lost),
         Replayed(nodes, bound, stack, ret, lost), [Next]_vars
  PROVE  \E more : Along(more, bound, loaded, stack', cursor', lost) /\ Replayed(more, bound, stack', ret', lost)
<1> DEFINE n == Len(stack)
           node == nodes[n]
           whole == bound[MaxDepth - (n - 1)]
           part == bound[MaxDepth - n]
<1>0. /\ Top = stack[n] /\ Top \in FrameOf(S) /\ n \in Nat /\ n >= 1 /\ n \in 1..n
      /\ Level(Top, node, n, bound, lost) /\ Follows(Top, node, whole, part, lost) /\ Top.depth = n - 1
      /\ n - 1 <= MaxDepth /\ node \in TreesOf[MaxDepth - (n - 1)]
  BY TopFrame DEF Top, Typed, Along, Level
<1>a. ASSUME ret # Nothing PROVE PartReplayed(node, part, lost)
  BY <1>0, <1>a DEF Replayed, PartReplayed
<1> HIDE DEF n, node, whole, part
<1>b. ASSUME NEW g, Follows(g, node, whole, part, lost), g.depth = Top.depth
      PROVE  Level(g, node, n, bound, lost)
  BY <1>0, <1>b DEF Level, whole, part
<1>c. ASSUME node.kind \in KindSet
      PROVE  /\ whole \in Nat /\ whole < Max /\ part \in Nat /\ part < Max
             /\ NumParts[node.kind] * part + SplitCost <= whole /\ NumParts[node.kind] * part <= whole
             /\ node = Tree(node.kind, node.subs) /\ (\E U : node.subs \in [1..NumParts[node.kind] -> U])
             /\ NumParts[node.kind] \in Nat /\ NumParts[node.kind] >= 1
  <2>1. n \in Nat /\ n >= 1 /\ Level(Top, node, n, bound, lost)
    BY <1>0, Zenon
  <2>2. /\ bound[MaxDepth - (n - 1)] \in Nat /\ bound[MaxDepth - (n - 1)] < Max
        /\ bound[MaxDepth - n] \in Nat /\ bound[MaxDepth - n] < Max
        /\ NumParts[node.kind] * bound[MaxDepth - n] + SplitCost <= bound[MaxDepth - (n - 1)]
        /\ NumParts[node.kind] * bound[MaxDepth - n] <= bound[MaxDepth - (n - 1)]
        /\ node = Tree(node.kind, node.subs) /\ (\E U : node.subs \in [1..NumParts[node.kind] -> U])
        /\ NumParts[node.kind] \in Nat /\ NumParts[node.kind] >= 1
    BY <2>1, <1>c, SplitNode, Zenon
  <2> QED BY <2>2, Zenon DEF whole, part
<1>d. ASSUME NEW g, Follows(g, node, whole, part, lost), g.depth = Top.depth, g.kind # "none",
             NEW i \in 1..NumParts[node.kind], g.idx = i,
             Len(stack') = n + 1, stack'[n] = g, \A j \in 1..n : j # n => stack'[j] = stack[j],
             stack'[n + 1] \in NewFrames(Top.depth + 1, CursorDown(i)), cursor' = CursorDown(i),
             NoMode(CursorDown(i), stack'[n + 1]) => refused',
             Overrules(CursorDown(i), stack'[n + 1]) => overruled', ret' = Nothing
      PROVE  \E more : Along(more, bound, loaded, stack', cursor', lost) /\ Replayed(more, bound, stack', ret', lost)
  <2>1. Level(stack'[n], nodes[n], n, bound, lost) /\ stack'[n].kind # "none" /\ stack'[n].idx = i
    <3>1. Level(g, node, n, bound, lost)
      BY <1>b, <1>d, Zenon
    <3>2. stack'[n] = g /\ g.kind # "none" /\ g.idx = i
      BY <1>d, Zenon
    <3> QED BY <3>1, <3>2, Zenon DEF node
  <2>2. nodes[n].kind \in KindSet /\ i \in 1..NumParts[nodes[n].kind]
    BY <1>d, LeafOrSplit DEF node
  <2>3. Top.depth + 1 = n
    BY <1>0
  <2> DEFINE st2 == stack'
  <2>4. /\ Len(st2) = n + 1 /\ (\A j \in 1..n : j # n => st2[j] = stack[j])
        /\ Level(st2[n], nodes[n], n, bound, lost) /\ st2[n].kind # "none" /\ st2[n].idx = i
        /\ st2[n + 1] \in NewFrames(n, CursorDown(i)) /\ n = Len(stack)
        /\ NoMode(CursorDown(i), st2[n + 1]) => lost
        /\ ~Overrules(CursorDown(i), st2[n + 1])
    BY <2>1, <2>3, <1>d DEF n
  <2> HIDE DEF st2
  <2>5. PICK more : Along(more, bound, loaded, st2, CursorDown(i), lost)
    BY <2>2, <2>4, <1>0, AlongPushed
  <2>6. Replayed(more, bound, stack', ret', lost)
    BY <1>d DEF Replayed
  <2> QED BY <2>5, <2>6, <1>d DEF st2
<1>e. ASSUME NEW g, Follows(g, node, whole, part, lost), g.depth = Top.depth,
             Len(stack') = n, stack'[n] = g, \A j \in 1..n : j # n => stack'[j] = stack[j],
             cursor' = cursor, ret' = Nothing
      PROVE  \E more : Along(more, bound, loaded, stack', cursor', lost) /\ Replayed(more, bound, stack', ret', lost)
  <2> DEFINE st2 == stack'
  <2>1. /\ Len(st2) = n /\ (\A j \in 1..n : j # n => st2[j] = stack[j])
        /\ Level(st2[n], nodes[n], n, bound, lost) /\ n = Len(stack)
    BY <1>b, <1>e DEF node, n
  <2> HIDE DEF st2
  <2>2. Along(nodes, bound, loaded, st2, cursor, lost)
    BY <2>1, <1>0, AlongKept
  <2>3. Replayed(nodes, bound, stack', ret', lost)
    BY <1>e DEF Replayed
  <2> QED BY <2>2, <2>3, <1>e DEF st2
\* A round is over: the node is coded, or something has been refused.
<1>f. ASSUME NEW T, Typed(T), NEW f \in FrameOf(T), f.kind = node.kind, node.kind \in KindSet,
             f.round \in 1..f.rounds, f.rounds \in Rounds, RoundOver(f), tied' \in BOOLEAN,
             f.depth = Top.depth, f.todo = <<>>, Copied(f, node, whole, lost)
      PROVE  \E more : Along(more, bound, loaded, stack', cursor', lost) /\ Replayed(more, bound, stack', ret', lost)
  <2> DEFINE left == Closed(f)
             g == At(Begun(Second(f)), 1)
  <2>1. CASE /\ ret' = Nothing /\ cursor' = cursor /\ Len(stack') = n /\ stack'[n] = left
             /\ \A j \in 1..n : j # n => stack'[j] = stack[j]
    <3>1. Follows(left, node, whole, part, lost)
      BY <1>f, FollowsClosed
    <3>2. left.depth = Top.depth
      BY <1>f DEF Closed, FrameOf
    <3> HIDE DEF left
    <3> QED BY <2>1, <3>1, <3>2, <1>e
  <2>2. CASE /\ ret' = Nothing /\ cursor' = CursorDown(1) /\ Kept(f, g) /\ g.todo = f.todo
             /\ g.kind = f.kind /\ g.idx = 1 /\ g.acc = 0
             /\ Len(stack') = n + 1 /\ stack'[n] = g
             /\ stack'[n + 1] \in NewFrames(f.depth + 1, CursorDown(1))
             /\ NoMode(CursorDown(1), stack'[n + 1]) => refused'
             /\ Overrules(CursorDown(1), stack'[n + 1]) => overruled'
             /\ \A j \in 1..n : j # n => stack'[j] = stack[j]
    <3>1. /\ ret' = Nothing /\ cursor' = CursorDown(1) /\ Kept(f, g) /\ g.todo = f.todo
          /\ g.kind = f.kind /\ g.idx = 1 /\ g.acc = 0
          /\ Len(stack') = n + 1 /\ stack'[n] = g
          /\ stack'[n + 1] \in NewFrames(f.depth + 1, CursorDown(1))
          /\ NoMode(CursorDown(1), stack'[n + 1]) => refused'
          /\ Overrules(CursorDown(1), stack'[n + 1]) => overruled'
          /\ \A j \in 1..n : j # n => stack'[j] = stack[j]
      BY <2>2
    <3> HIDE DEF g
    <3>2. Copied(g, node, whole, lost) /\ g.depth = Top.depth
      BY <3>1, <1>f DEF Kept, Copied
    <3>3. Follows(g, node, whole, part, lost)
      BY <3>1, <3>2, <1>f, <1>c, FollowsBegun
    <3>4. g.kind # "none" /\ 1 \in 1..NumParts[node.kind]
      BY <3>1, <1>f, <1>c, SearchAssumption
    <3> QED BY <3>1, <3>2, <3>3, <3>4, <1>f, <1>d
  <2>3. f.kind \in KindSet
    BY <1>f
  <2> QED BY <2>1, <2>2, <2>3, <1>f, RoundOverIs DEF n
<1>1. CASE SkipSplit
  <2> DEFINE f == Top
             g == [f EXCEPT !.todo = Tail(f.todo)]
  <2>1. /\ Len(stack') = n /\ stack'[n] = g /\ f \in FrameOf(S) /\ f.kind = "none" /\ f.todo # <<>>
        /\ \A j \in 1..n : j # n => stack'[j] = stack[j]
    BY <1>1, SkipTyped DEF n, SkipSplit
  <2>2. ret' = ret /\ cursor' = cursor /\ lost
    BY <1>1 DEF SkipSplit
  <2>3. node.kind \in KindSet /\ f.todo = <<node.kind>> /\ f.best = Max
    BY <2>1, <1>0, LeafOrSplit
  <2>4. /\ g.todo = Tail(f.todo) /\ g.kind = "none" /\ g.best = Max /\ g.depth = f.depth
        /\ g.idx = f.idx
    BY <2>1, <2>3 DEF FrameOf
  <2>5. g.todo = <<>>
    <3>1. \A k : Tail(<<k>>) = <<>>
      OBVIOUS
    <3> QED BY <3>1, <2>3, <2>4
  <2>6. g.depth = Top.depth
    BY <2>4
  <2>7. Top.idx = g.idx /\ Top = stack[n]
    BY <2>4, <1>0
  <2> HIDE DEF f, g
  <2>8. Follows(g, node, whole, part, lost)
    BY <2>2, <2>3, <2>4, <2>5 DEF Follows, Copied
  <2>9. Level(g, nodes[n], n, bound, lost)
    BY <2>6, <2>8, <1>b DEF node
  <2> DEFINE st2 == stack'
  <2>10. /\ Len(st2) = n /\ (\A j \in 1..n : j # n => st2[j] = stack[j])
         /\ Level(st2[n], nodes[n], n, bound, lost) /\ n = Len(stack)
    BY <2>1, <2>9 DEF n
  <2> HIDE DEF st2
  <2>11. Along(nodes, bound, loaded, st2, cursor, lost)
    BY <2>10, <1>0, AlongKept
  <2>12. st2[Len(st2)].idx = stack[Len(stack)].idx /\ Len(st2) = Len(stack)
    BY <2>1, <2>7, <2>10 DEF st2
  <2>13. Replayed(nodes, bound, st2, ret', lost)
    BY <2>2, <2>12, Zenon DEF Replayed
  <2> QED BY <2>2, <2>11, <2>13 DEF st2
<1>2. CASE StartSplit
  <2>1. PICK r \in Rounds :
          /\ ret' = Nothing /\ cursor' = CursorDown(1) /\ Top.kind = "none" /\ Top.todo # <<>>
          /\ Len(stack') = n + 1 /\ stack'[n] = At(Begun(Started(Top, r)), 1)
          /\ stack'[n + 1] \in NewFrames(Top.depth + 1, CursorDown(1))
          /\ NoMode(CursorDown(1), stack'[n + 1]) => refused'
          /\ Overrules(CursorDown(1), stack'[n + 1]) => overruled'
          /\ \A j \in 1..n : j # n => stack'[j] = stack[j]
    BY <1>2, StartTyped DEF n
  <2> DEFINE f == Top
             g == At(Begun(Started(f, r)), 1)
  <2>2. f \in FrameOf(S) /\ f.kind = "none" /\ f.todo # <<>> /\ Leaf \in S
    BY <1>0, <2>1 DEF Typed
  <2>3. node.kind \in KindSet /\ f.todo = <<node.kind>> /\ f.best = Max
    BY <2>2, <1>0, LeafOrSplit
  <2> HIDE DEF f
  <2>4. /\ Kept(f, g) /\ g.todo = Tail(f.todo) /\ g.kind = Head(f.todo) /\ g.idx = 1 /\ g.acc = 0
        /\ g.kind \in KindSet
    BY <2>2, StartedIs
  <2>5. stack'[n] = g
    BY <2>1 DEF f
  <2> HIDE DEF g
  <2>6. g.todo = <<>> /\ g.kind = node.kind /\ g.best = Max /\ g.depth = f.depth
    <3>1. \A k : Head(<<k>>) = k /\ Tail(<<k>>) = <<>>
      OBVIOUS
    <3> QED BY <3>1, <2>3, <2>4 DEF Kept
  <2>7. Follows(g, node, whole, part, lost)
    BY <2>3, <2>4, <2>6, <1>c, FollowsBegun
  <2>8. g.kind # "none" /\ 1 \in 1..NumParts[node.kind]
    BY <2>3, <2>4, <1>c, SearchAssumption
  <2> QED BY <2>1, <2>4, <2>5, <2>6, <2>7, <2>8, <1>d DEF f
<1>3. CASE AbandonSplit
  <2> DEFINE f == [WithPart EXCEPT !.idx = 0]
  <2>1. /\ f \in FrameOf(S) /\ Kept(Top, f) /\ f.todo = Top.todo /\ f.kind = Top.kind
        /\ f.kind \in KindSet /\ f.round \in 1..f.rounds /\ f.rounds \in Rounds /\ f.round = Top.round
        /\ RoundOver(f) /\ tied' \in BOOLEAN
    BY <1>3, AbandonTyped
  <2>2. GotPart /\ (PartFails \/ TooDear) /\ ret # Nothing /\ Top.kind # "none"
    BY <1>3 DEF AbandonSplit, GotPart
  <2> HIDE DEF f
  <2>3. node.kind \in KindSet /\ Top.kind = node.kind
    BY <2>2, <1>0, LeafOrSplit
  <2>4. Copied(Top, node, whole, lost) /\ Top.todo = <<>>
    BY <2>2, <2>3, <1>0, <1>a, <1>c, FollowsAbandoned
  <2>5. Copied(f, node, whole, lost) /\ f.todo = <<>> /\ f.depth = Top.depth
    BY <2>1, <2>4 DEF Kept, Copied
  <2> QED BY <2>1, <2>3, <2>5, <1>0, <1>f
<1>4. CASE NextPart
  <2> DEFINE g == At(Taken, Top.idx + 1)
             i == Top.idx + 1
  <2>1. /\ ret' = Nothing /\ GotPart /\ Top.idx < NumParts[Top.kind] /\ cursor' = CursorDown(i)
        /\ Len(stack') = n + 1 /\ stack'[n] = g
        /\ stack'[n + 1] \in NewFrames(Top.depth + 1, CursorDown(i))
        /\ NoMode(CursorDown(i), stack'[n + 1]) => refused'
        /\ Overrules(CursorDown(i), stack'[n + 1]) => overruled'
        /\ ~PartFails
        /\ \A j \in 1..n : j # n => stack'[j] = stack[j]
    BY <1>4, NextPartTyped DEF n
  <2>2. ret # Nothing /\ Top.kind # "none"
    BY <2>1 DEF GotPart
  <2>3. node.kind \in KindSet /\ Top.kind = node.kind
    BY <2>2, <1>0, LeafOrSplit
  <2> HIDE DEF g
  <2>4. Follows(g, node, whole, part, lost) /\ g.kind # "none" /\ g.idx = i /\ g.depth = Top.depth
    <3>1. PartReplayed(node, part, lost) /\ Follows(Top, node, whole, part, lost)
      BY <2>2, <1>0, <1>a, Zenon
    <3>2. part \in Nat
      BY <2>3, <1>c, Zenon
    <3>3. g = At(Taken, Top.idx + 1)
      BY Zenon DEF g
    <3>4. GotPart /\ ~PartFails /\ Top.idx < NumParts[Top.kind]
      BY <2>1, Zenon
    <3> QED BY <3>1, <3>2, <3>3, <3>4, FollowsTaken, Zenon
  <2>5. i \in 1..NumParts[node.kind]
    <3>1. Top.idx \in Nat /\ NumParts[node.kind] \in Nat
      BY <1>0, <2>3, PartsOf DEF FrameOf
    <3> QED BY <3>1, <2>1, <2>3
  <2> HIDE DEF i
  <2> QED BY <2>1, <2>4, <2>5, <1>d
<1>5. CASE EndSplit
  <2> DEFINE f == Ended
  <2>1. /\ f.kind \in KindSet /\ f.round \in 1..f.rounds /\ f.rounds \in Rounds
        /\ RoundOver(f) /\ tied' \in BOOLEAN /\ GotPart /\ f.depth = Top.depth
    BY <1>5, EndedIs
  <2>2. PICK T : f \in FrameOf(T) /\ Typed(T)
    BY <1>5, EndedIs
  <2>3. ret # Nothing /\ Top.kind # "none"
    BY <2>1 DEF GotPart
  <2>4. node.kind \in KindSet /\ Top.kind = node.kind
    BY <2>3, <1>0, LeafOrSplit
  <2> HIDE DEF f
  <2>5. PICK U : node.subs \in [1..NumParts[node.kind] -> U]
    BY <2>4, <1>c
  <2>6. Copied(f, node, whole, lost) /\ f.todo = <<>> /\ f.kind = node.kind
    BY <1>5, <2>3, <2>4, <2>5, <1>0, <1>a, <1>c, FollowsEnded DEF f
  <2> QED BY <2>1, <2>2, <2>4, <2>6, <1>f
<1>6. CASE ReturnCu
  <2>1. /\ n > 1 /\ Len(stack') = n - 1 /\ (\A j \in 1..Len(stack') : stack'[j] = stack[j])
        /\ ret' = [cost |-> Top.best, coded |-> Top.coded, stored |-> StoredTree(Top), done |-> TRUE]
        /\ cursor' = SubSeq(cursor, 1, Len(cursor) - 1) /\ Top.kind = "none" /\ Top.todo = <<>>
    BY <1>6, ReturnTyped DEF n, CursorUp
  <2>2. Copied(Top, node, whole, lost)
    BY <2>1, <1>0, LeafOrSplit
  <2>3. (ret'.coded = node /\ ret'.cost <= whole) \/ (lost /\ ret'.cost = Max)
    BY <2>1, <2>2 DEF Copied
  <2>4. n - 1 \in 1..n - 1 /\ (n - 1) + 1 = n
    BY <2>1, <1>0
  <2>5. node = nodes[n - 1].subs[cursor[n - 1]] /\ cursor[n - 1] = stack[n - 1].idx
    BY <2>4 DEF Along, n, node
  <2>6. stack'[n - 1] = stack[n - 1]
    BY <2>1, <2>4
  <2>7. Replayed(nodes, bound, stack', ret', lost)
    BY <2>1, <2>3, <2>5, <2>6 DEF Replayed, whole
  <2> DEFINE st2 == stack'
             cur2 == cursor'
  <2>8. Len(st2) = n - 1 /\ (\A j \in 1..n - 1 : st2[j] = stack[j]) /\ cur2 = SubSeq(cursor, 1, Len(cursor) - 1)
    BY <2>1
  <2> HIDE DEF st2, cur2
  <2>9. Along(nodes, bound, loaded, st2, cur2, lost)
    BY <2>1, <2>8, <1>0, AlongPopped DEF n
  <2> QED BY <2>7, <2>9 DEF st2, cur2
<1>7. CASE UNCHANGED vars
  <2>1. stack' = stack /\ ret' = ret /\ cursor' = cursor
    BY <1>7 DEF vars
  <2> QED BY <2>1
<1> QED BY <1>1, <1>2, <1>3, <1>4, <1>5, <1>6, <1>7 DEF Next

\* Without the colour transform no mode without split is tested where the loaded tree splits,
\* so the exception of ReplayFollows never applies.
THEOREM NeverOverruled ==
  ASSUME ~ColorTransform PROVE Spec => []~overruled
<1>1. ASSUME NEW d, NEW path, NEW g \in NewFrames(d, path) PROVE ~Overrules(path, g)
  <2>1. g.best \in NoSplitCosts(path)
    BY <1>1 DEF NewFrames
  <2>2. Reading /\ NodeAt(path).kind # "none" => g.best = Max
    BY <2>1 DEF NoSplitCosts, Writing
  <2> QED BY <2>2 DEF Overrules
<1>2. Init => ~overruled
  <2> SUFFICES ASSUME Init PROVE ~overruled
    OBVIOUS
  <2>1. PICK f \in NewFrames(0, <<>>) : stack = <<f>>
    BY Zenon DEF Init
  <2>2. stack[1] = f
    BY <2>1
  <2>3. overruled = Overrules(<<>>, f)
    BY <2>2, Zenon DEF Init
  <2> QED BY <2>3, <1>1
<1>3. ~overruled /\ [Next]_vars => ~overruled'
  <2> SUFFICES ASSUME ~overruled, [Next]_vars PROVE ~overruled'
    OBVIOUS
  <2>1. ASSUME NEW f, NEW i, EnterPart(f, i) PROVE ~overruled'
    <3>1. PICK g \in NewFrames(f.depth + 1, CursorDown(i)) :
            overruled' = (overruled \/ Overrules(CursorDown(i), g))
      BY <2>1, Zenon DEF EnterPart
    <3> QED BY <3>1, <1>1, Zenon
  <2>2. ASSUME NEW f, RoundOver(f) PROVE ~overruled'
    BY <2>1, <2>2, Zenon DEF RoundOver, BeginRound
  <2>3. CASE SkipSplit
    BY <2>3 DEF SkipSplit
  <2>4. CASE StartSplit
    BY <2>1, <2>4, Zenon DEF StartSplit, BeginRound
  <2>5. CASE AbandonSplit
    BY <2>2, <2>5, Zenon DEF AbandonSplit
  <2>6. CASE NextPart
    BY <2>1, <2>6, Zenon DEF NextPart
  <2>7. CASE EndSplit
    BY <2>2, <2>7, Zenon DEF EndSplit
  <2>8. CASE ReturnCu
    BY <2>8 DEF ReturnCu
  <2>9. CASE UNCHANGED vars
    BY <2>9 DEF vars
  <2> QED BY <2>3, <2>4, <2>5, <2>6, <2>7, <2>8, <2>9, Zenon DEF Next
<1> QED BY <1>2, <1>3, PTL DEF Spec

ReplayInv(bound) ==
  /\ \E S : Typed(S)
  /\ Reading /\ ~overruled => \E nodes : /\ Along(nodes, bound, loaded, stack, cursor, refused)
                                         /\ Replayed(nodes, bound, stack, ret, refused)

\* A reading run codes the loaded partition or, when its mode control has refused a split or
\* left a leaf without mode, may find no coding: whatever the costs of its CUs, provided that
\* the tree was written by a run of the same depth and that no sum of costs reaches
\* MAX_DOUBLE.  Without the colour transform nothing is overruled (NeverOverruled).
THEOREM ReplayFollowsHolds ==
  ASSUME Runs \subseteq TreesOf[MaxDepth] \cup {NoFile}, NEW bound, Budget(bound)
  PROVE  Spec => []ReplayFollows
<1>1. Init => ReplayInv(bound)
  <2> SUFFICES ASSUME Init PROVE ReplayInv(bound)
    OBVIOUS
  <2>1. /\ Typed({Leaf}) /\ Len(stack) = 1 /\ stack[1] \in NewFrames(0, <<>>) /\ ret = Nothing
        /\ cursor = <<>> /\ refused = NoMode(<<>>, stack[1]) /\ overruled = Overrules(<<>>, stack[1])
    BY InitTyped DEF Init
  <2>2. ASSUME Reading, ~overruled
        PROVE \E nodes : /\ Along(nodes, bound, loaded, stack, cursor, refused)
                         /\ Replayed(nodes, bound, stack, ret, refused)
    <3>1. loaded \in TreesOf[MaxDepth]
      BY <2>2 DEF Init, Reading
    <3>2. PICK nodes : nodes = <<loaded>>
      OBVIOUS
    <3> DEFINE path == <<>>
               zero == 0
    <3>3. nodes[1] = loaded /\ path \in Seq(Nat) /\ Len(path) = zero /\ zero \in Nat
          /\ zero \in 0..MaxDepth /\ MaxDepth - zero = MaxDepth /\ zero + 1 = 1 /\ 1 - 1 = zero
      BY <3>2, SearchAssumption
    <3>4. \A i \in 1..zero : FALSE
      OBVIOUS
    <3>5. stack[1] \in NewFrames(zero, path) /\ cursor = path
      BY <2>1
    <3> HIDE DEF path, zero
    <3>6. NodeAt(path) = loaded
      BY <3>3, <3>4, NodeOf
    <3> DEFINE f == stack[1]
               part == bound[MaxDepth - 1]
    <3>a. f \in NewFrames(zero, path) /\ NodeAt(path) \in TreesOf[MaxDepth - zero]
          /\ (NoMode(path, f) => refused) /\ ~Overrules(path, f)
      BY <2>1, <2>2, <3>1, <3>3, <3>5, <3>6
    <3> HIDE DEF f, part
    <3>b. Follows(f, NodeAt(path), bound[MaxDepth - zero], part, refused) /\ f.depth = zero
      BY <3>a, <3>3, <2>2, FollowsNew
    <3>7. Follows(stack[1], loaded, bound[MaxDepth - zero], bound[MaxDepth - 1], refused) /\ stack[1].depth = zero
      BY <3>b, <3>6 DEF f, part
    <3>8. Level(stack[1], nodes[1], 1, bound, refused)
      <4>1. zero <= MaxDepth
        BY <3>3
      <4> QED BY <4>1, <3>1, <3>3, <3>7 DEF Level
    <3>9. Along(nodes, bound, loaded, stack, cursor, refused)
      <4>1. \A l \in 1..Len(stack) : l = 1
        BY <2>1
      <4>2. \A l \in 1..Len(stack) - 1 : FALSE
        BY <2>1
      <4>3. Len(cursor) = Len(stack) - 1
        BY <2>1, <3>3, <3>5
      <4> QED BY <4>1, <4>2, <4>3, <3>3, <3>5, <3>8 DEF Along
    <3> QED BY <3>9, <2>1 DEF Replayed
  <2> QED BY <2>1, <2>2 DEF ReplayInv
<1>2. ReplayInv(bound) /\ [Next]_vars => ReplayInv(bound)'
  <2> SUFFICES ASSUME ReplayInv(bound), [Next]_vars PROVE ReplayInv(bound)'
    OBVIOUS
  <2>1. PICK S : Typed(S)
    BY DEF ReplayInv
  <2>2. (\E T : Typed(T)') /\ loaded' = loaded
    BY <2>1, NextTyped
  <2>3. ASSUME Reading', ~overruled' PROVE (\E nodes : /\ Along(nodes, bound, loaded, stack, cursor, refused)
                                          /\ Replayed(nodes, bound, stack, ret, refused))'
    <3>1. Reading /\ ~overruled
      BY <2>2, <2>3, OverruledStays DEF Reading
    <3>2. PICK nodes : Along(nodes, bound, loaded, stack, cursor, refused) /\ Replayed(nodes, bound, stack, ret, refused)
      BY <3>1 DEF ReplayInv
    <3>3. \E more : Along(more, bound, loaded, stack', cursor', refused') /\ Replayed(more, bound, stack', ret', refused')
      <4> DEFINE lost == refused'
      <4>1. refused => lost
        BY RefusedStays
      <4>2. refused' => lost
        OBVIOUS
      <4> HIDE DEF lost
      <4>3. Along(nodes, bound, loaded, stack, cursor, lost) /\ Replayed(nodes, bound, stack, ret, lost)
        BY <3>2, <4>1, AlongStill
      <4>4. \E more : /\ Along(more, bound, loaded, stack', cursor', lost)
                      /\ Replayed(more, bound, stack', ret', lost)
        BY <2>3, <3>1, <2>1, <4>2, <4>3, NextReplays
      <4> QED BY <4>4 DEF lost
    <3> QED BY <3>3, <2>2
  <2> QED BY <2>2, <2>3 DEF ReplayInv
<1>3. ReplayInv(bound) => ReplayFollows
  <2> SUFFICES ASSUME ReplayInv(bound), Reading, Done, ~overruled
               PROVE  (Top.best # Max => Top.coded = loaded) /\ (~refused => Top.best # Max)
    BY DEF ReplayFollows
  <2>1. PICK nodes : Along(nodes, bound, loaded, stack, cursor, refused)
    BY DEF ReplayInv
  <2>2. Len(stack) = 1 /\ Top = stack[1] /\ Top.kind = "none" /\ Top.todo = <<>>
    BY DEF Done, Top
  <2>3. nodes[1] = loaded /\ Level(Top, nodes[1], 1, bound, refused)
    BY <2>1, <2>2 DEF Along
  <2>4. Copied(Top, nodes[1], bound[MaxDepth - (1 - 1)], refused)
    BY <2>2, <2>3, LeafOrSplit DEF Level
  <2>5. CASE Top.coded = loaded /\ Top.best <= bound[MaxDepth]
    <3>1. MaxDepth \in 0..MaxDepth
      BY SearchAssumption
    <3>2. bound[MaxDepth] \in 0..(Max - 1)
      BY <3>1 DEF Budget
    <3> DEFINE top == bound[MaxDepth]
    <3>3. top \in 0..(Max - 1) /\ Top.best <= top
      BY <3>2, <2>5
    <3> HIDE DEF top
    <3>4. Top.best # Max
      BY <3>3, MaxNat
    <3> QED BY <3>4, <2>5
  <2>6. CASE refused /\ Top.best = Max
    BY <2>6
  <2>7. MaxDepth - (1 - 1) = MaxDepth
    BY SearchAssumption
  <2> QED BY <2>3, <2>4, <2>5, <2>6, <2>7 DEF Copied
<1> QED BY <1>1, <1>2, <1>3, PTL DEF Spec

=============================================================================
