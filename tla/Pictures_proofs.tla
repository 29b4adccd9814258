--------------------------- MODULE Pictures_proofs ---------------------------
(* What is done picture by picture, for every value of the constants: the        *)
(* encoder codes each frame that there is once; the decoder's loop reads a unit  *)
(* between two looks ahead and finishes pictures whole; the padding of a         *)
(* finished picture is what its bins need.                                       *)
EXTENDS EncodeDecode, CabacZeroWords, FiniteSetTheorems, SequenceTheorems, TLAPS

(* ------------------------- the frames of the encoder -------------------------- *)

AppFields == {"phase", "rcvd", "frames", "eos", "ring", "recon"}
EncFields == {"list", "last", "rcvd", "id", "lastIDR", "pocCRA", "pending", "irap"}

\* The POC of the last picture of the GOPs before the one that is queued or coded.
Before == enc.last - enc.rcvd

\* Of the first n pictures of a GOP, behind the POC before it, those it has frames for.
CodedOf(before, n, frames) ==
  {before + cfg.gop[i].poc : i \in {j \in 1..n : cfg.gop[j].poc <= frames}}

\* Their reconstructions are the last ones in the ring.
RingHolds(ring, before, n, frames) ==
  \A i \in 1..n : cfg.gop[i].poc <= frames =>
    ring[GOPSize + 1 - frames + cfg.gop[i].poc] = before + cfg.gop[i].poc

PocsOf(s) == {s[k].poc : k \in 1..Len(s)}
Once(s) == \A j, k \in 1..Len(s) : s[j].poc = s[k].poc => j = k
Ascending(s) == \A i \in 1..Len(s) : s[i] = i - 1
IsSequence(s) == \E S : s \in Seq(S)

Configuration ==
  /\ Permutes(cfg.gop) /\ GOPSize \in Nat \ {0}
  /\ cfg.frames \in Nat \ {0} /\ cfg.file \in Nat

\* What frames are read and how many is what the configuration says.
Reading ==
  /\ DOMAIN app = AppFields /\ DOMAIN enc = EncFields
  /\ app.rcvd \in Nat /\ app.eos \in BOOLEAN
  /\ app.rcvd <= cfg.frames /\ app.rcvd <= cfg.file
  /\ enc.last = app.rcvd - 1 /\ enc.rcvd \in 0..GOPSize /\ enc.id \in 0..GOPSize
  /\ app.ring \in Seq(Int) /\ Len(app.ring) = GOPSize + 1

Written ==
  /\ app.recon \in Seq(Int) /\ Ascending(app.recon)
  /\ IsSequence(sent) /\ Once(sent)

Preparing ==
  app.phase = "prep" =>
    /\ PocsOf(sent) = 0..Before /\ Len(app.recon) = Before + 1
    /\ enc.rcvd < GOPSize /\ (enc.rcvd > 0 => Before >= 0)
    /\ app.eos => enc.rcvd = 0 /\ app.frames = app.rcvd /\ app.rcvd = cfg.file
    /\ ~app.eos => app.frames = cfg.frames /\ app.rcvd < cfg.frames

\* The frames that a GOP has: all of it, or what the end of the file leaves.
Queued ==
  /\ enc.rcvd > 0
  /\ IF enc.last = 0 THEN enc.rcvd = 1 ELSE Before >= 0
  /\ app.eos => app.frames = app.rcvd /\ app.rcvd \in {cfg.file, cfg.frames}
  /\ ~app.eos => /\ enc.last = 0 \/ enc.rcvd = GOPSize
                 /\ app.frames = cfg.frames /\ app.rcvd < cfg.frames

Encoding ==
  app.phase = "encode" =>
    /\ Queued
    /\ enc.id < GOPSize /\ (enc.last = 0 => enc.id = 0)
    /\ PocsOf(sent) = 0..Before \cup CodedOf(Before, enc.id, enc.rcvd)
    /\ Len(app.recon) = Before + 1
    /\ RingHolds(app.ring, Before, enc.id, enc.rcvd)

Finished ==
  app.phase = "done" =>
    /\ PocsOf(sent) = 0..enc.last /\ Len(app.recon) = app.rcvd
    /\ app.rcvd \in {cfg.file, cfg.frames}

EncoderInv ==
  Configuration /\ Reading /\ Written /\ Preparing /\ Encoding /\ Finished

(* ---------------------------------- lemmas ---------------------------------- *)

\* A picture that is sent comes behind those sent before.
LEMMA SentAppend ==
  ASSUME NEW s, IsSequence(s), NEW x
  PROVE  /\ IsSequence(Append(s, x)) /\ Len(Append(s, x)) = Len(s) + 1 /\ Len(s) \in Nat
         /\ \A i \in 1..Len(s) : Append(s, x)[i] = s[i]
         /\ Append(s, x)[Len(s) + 1] = x
<1> PICK S : s \in Seq(S)
  BY DEF IsSequence
<1>1. s \in Seq(S \cup {x}) /\ x \in S \cup {x}
  <2>1. \A i \in 1..Len(s) : s[i] \in S
    OBVIOUS
  <2> QED BY <2>1
<1> DEFINE T == S \cup {x}
<1> HIDE DEF T
<1>2. s \in Seq(T) /\ x \in T
  BY <1>1 DEF T
<1> QED BY <1>2 DEF IsSequence

\* Its POC is new, so they stay distinct.
LEMMA OnceMore ==
  ASSUME NEW s, IsSequence(s), Once(s), NEW x, x.poc \notin PocsOf(s)
  PROVE  Once(Append(s, x)) /\ PocsOf(Append(s, x)) = PocsOf(s) \cup {x.poc}
<1> DEFINE t == Append(s, x)
           n == Len(s)
<1>1. /\ Len(t) = n + 1 /\ n \in Nat /\ t[n + 1] = x
      /\ \A i \in 1..n : t[i] = s[i]
  BY SentAppend
<1> HIDE DEF t, n
<1>2. \A i \in 1..(n + 1) : i \in 1..n \/ i = n + 1
  BY <1>1
<1>3. 1..n \subseteq 1..(n + 1) /\ n + 1 \in 1..(n + 1) /\ n + 1 \notin 1..n
  BY <1>1
<1>4. \A i \in 1..n : s[i].poc # x.poc
  BY DEF PocsOf, n
<1>5. Once(t)
  <2> SUFFICES ASSUME NEW j \in 1..(n + 1), NEW k \in 1..(n + 1), t[j].poc = t[k].poc PROVE j = k
    BY <1>1 DEF Once
  <2>1. CASE j \in 1..n /\ k \in 1..n
    BY <1>1, <2>1 DEF Once, n
  <2>2. CASE j = n + 1 /\ k \in 1..n
    BY <1>1, <1>4, <2>2
  <2>3. CASE j \in 1..n /\ k = n + 1
    BY <1>1, <1>4, <2>3
  <2> QED BY <1>2, <2>1, <2>2, <2>3
<1>6. PocsOf(t) = PocsOf(s) \cup {x.poc}
  <2>1. ASSUME NEW y \in PocsOf(t) PROVE y \in PocsOf(s) \cup {x.poc}
    <3> PICK k \in 1..(n + 1) : y = t[k].poc
      BY <1>1 DEF PocsOf
    <3> QED BY <1>1, <1>2 DEF PocsOf, n
  <2>2. ASSUME NEW y \in PocsOf(s) PROVE y \in PocsOf(t)
    <3> PICK k \in 1..n : y = s[k].poc
      BY DEF PocsOf, n
    <3> QED BY <1>1, <1>3 DEF PocsOf
  <2>3. x.poc \in PocsOf(t)
    BY <1>1, <1>3 DEF PocsOf
  <2> QED BY <2>1, <2>2, <2>3
<1> QED BY <1>5, <1>6 DEF t

\* The next picture of a GOP is coded if there is a frame for it.
LEMMA CodedNext ==
  ASSUME Configuration, NEW before \in Int, NEW n \in 0..(GOPSize - 1), NEW frames \in 0..GOPSize
  PROVE  LET g == cfg.gop[n + 1].poc
         IN CodedOf(before, n + 1, frames)
              = CodedOf(before, n, frames) \cup IF g <= frames THEN {before + g} ELSE {}
<1>1. n \in Nat /\ n + 1 \in 1..(n + 1) /\ 1..n \subseteq 1..(n + 1)
  BY DEF Configuration
<1>2. \A i \in 1..(n + 1) : i \in 1..n \/ i = n + 1
  BY <1>1
<1> QED BY <1>1, <1>2 DEF CodedOf

\* Each picture of a GOP comes once.
LEMMA CodedNew ==
  ASSUME Configuration, NEW before \in Int, NEW n \in 0..(GOPSize - 1), NEW frames \in 0..GOPSize
  PROVE  LET g == cfg.gop[n + 1].poc
         IN g \in 1..GOPSize /\ before + g \notin 0..before \cup CodedOf(before, n, frames)
<1> DEFINE g == cfg.gop[n + 1].poc
<1>1. GOPSize = Len(cfg.gop) /\ n + 1 \in 1..GOPSize /\ \A i \in 1..n : i \in 1..GOPSize /\ i # n + 1
  BY DEF Configuration, GOPSize
<1>2. g \in 1..GOPSize /\ \A i \in 1..n : cfg.gop[i].poc \in 1..GOPSize /\ cfg.gop[i].poc # g
  BY <1>1 DEF Configuration, Permutes
<1> HIDE DEF g
<1>3. \A i \in 1..n : before + cfg.gop[i].poc # before + g
  BY <1>2
<1>4. before + g \notin 0..before
  BY <1>2
<1> QED BY <1>2, <1>3, <1>4 DEF CodedOf, g

\* Behind the last picture of a GOP its frames are coded.
LEMMA CodedAll ==
  ASSUME Configuration, NEW before \in Int, before >= -1, NEW frames \in 0..GOPSize
  PROVE  0..before \cup CodedOf(before, GOPSize, frames) = 0..(before + frames)
<1>0. GOPSize = Len(cfg.gop) /\ GOPSize \in Nat
  BY DEF Configuration, GOPSize
<1>1. ASSUME NEW x \in CodedOf(before, GOPSize, frames) PROVE x \in 0..(before + frames)
  <2> PICK i \in 1..GOPSize : x = before + cfg.gop[i].poc /\ cfg.gop[i].poc <= frames
    BY DEF CodedOf
  <2>1. cfg.gop[i].poc \in 1..GOPSize
    BY <1>0 DEF Configuration, Permutes
  <2> QED BY <2>1
<1>2. ASSUME NEW x \in 0..(before + frames), x \notin 0..before PROVE x \in CodedOf(before, GOPSize, frames)
  <2> DEFINE k == x - before
  <2>1. k \in 1..GOPSize /\ k <= frames /\ x = before + k
    BY <1>0, <1>2
  <2> HIDE DEF k
  <2> PICK i \in 1..GOPSize : cfg.gop[i].poc = k
    BY <1>0, <2>1 DEF Configuration, Permutes
  <2> QED BY <2>1 DEF CodedOf
<1>3. 0..before \subseteq 0..(before + frames)
  OBVIOUS
<1> QED BY <1>1, <1>2, <1>3

\* The reconstruction of a picture is put to its place in the ring.
LEMMA RingPut ==
  ASSUME Configuration, NEW ring \in Seq(Int), Len(ring) = GOPSize + 1, NEW before \in Int,
         NEW n \in 0..(GOPSize - 1), NEW frames \in 1..GOPSize, RingHolds(ring, before, n, frames),
         cfg.gop[n + 1].poc <= frames
  PROVE  LET g == cfg.gop[n + 1].poc
             after == [ring EXCEPT ![Len(ring) - (frames - g)] = before + g]
         IN after \in Seq(Int) /\ Len(after) = GOPSize + 1 /\ RingHolds(after, before, n + 1, frames)
<1> DEFINE g == cfg.gop[n + 1].poc
           at == GOPSize + 1 - frames + g
           after == [ring EXCEPT ![at] = before + g]
<1>1. GOPSize \in Nat \ {0}
  BY DEF Configuration
<1>2. g \in 1..GOPSize /\ \A i \in 1..n : cfg.gop[i].poc \in 1..GOPSize /\ cfg.gop[i].poc # g
  <2>1. GOPSize = Len(cfg.gop)
    BY DEF GOPSize
  <2>2. n + 1 \in 1..GOPSize /\ \A i \in 1..n : i \in 1..GOPSize /\ i # n + 1
    BY <1>1
  <2> QED BY <2>1, <2>2 DEF Configuration, Permutes
<1>g. g = cfg.gop[n + 1].poc /\ g <= frames
  OBVIOUS
<1> HIDE DEF g
<1>3. Len(ring) - (frames - g) = at /\ at \in 1..(GOPSize + 1)
  <2>1. g \in Int /\ 1 <= g /\ g <= frames /\ frames \in Int /\ frames <= GOPSize
    BY <1>1, <1>2, <1>g
  <2> DEFINE size == GOPSize
  <2>2. size \in Nat /\ Len(ring) = size + 1 /\ frames <= size /\ at = size + 1 - frames + g
    BY <1>1, <2>1
  <2> HIDE DEF size, at
  <2>3. at \in Int /\ 1 <= at /\ at <= size + 1
    BY ONLY <2>1, <2>2, frames \in Int
  <2>4. Len(ring) - (frames - g) = at
    BY ONLY <2>1, <2>2
  <2> QED BY <2>3, <2>4 DEF size
<1> HIDE DEF at
<1>4. /\ after \in Seq(Int) /\ Len(after) = GOPSize + 1 /\ after[at] = before + g
      /\ \A k \in 1..(GOPSize + 1) : k # at => after[k] = ring[k]
  <2>1. before + g \in Int
    BY <1>2
  <2> DEFINE v == before + g
  <2> HIDE DEF v
  <2>2. v \in Int /\ at \in 1..Len(ring)
    BY <1>3, <2>1 DEF v
  <2> QED BY <1>1, <1>3, <2>2 DEF v
<1> HIDE DEF after
<1>5. ASSUME NEW i \in 1..(n + 1), cfg.gop[i].poc <= frames
      PROVE  after[GOPSize + 1 - frames + cfg.gop[i].poc] = before + cfg.gop[i].poc
  <2>1. CASE i = n + 1
    BY <1>4, <1>g, <2>1 DEF at
  <2>2. CASE i # n + 1
    <3> DEFINE h == cfg.gop[i].poc
               k == GOPSize + 1 - frames + h
    <3>1. i \in 1..n
      BY <2>2
    <3>2. h \in 1..GOPSize /\ h # g /\ h <= frames
      BY <1>2, <1>5, <3>1
    <3> HIDE DEF h
    <3>3. k \in 1..(GOPSize + 1) /\ k # at
      BY <1>1, <1>2, <3>2 DEF at
    <3>4. ring[k] = before + h
      BY <1>5, <3>1 DEF RingHolds, h
    <3> QED BY <1>4, <3>3, <3>4 DEF h
  <2> QED BY <2>1, <2>2
<1> QED BY <1>3, <1>4, <1>5, <1>g DEF after, RingHolds

\* Of a picture that has no frame nothing is put there.
LEMMA RingPassed ==
  ASSUME Configuration, NEW ring, NEW before, NEW n \in 0..(GOPSize - 1), NEW frames \in 0..GOPSize,
         RingHolds(ring, before, n, frames), ~ cfg.gop[n + 1].poc <= frames
  PROVE  RingHolds(ring, before, n + 1, frames)
BY DEF RingHolds

\* The reconstruction that is written goes on with the frames of the GOP.
LEMMA ReconGrows ==
  ASSUME Configuration, NEW ring \in Seq(Int), Len(ring) = GOPSize + 1, NEW before \in Int, before >= -1,
         NEW frames \in 1..GOPSize, NEW recon \in Seq(Int), Ascending(recon), Len(recon) = before + 1,
         \A k \in 1..frames : ring[GOPSize + 1 - frames + k] = before + k
  PROVE  LET all == recon \o SubSeq(ring, Len(ring) - frames + 1, Len(ring))
         IN all \in Seq(Int) /\ Len(all) = before + 1 + frames /\ Ascending(all)
<1> DEFINE a == Len(ring) - frames + 1
           s == SubSeq(ring, a, Len(ring))
           all == recon \o s
<1>1. GOPSize \in Nat /\ Len(ring) = GOPSize + 1 /\ a \in 1..Len(ring) /\ Len(ring) \in Nat
  BY DEF Configuration
<1>2. s \in Seq(Int) /\ Len(s) = frames /\ \A k \in 1..frames : s[k] = ring[a + k - 1]
  <2>1. s \in Seq(Int)
    BY <1>1
  <2>2. Len(s) = Len(ring) - a + 1
    BY <1>1
  <2>3. Len(s) = frames
    BY <1>1, <2>2
  <2>4. \A k \in 1..(Len(ring) - a + 1) : s[k] = ring[a + k - 1]
    BY <1>1
  <2>5. Len(ring) - a + 1 = frames
    BY <1>1
  <2> QED BY <2>1, <2>3, <2>4, <2>5
<1>3. \A k \in 1..frames : s[k] = before + k
  <2>1. \A k \in 1..frames : a + k - 1 = GOPSize + 1 - frames + k
    BY <1>1
  <2> QED BY <1>2, <2>1
<1> HIDE DEF s
<1>4. all \in Seq(Int) /\ Len(all) = before + 1 + frames
  <2>1. s \in Seq(Int)
    BY <1>2
  <2>2. all \in Seq(Int) /\ Len(all) = Len(recon) + Len(s)
    BY <2>1, ConcatProperties
  <2>3. Len(s) = frames
    BY <1>2
  <2> HIDE DEF all
  <2> QED BY <2>2, <2>3
<1>5. \A i \in 1..(before + 1 + frames) : all[i] = i - 1
  <2> TAKE i \in 1..(before + 1 + frames)
  <2>1. CASE i <= before + 1
    <3>1. i \in 1..Len(recon)
      BY <2>1
    <3>2. all[i] = recon[i]
      BY <1>2, <3>1
    <3> QED BY <3>1, <3>2 DEF Ascending
  <2>2. CASE i > before + 1
    <3> DEFINE k == i - (before + 1)
    <3>1. k \in 1..frames /\ i = before + 1 + k
      BY <2>2
    <3>2. all[Len(recon) + k] = s[k]
      <4>1. k \in 1..Len(s) /\ s \in Seq(Int)
        BY <1>2, <3>1
      <4> HIDE DEF k
      <4> QED BY <4>1, SMTT(20)
    <3> HIDE DEF k
    <3>3. Len(recon) + k = i /\ s[k] = before + k
      BY <1>3, <3>1
    <3>4. before + k = i - 1
      BY <3>1
    <3> HIDE DEF all
    <3> QED BY <3>2, <3>3, <3>4
  <2>3. i <= before + 1 \/ i > before + 1
    OBVIOUS
  <2> QED BY <2>1, <2>2, <2>3
<1> QED BY <1>4, <1>5 DEF s, Ascending

\* A list of the encoder is another, its queue is the same.
SameQueue(e, f) == DOMAIN f = EncFields /\ f.last = e.last /\ f.rcvd = e.rcvd /\ f.id = e.id

\* compressGOP does not touch the queue.
LEMMA CodingKeepsQueue ==
  ASSUME NEW e, DOMAIN e = EncFields, NEW n, NEW list, NEW irap
  PROVE  LET f == RefreshMarking(Started(e, n), n)
         IN SameQueue(e, f) /\ SameQueue(e, [f EXCEPT !.list = list, !.irap = irap])
<1> DEFINE s == Started(e, n)
           f == RefreshMarking(s, n)
<1>1. SameQueue(e, s)
  BY DEF SameQueue, Started, EncFields
<1> HIDE DEF s
<1>2. SameQueue(s, f)
  BY <1>1 DEF SameQueue, RefreshMarking, EncFields
<1> HIDE DEF f
<1>3. SameQueue(e, f)
  BY <1>1, <1>2 DEF SameQueue
<1>4. SameQueue(e, [f EXCEPT !.list = list, !.irap = irap])
  BY <1>3 DEF SameQueue, EncFields
<1> QED BY <1>3, <1>4 DEF s, f

(* ----------------------------------- steps ----------------------------------- *)

\* Proceed, of a queue with the POC before it: the next picture, or the next GOP.
LEMMA ProceedInvariant ==
  ASSUME EncoderInv, app.phase = "encode", UNCHANGED cfg,
         NEW e, SameQueue(enc, e), NEW ring \in Seq(Int), Len(ring) = GOPSize + 1, Proceed(e, ring),
         IsSequence(sent'), Once(sent'),
         enc.last = 0 => PocsOf(sent') = {0} /\ ring[GOPSize + 1] = 0,
         enc.last # 0 => /\ PocsOf(sent') = 0..Before \cup CodedOf(Before, enc.id + 1, enc.rcvd)
                         /\ RingHolds(ring, Before, enc.id + 1, enc.rcvd)
  PROVE  EncoderInv'
<1>1. /\ DOMAIN app = AppFields /\ DOMAIN e = EncFields
      /\ e.last = enc.last /\ e.rcvd = enc.rcvd /\ e.id = enc.id
  BY DEF EncoderInv, Reading, SameQueue
<1>2. GOPSize \in Nat \ {0} /\ GOPSize' = GOPSize /\ Configuration'
  BY DEF EncoderInv, Configuration, GOPSize
<1>3. /\ app.rcvd \in Nat /\ app.eos \in BOOLEAN /\ enc.last = app.rcvd - 1
      /\ enc.rcvd \in 1..GOPSize /\ enc.id \in 0..(GOPSize - 1) /\ enc.last \in Nat
      /\ Before \in Int /\ Before >= -1 /\ enc.last = Before + enc.rcvd
      /\ enc.last = 0 => enc.id = 0 /\ enc.rcvd = 1 /\ Before = -1
      /\ enc.last # 0 => Before >= 0
  <2>1. /\ app.rcvd \in Nat /\ app.eos \in BOOLEAN /\ enc.last = app.rcvd - 1
        /\ enc.rcvd \in 0..GOPSize /\ enc.id \in 0..GOPSize
    BY DEF EncoderInv, Reading
  <2>2. /\ enc.rcvd > 0 /\ enc.id < GOPSize /\ (enc.last = 0 => enc.id = 0)
        /\ enc.last = 0 => enc.rcvd = 1
        /\ enc.last # 0 => Before >= 0
    BY DEF EncoderInv, Encoding, Queued
  <2>3. Before = enc.last - enc.rcvd
    BY DEF Before
  <2>4. enc.last \in Int /\ enc.rcvd \in 1..GOPSize /\ enc.id \in 0..(GOPSize - 1)
    BY <1>2, <2>1, <2>2
  <2>5. Before \in Int /\ enc.last = Before + enc.rcvd
    BY <2>3, <2>4
  <2>6. CASE enc.last = 0
    <3>1. Before = -1
      BY <2>2, <2>3, <2>6
    <3> QED BY <2>1, <2>2, <2>4, <2>5, <2>6, <3>1
  <2>7. CASE enc.last # 0
    <3>1. enc.last \in Nat /\ Before >= -1
      BY <2>2, <2>4, <2>5, <2>7
    <3> QED BY <2>1, <2>2, <2>4, <2>5, <2>7, <3>1
  <2> QED BY <2>6, <2>7
<1>4. CASE e.id + 1 # GOPSize /\ e.last # 0
  <2>1. enc' = [e EXCEPT !.id = @ + 1] /\ app' = [app EXCEPT !.ring = ring]
    BY <1>4 DEF Proceed
  <2>2. /\ DOMAIN app' = AppFields /\ DOMAIN enc' = EncFields
        /\ enc'.last = enc.last /\ enc'.rcvd = enc.rcvd /\ enc'.id = enc.id + 1
        /\ app'.ring = ring /\ app'.phase = "encode" /\ app'.rcvd = app.rcvd /\ app'.eos = app.eos
        /\ app'.frames = app.frames /\ app'.recon = app.recon
    BY <1>1, <2>1 DEF AppFields, EncFields
  <2>3. Before' = Before
    BY <2>2 DEF Before
  <2>4. Reading'
    <3>1. enc'.id \in 0..GOPSize'
      BY <1>2, <1>3, <2>2, SMTT(20)
    <3>2. enc'.rcvd \in 0..GOPSize' /\ Len(app'.ring) = GOPSize' + 1
      BY <1>2, <1>3, <2>2
    <3> QED BY <2>2, <3>1, <3>2 DEF EncoderInv, Reading
  <2>5. Written'
    BY <2>2 DEF EncoderInv, Written
  <2>6. Queued'
    BY <1>2, <2>2, <2>3 DEF EncoderInv, Encoding, Queued
  <2>7. PocsOf(sent)' = (0..Before \cup CodedOf(Before, enc.id, enc.rcvd))'
    BY <1>1, <1>4, <2>2, <2>3 DEF CodedOf, PocsOf
  <2>8. RingHolds(app.ring, Before, enc.id, enc.rcvd)'
    BY <1>1, <1>2, <1>4, <2>2, <2>3 DEF RingHolds
  <2>9. enc'.id < GOPSize' /\ enc'.last # 0 /\ Len(app'.recon) = Before' + 1
    <3>1. enc.id + 1 < GOPSize
      BY <1>1, <1>2, <1>3, <1>4
    <3>2. Len(app.recon) = Before + 1
      BY DEF EncoderInv, Encoding
    <3> QED BY <1>1, <1>2, <1>4, <2>2, <2>3, <3>1, <3>2
  <2> QED BY <1>2, <2>2, <2>4, <2>5, <2>6, <2>7, <2>8, <2>9
          DEF EncoderInv, Preparing, Encoding, Finished
<1>5. CASE ~ (e.id + 1 # GOPSize /\ e.last # 0)
  <2> DEFINE recon == app.recon \o SubSeq(ring, Len(ring) - enc.rcvd + 1, Len(ring))
             after == IF app.eos THEN "done" ELSE "prep"
  <2>1. /\ enc' = [e EXCEPT !.id = @ + 1, !.rcvd = 0]
        /\ app' = [app EXCEPT !.ring = ring, !.recon = recon, !.phase = after]
    BY <1>1, <1>5 DEF Proceed
  <2> HIDE DEF recon, after
  <2>2. /\ DOMAIN app' = AppFields /\ DOMAIN enc' = EncFields
        /\ enc'.last = enc.last /\ enc'.rcvd = 0 /\ enc'.id = enc.id + 1
        /\ app'.ring = ring /\ app'.phase = after /\ app'.rcvd = app.rcvd /\ app'.eos = app.eos
        /\ app'.frames = app.frames /\ app'.recon = recon
    BY <1>1, <2>1 DEF AppFields, EncFields
  <2>3. \A k \in 1..enc.rcvd : ring[GOPSize + 1 - enc.rcvd + k] = Before + k
    <3>1. CASE enc.last = 0
      <4> TAKE k \in 1..enc.rcvd
      <4>1. k = 1 /\ enc.rcvd = 1 /\ Before = -1
        BY <1>3, <3>1
      <4>2. GOPSize + 1 - enc.rcvd + k = GOPSize + 1 /\ Before + k = 0
        BY <1>2, <4>1
      <4> QED BY <3>1, <4>2
    <3>2. CASE enc.last # 0
      <4> TAKE k \in 1..enc.rcvd
      <4>1. k \in 1..GOPSize /\ enc.id + 1 = GOPSize /\ k <= enc.rcvd
        BY <1>1, <1>2, <1>3, <1>5, <3>2
      <4>2. PICK i \in 1..GOPSize : cfg.gop[i].poc = k
        BY <4>1 DEF EncoderInv, Configuration, Permutes, GOPSize
      <4> QED BY <3>2, <4>1, <4>2 DEF RingHolds
    <3> QED BY <3>1, <3>2
  <2>4. recon \in Seq(Int) /\ Len(recon) = Before + 1 + enc.rcvd /\ Ascending(recon)
    BY <1>3, <2>3, ReconGrows DEF EncoderInv, Written, Encoding, recon
  <2>5. PocsOf(sent') = 0..enc.last
    <3>1. CASE enc.last = 0
      BY <3>1
    <3>2. CASE enc.last # 0
      <4>1. enc.id + 1 = GOPSize
        BY <1>1, <1>5, <3>2
      <4>2. /\ Configuration /\ Before \in Int /\ Before >= -1 /\ enc.rcvd \in 0..GOPSize
            /\ Before + enc.rcvd = enc.last
        BY <1>2, <1>3 DEF EncoderInv
      <4>3. 0..Before \cup CodedOf(Before, GOPSize, enc.rcvd) = 0..(Before + enc.rcvd)
        BY <4>2, CodedAll
      <4> QED BY <3>2, <4>1, <4>2, <4>3
    <3> QED BY <3>1, <3>2
  <2>6. Before' = enc.last
    BY <1>3, <2>2 DEF Before
  <2>7. Reading'
    BY <1>1, <1>2, <1>3, <2>2, SMTT(20) DEF EncoderInv, Reading
  <2>8. Written'
    BY <2>2, <2>4 DEF Written
  <2>9. PocsOf(sent)' = 0..enc.last
    BY <2>5 DEF PocsOf
  <2>10. CASE app.eos
    <3>1. app'.phase = "done" /\ app.rcvd \in {cfg.file, cfg.frames}
      BY <2>2, <2>10 DEF after, EncoderInv, Encoding, Queued
    <3>2. Len(app'.recon) = app'.rcvd
      BY <1>3, <2>2, <2>4
    <3> QED BY <1>2, <2>2, <2>7, <2>8, <2>9, <3>1, <3>2
            DEF EncoderInv, Preparing, Encoding, Finished
  <2>11. CASE ~app.eos
    <3>1. app'.phase = "prep" /\ app.frames = cfg.frames /\ app.rcvd < cfg.frames
      BY <2>2, <2>11 DEF after, EncoderInv, Encoding, Queued
    <3>2. Len(app'.recon) = Before' + 1
      BY <1>3, <2>2, <2>4, <2>6
    <3> QED BY <1>2, <2>2, <2>6, <2>7, <2>8, <2>9, <2>11, <3>1, <3>2
            DEF EncoderInv, Preparing, Encoding, Finished
  <2> QED BY <2>10, <2>11
<1> QED BY <1>4, <1>5

\* EncodePrep: a frame is queued, or the end of the file is seen.
LEMMA EncodePrepInvariant ==
  ASSUME EncoderInv, EncodePrep
  PROVE  EncoderInv'
<1> DEFINE eof == app.rcvd >= cfg.file
           eos == eof \/ app.rcvd + 1 = cfg.frames
           e == IF eof THEN enc
                ELSE [enc EXCEPT !.list = GetNewPicBuffer(@, enc.last + 1), !.last = @ + 1, !.rcvd = @ + 1]
           ring == IF eof THEN app.ring ELSE Append(Tail(app.ring), Head(app.ring))
<1>1. /\ app.phase = "prep" /\ UNCHANGED <<cfg, sent>>
      /\ enc' = IF KeepDoing(e, eos) THEN e ELSE [e EXCEPT !.id = 0]
      /\ app' = [app EXCEPT !.rcvd = IF eof THEN @ ELSE @ + 1,
                            !.frames = IF eof THEN app.rcvd ELSE @,
                            !.eos = eos, !.ring = ring,
                            !.phase = IF KeepDoing(e, eos) THEN "prep" ELSE "encode"]
  BY DEF EncodePrep
<1>2. GOPSize \in Nat \ {0} /\ GOPSize' = GOPSize /\ Configuration'
      /\ cfg.frames \in Nat \ {0} /\ cfg.file \in Nat
  BY <1>1 DEF EncoderInv, Configuration, GOPSize
<1>3. /\ DOMAIN app = AppFields /\ DOMAIN enc = EncFields
      /\ app.rcvd \in Nat /\ app.eos \in BOOLEAN /\ app.rcvd <= cfg.frames /\ app.rcvd <= cfg.file
      /\ enc.last = app.rcvd - 1 /\ enc.rcvd \in 0..GOPSize /\ enc.id \in 0..GOPSize
      /\ app.ring \in Seq(Int) /\ Len(app.ring) = GOPSize + 1
  BY DEF EncoderInv, Reading
<1>4. /\ PocsOf(sent) = 0..Before /\ Len(app.recon) = Before + 1
      /\ enc.rcvd < GOPSize /\ (enc.rcvd > 0 => Before >= 0)
      /\ app.eos => enc.rcvd = 0 /\ app.frames = app.rcvd /\ app.rcvd = cfg.file
      /\ ~app.eos => app.frames = cfg.frames /\ app.rcvd < cfg.frames
  BY <1>1 DEF EncoderInv, Preparing
<1>5. Before \in Int /\ Before = enc.last - enc.rcvd
  BY <1>3 DEF Before
<1>6. ring \in Seq(Int) /\ Len(ring) = GOPSize + 1
  <2>1. app.ring # <<>>
    BY <1>2, <1>3
  <2>2. Tail(app.ring) \in Seq(Int) /\ Len(Tail(app.ring)) = GOPSize /\ Head(app.ring) \in Int
    BY <1>2, <1>3, <2>1
  <2>3. Append(Tail(app.ring), Head(app.ring)) \in Seq(Int)
        /\ Len(Append(Tail(app.ring), Head(app.ring))) = GOPSize + 1
    BY <2>2
  <2> QED BY <1>3, <2>3
<1>e. eos \in BOOLEAN /\ (eof => eos)
  OBVIOUS
<1>7. /\ DOMAIN e = EncFields
      /\ eof => e.last = enc.last /\ e.rcvd = enc.rcvd /\ e.id = enc.id
      /\ ~eof => e.last = enc.last + 1 /\ e.rcvd = enc.rcvd + 1 /\ e.id = enc.id
  BY <1>3 DEF EncFields
<1>k. KeepDoing(e, eos) <=> e.rcvd = 0 \/ (~eos /\ e.last # 0 /\ e.rcvd # GOPSize)
  BY DEF KeepDoing
<1> DEFINE keep == KeepDoing(e, eos)
<1> HIDE DEF e, ring, keep
<1>8. /\ DOMAIN app' = AppFields /\ DOMAIN enc' = EncFields
      /\ enc'.last = e.last /\ enc'.rcvd = e.rcvd /\ enc'.id = IF keep THEN enc.id ELSE 0
      /\ app'.ring = ring /\ app'.recon = app.recon /\ app'.eos = eos
      /\ app'.rcvd = (IF eof THEN app.rcvd ELSE app.rcvd + 1)
      /\ app'.frames = (IF eof THEN app.rcvd ELSE app.frames)
      /\ app'.phase = IF keep THEN "prep" ELSE "encode"
  BY <1>1, <1>3, <1>7 DEF AppFields, EncFields, keep
<1>9. /\ Before' = Before /\ PocsOf(sent)' = 0..Before /\ Len(app'.recon) = Before' + 1
      /\ enc'.last = app'.rcvd - 1
  <2>1. Before' = e.last - e.rcvd
    BY <1>8 DEF Before
  <2>2. e.last - e.rcvd = Before
    BY <1>3, <1>5, <1>7
  <2>3. PocsOf(sent)' = PocsOf(sent)
    BY <1>1 DEF PocsOf
  <2> QED BY <1>3, <1>4, <1>7, <1>8, <2>1, <2>2, <2>3
<1>b. Before' = Before /\ (enc.rcvd > 0 => Before >= 0)
  BY <1>4, <1>9
<1>10. Written'
  BY <1>1, <1>8 DEF EncoderInv, Written
<1>11. ~eof => ~app.eos /\ app.rcvd < cfg.frames /\ app.rcvd < cfg.file /\ app.frames = cfg.frames
  BY <1>2, <1>3, <1>4
<1>12. eof => app.rcvd = cfg.file
  BY <1>2, <1>3
<1>13. enc'.rcvd \in 0..GOPSize
  BY <1>2, <1>3, <1>4, <1>7, <1>8
<1>14. Reading'
  <2>1. app'.rcvd \in Nat /\ app'.rcvd <= cfg.frames /\ app'.rcvd <= cfg.file
    BY <1>2, <1>3, <1>8, <1>11
  <2>2. enc'.id \in 0..GOPSize
    BY <1>2, <1>3, <1>8
  <2> QED BY <1>1, <1>2, <1>e, <1>6, <1>8, <1>9, <1>13, <2>1, <2>2 DEF Reading
<1>15. CASE keep
  <2>1. app'.phase = "prep"
    BY <1>8, <1>15
  <2>2. CASE eof
    <3>1. enc'.rcvd = 0
      BY <1>e, <1>k, <1>8, <1>15, <2>2 DEF keep
    <3>2. app'.eos /\ app'.frames = app'.rcvd /\ app'.rcvd = cfg'.file
      BY <1>1, <1>e, <1>8, <1>12, <2>2
    <3>3. enc'.rcvd < GOPSize'
      BY <1>2, <3>1
    <3> HIDE DEF eof, eos
    <3> QED BY <1>2, <1>9, <1>10, <1>14, <2>1, <3>1, <3>2, <3>3
            DEF EncoderInv, Preparing, Encoding, Finished
  <2>3. CASE ~eof
    <3>1. e.rcvd = enc.rcvd + 1 /\ e.last = app.rcvd
      BY <1>3, <1>7, <2>3
    <3>2. ~eos /\ e.last # 0 /\ e.rcvd # GOPSize
      BY <1>3, <1>k, <1>15, <3>1 DEF keep
    <3>3. enc'.rcvd < GOPSize' /\ Before' >= 0
      <4>1. enc'.rcvd = enc.rcvd + 1 /\ enc'.rcvd # GOPSize /\ enc.rcvd < GOPSize
        BY <1>4, <1>8, <3>1, <3>2
      <4>2. enc'.rcvd < GOPSize
        BY <1>2, <1>3, <4>1
      <4>3. Before' >= 0
        <5>1. CASE enc.rcvd > 0
          BY ONLY <1>b, <5>1
        <5>2. CASE enc.rcvd = 0
          <6>1. Before = app.rcvd - 1 /\ app.rcvd # 0
            BY <1>3, <1>5, <3>1, <3>2, <5>2
          <6>2. app.rcvd \in Nat
            BY <1>3
          <6> QED BY ONLY <1>b, <6>1, <6>2
        <5> QED BY <1>3, <5>1, <5>2
      <4> QED BY <1>2, <4>2, <4>3
    <3>4. app'.frames = cfg'.frames /\ app'.rcvd < cfg'.frames
      BY <1>1, <1>2, <1>3, <1>8, <1>11, <2>3, <3>2
    <3> QED BY <1>2, <1>8, <1>9, <1>10, <1>14, <2>1, <3>2, <3>3, <3>4
            DEF EncoderInv, Preparing, Encoding, Finished
  <2> QED BY <2>2, <2>3
<1>16. CASE ~keep
  <2>1. app'.phase = "encode" /\ enc'.id = 0
    BY <1>8, <1>16
  <2>2. e.rcvd # 0 /\ (eos \/ e.last = 0 \/ e.rcvd = GOPSize)
    BY <1>k, <1>16 DEF keep
  <2>3. enc'.rcvd > 0
    BY <1>8, <1>13, <2>2
  <2>4. IF enc'.last = 0 THEN enc'.rcvd = 1 ELSE Before' >= 0
    <3>1. CASE eof
      BY <1>3, <1>4, <1>5, <1>7, <1>8, <1>9, <2>3, <3>1
    <3>2. CASE ~eof
      BY <1>3, <1>4, <1>5, <1>7, <1>8, <1>9, <2>3, <3>2
    <3> QED BY <3>1, <3>2
  <2>5. app'.eos => app'.frames = app'.rcvd /\ app'.rcvd \in {cfg.file, cfg.frames}
    <3>1. CASE eof
      BY <1>8, <1>12, <3>1
    <3>2. CASE ~eof
      BY <1>8, <1>11, <3>2
    <3> QED BY <3>1, <3>2
  <2>6. ~app'.eos => /\ enc'.last = 0 \/ enc'.rcvd = GOPSize
                     /\ app'.frames = cfg.frames /\ app'.rcvd < cfg.frames
    <3>1. SUFFICES ASSUME ~eos PROVE /\ enc'.last = 0 \/ enc'.rcvd = GOPSize
                                     /\ app'.frames = cfg.frames /\ app'.rcvd < cfg.frames
      BY <1>8
    <3> QED BY <1>2, <1>3, <1>8, <1>11, <2>2, <3>1
  <2>7. Queued'
    BY <1>1, <1>2, <2>3, <2>4, <2>5, <2>6 DEF Queued
  <2>8. CodedOf(Before, enc.id, enc.rcvd)' = {}
    BY <2>1 DEF CodedOf
  <2>9. RingHolds(app.ring, Before, enc.id, enc.rcvd)'
    BY <2>1 DEF RingHolds
  <2>10. enc'.id < GOPSize'
    BY <1>2, <2>1
  <2> QED BY <1>2, <1>8, <1>9, <1>10, <1>14, <2>1, <2>7, <2>8, <2>9, <2>10
          DEF EncoderInv, Preparing, Encoding, Finished
<1> QED BY <1>15, <1>16

\* Where the next picture of the GOP belongs, and whether there is a frame for it.
LEMMA NextPicture ==
  ASSUME EncoderInv, app.phase = "encode"
  PROVE  /\ enc.last = 0 => CurrentPoc = 0 /\ CurrentPoc < app.frames
         /\ enc.last # 0 =>
              /\ CurrentPoc = Before + cfg.gop[enc.id + 1].poc
              /\ cfg.gop[enc.id + 1].poc \in 1..GOPSize
              /\ CurrentPoc < app.frames <=> cfg.gop[enc.id + 1].poc <= enc.rcvd
         /\ enc.id \in 0..(GOPSize - 1) /\ enc.rcvd \in 1..GOPSize /\ Before \in Int
         /\ enc.last = Before + enc.rcvd /\ enc.last \in Nat
         /\ CurrentPoc \in Int /\ app.frames \in Int
<1>1. /\ app.rcvd \in Nat /\ app.eos \in BOOLEAN /\ enc.last = app.rcvd - 1
      /\ enc.rcvd \in 0..GOPSize /\ enc.id \in 0..GOPSize
  BY DEF EncoderInv, Reading
<1>2. /\ enc.rcvd > 0 /\ enc.id < GOPSize /\ (enc.last = 0 => enc.id = 0)
      /\ enc.last = 0 => enc.rcvd = 1
      /\ enc.last # 0 => Before >= 0
      /\ app.eos => app.frames = app.rcvd
      /\ ~app.eos => (enc.last = 0 \/ enc.rcvd = GOPSize) /\ app.frames = cfg.frames /\ app.rcvd < cfg.frames
  BY DEF EncoderInv, Encoding, Queued
<1>3. Before = enc.last - enc.rcvd
  BY DEF Before
<1>4. GOPSize \in Nat \ {0} /\ cfg.frames \in Nat /\ GOPSize = Len(cfg.gop)
  BY DEF EncoderInv, Configuration, GOPSize
<1>5. enc.id \in 0..(GOPSize - 1) /\ enc.rcvd \in 1..GOPSize
  BY <1>1, <1>2, <1>4
<1>6. Before \in Int /\ enc.last = Before + enc.rcvd /\ app.frames \in Int /\ enc.last \in Int
  BY <1>1, <1>2, <1>3, <1>4
<1>7. CASE enc.last = 0
  <2>1. CurrentPoc = 0
    BY <1>7 DEF CurrentPoc
  <2>2. app.rcvd = 1 /\ 0 < app.frames
    BY <1>1, <1>2, <1>4, <1>7
  <2> QED BY <1>5, <1>6, <1>7, <2>1, <2>2
<1>8. CASE enc.last # 0
  <2> DEFINE g == cfg.gop[enc.id + 1].poc
  <2>1. g \in 1..GOPSize
    <3>1. enc.id + 1 \in 1..GOPSize
      BY <1>4, <1>5
    <3> QED BY <1>4, <3>1 DEF EncoderInv, Configuration, Permutes
  <2>2. CurrentPoc = Before + g
    BY <1>8 DEF CurrentPoc, Before
  <2> HIDE DEF g
  <2>3. CurrentPoc < app.frames <=> g <= enc.rcvd
    <3>1. CASE app.eos
      <4>1. app.frames = Before + enc.rcvd + 1
        BY <1>1, <1>2, <1>6, <3>1
      <4> QED BY <1>5, <1>6, <2>1, <2>2, <4>1
    <3>2. CASE ~app.eos
      <4>1. enc.rcvd = GOPSize /\ Before + GOPSize < app.frames
        BY <1>1, <1>2, <1>4, <1>6, <1>8, <3>2
      <4> QED BY <1>4, <1>6, <2>1, <2>2, <4>1
    <3> QED BY <1>1, <3>1, <3>2
  <2>4. enc.last \in Nat
    BY <1>1, <1>2, <1>5, <1>6, <1>8
  <2> QED BY <1>5, <1>6, <1>8, <2>1, <2>2, <2>3, <2>4 DEF g
<1> QED BY <1>7, <1>8

\* A picture beyond the last frame is passed over.
LEMMA EncodeBeyondEndInvariant ==
  ASSUME EncoderInv, EncodeBeyondEnd
  PROVE  EncoderInv'
<1>1. app.phase = "encode" /\ CurrentPoc >= app.frames /\ Proceed(enc, app.ring) /\ UNCHANGED <<cfg, sent>>
  BY DEF EncodeBeyondEnd
<1>2. /\ enc.last # 0
      /\ ~ cfg.gop[enc.id + 1].poc <= enc.rcvd
      /\ enc.id \in 0..(GOPSize - 1) /\ enc.rcvd \in 0..GOPSize /\ Before \in Int
  BY <1>1, NextPicture
<1>3. /\ Configuration /\ DOMAIN enc = EncFields
      /\ app.ring \in Seq(Int) /\ Len(app.ring) = GOPSize + 1
      /\ IsSequence(sent) /\ Once(sent)
      /\ PocsOf(sent) = 0..Before \cup CodedOf(Before, enc.id, enc.rcvd)
      /\ RingHolds(app.ring, Before, enc.id, enc.rcvd)
  BY <1>1 DEF EncoderInv, Reading, Written, Encoding
<1>4. RingHolds(app.ring, Before, enc.id + 1, enc.rcvd)
  BY <1>2, <1>3, RingPassed
<1>5. CodedOf(Before, enc.id + 1, enc.rcvd) = CodedOf(Before, enc.id, enc.rcvd)
  <2> DEFINE g == cfg.gop[enc.id + 1].poc
  <2>1. CodedOf(Before, enc.id + 1, enc.rcvd)
          = CodedOf(Before, enc.id, enc.rcvd) \cup IF g <= enc.rcvd THEN {Before + g} ELSE {}
    BY <1>2, <1>3, CodedNext
  <2>2. ~ g <= enc.rcvd
    BY <1>2
  <2> HIDE DEF g
  <2> QED BY <2>1, <2>2
<1>6. SameQueue(enc, enc)
  BY <1>3 DEF SameQueue
<1>7. sent' = sent
  BY <1>1
<1> QED BY <1>1, <1>2, <1>3, <1>4, <1>5, <1>6, <1>7, ProceedInvariant

\* A picture is coded, or its checks fail.
LEMMA EncodePictureInvariant ==
  ASSUME EncoderInv, EncodePicture
  PROVE  EncoderInv'
<1> DEFINE new == NewSlice(enc, CurrentPoc, enc.id + 1)
           e == RefreshMarking(Started(enc, new), new)
           n == WithLists(e, new)
           list == KeptByLists(e.list, n)
           place == Len(app.ring) - (enc.rcvd - (IF enc.last = 0 THEN 1 ELSE cfg.gop[enc.id + 1].poc))
           f == [e EXCEPT !.list = Reconstructed(list, n), !.irap = n.irap]
           ring == [app.ring EXCEPT ![place] = n.poc]
<1>1. /\ app.phase = "encode" /\ CurrentPoc < app.frames /\ UNCHANGED cfg
      /\ \/ sent' = Append(sent, Coded(n, list)) /\ Proceed(f, ring)
         \/ app' = [app EXCEPT !.phase = "failed"] /\ UNCHANGED <<enc, sent>>
  BY DEF EncodePicture
<1>2. n.poc = CurrentPoc /\ Coded(n, list).poc = n.poc
  BY Zenon DEF WithLists, NewSlice, Coded
<1>3. SameQueue(enc, f)
  BY CodingKeepsQueue, Zenon DEF EncoderInv, Reading
<1>4. /\ Configuration /\ GOPSize \in Nat \ {0}
      /\ app.ring \in Seq(Int) /\ Len(app.ring) = GOPSize + 1
      /\ IsSequence(sent) /\ Once(sent)
      /\ PocsOf(sent) = 0..Before \cup CodedOf(Before, enc.id, enc.rcvd)
      /\ RingHolds(app.ring, Before, enc.id, enc.rcvd)
  BY <1>1 DEF EncoderInv, Configuration, Reading, Written, Encoding
<1>5. /\ enc.last = 0 => CurrentPoc = 0 /\ enc.id = 0 /\ enc.rcvd = 1 /\ Before = -1
      /\ enc.last # 0 => /\ CurrentPoc = Before + cfg.gop[enc.id + 1].poc
                         /\ cfg.gop[enc.id + 1].poc <= enc.rcvd
      /\ enc.id \in 0..(GOPSize - 1) /\ enc.rcvd \in 1..GOPSize /\ Before \in Int
  <2>1. enc.last = 0 => enc.id = 0 /\ enc.rcvd = 1
    BY <1>1 DEF EncoderInv, Encoding, Queued
  <2>2. enc.last = 0 => Before = -1
    BY <2>1 DEF Before
  <2> QED BY <1>1, <2>1, <2>2, NextPicture
<1> HIDE DEF f, n, list, e, new
<1>6. CASE sent' = Append(sent, Coded(n, list)) /\ Proceed(f, ring)
  <2> DEFINE x == Coded(n, list)
  <2>x. x.poc = CurrentPoc
    BY <1>2
  <2> HIDE DEF x
  <2>1. CurrentPoc \notin PocsOf(sent)
    <3>1. CASE enc.last = 0
      BY <1>4, <1>5, <3>1 DEF CodedOf
    <3>2. CASE enc.last # 0
      <4>1. enc.rcvd \in 0..GOPSize
        BY <1>5
      <4> QED BY <1>4, <1>5, <3>2, <4>1, CodedNew
    <3> QED BY <3>1, <3>2
  <2>2. /\ IsSequence(Append(sent, x)) /\ Once(Append(sent, x))
        /\ PocsOf(Append(sent, x)) = PocsOf(sent) \cup {CurrentPoc}
    BY <1>4, <2>x, <2>1, OnceMore, SentAppend
  <2>3. sent' = Append(sent, x)
    BY <1>6 DEF x
  <2>4. CASE enc.last = 0
    <3>1. place = GOPSize + 1 /\ n.poc = 0
      BY <1>2, <1>4, <1>5, <2>4
    <3> HIDE DEF place
    <3>2. ring \in Seq(Int) /\ Len(ring) = GOPSize + 1 /\ ring[GOPSize + 1] = 0
      BY <1>4, <3>1
    <3>3. PocsOf(Append(sent, x)) = {0}
      <4>1. 0..Before = {} /\ CodedOf(Before, enc.id, enc.rcvd) = {}
        BY <1>5, <2>4 DEF CodedOf
      <4> QED BY <1>4, <1>5, <2>2, <2>4, <4>1
    <3> HIDE DEF ring
    <3> QED BY <1>1, <1>3, <1>6, <2>2, <2>3, <2>4, <3>2, <3>3, ProceedInvariant
  <2>5. CASE enc.last # 0
    <3>1. enc.rcvd \in 0..GOPSize
      BY <1>5
    <3>2. CodedOf(Before, enc.id + 1, enc.rcvd) = CodedOf(Before, enc.id, enc.rcvd) \cup {CurrentPoc}
      BY <1>4, <1>5, <2>5, <3>1, CodedNext
    <3>3. PocsOf(Append(sent, x)) = 0..Before \cup CodedOf(Before, enc.id + 1, enc.rcvd)
      BY <1>4, <2>2, <3>2
    <3>4. place = Len(app.ring) - (enc.rcvd - cfg.gop[enc.id + 1].poc)
          /\ n.poc = Before + cfg.gop[enc.id + 1].poc
      BY <1>2, <1>5, <2>5
    <3>5. ring \in Seq(Int) /\ Len(ring) = GOPSize + 1 /\ RingHolds(ring, Before, enc.id + 1, enc.rcvd)
      <4> DEFINE g == cfg.gop[enc.id + 1].poc
                 after == [app.ring EXCEPT ![Len(app.ring) - (enc.rcvd - g)] = Before + g]
      <4>1. ring = after
        <5> HIDE DEF place, g
        <5> QED BY <3>4 DEF g
      <4>2. g <= enc.rcvd
        BY <1>5, <2>5
      <4>3. after \in Seq(Int) /\ Len(after) = GOPSize + 1 /\ RingHolds(after, Before, enc.id + 1, enc.rcvd)
        BY <1>4, <1>5, <4>2, RingPut
      <4> HIDE DEF ring, after
      <4> QED BY <4>1, <4>3
    <3> HIDE DEF place
    <3> HIDE DEF ring
    <3> QED BY <1>1, <1>3, <1>6, <2>2, <2>3, <2>5, <3>3, <3>5, ProceedInvariant
  <2> QED BY <2>4, <2>5
<1>7. CASE app' = [app EXCEPT !.phase = "failed"] /\ UNCHANGED <<enc, sent>>
  <2>1. /\ DOMAIN app' = DOMAIN app /\ app'.phase = "failed" /\ app'.rcvd = app.rcvd /\ app'.eos = app.eos
        /\ app'.ring = app.ring /\ app'.recon = app.recon
    BY <1>7 DEF EncoderInv, Reading, AppFields
  <2>2. Configuration' /\ GOPSize' = GOPSize
    BY <1>1 DEF EncoderInv, Configuration, GOPSize
  <2>3. Reading' /\ Written'
    BY <1>1, <1>7, <2>1, <2>2 DEF EncoderInv, Reading, Written
  <2> QED BY <2>1, <2>2, <2>3 DEF EncoderInv, Preparing, Encoding, Finished
<1> QED BY <1>1, <1>6, <1>7

\* It holds of every configuration when the encoder starts.
LEMMA EncoderStart ==
  ASSUME CodecInit
  PROVE  EncoderInv
<1> PICK c \in Configurations : cfg = Configured(c)
  BY DEF CodecInit, EncodeInit
<1>1. /\ cfg.gop = c.gop /\ cfg.frames = c.frames /\ cfg.file = c.file
  BY DEF Configured
<1>2. /\ Permutes(c.gop) /\ c.frames \in Nat \ {0} /\ c.file \in Nat
  BY ConfigurationAssumption
<1>3. Configuration
  <2>1. Permutes(cfg.gop)
    BY <1>1, <1>2
  <2>2. GOPSize \in Nat \ {0}
    BY <2>1 DEF GOPSize, Permutes
  <2> QED BY <1>1, <1>2, <2>1, <2>2 DEF Configuration
<1>4. GOPSize \in Nat \ {0}
  BY <1>3 DEF Configuration
<1>5. /\ DOMAIN app = AppFields /\ app.phase = "prep" /\ app.rcvd = 0 /\ app.frames = cfg.frames
      /\ app.eos = FALSE /\ app.ring = [k \in 1..(GOPSize + 1) |-> -1] /\ app.recon = <<>>
  BY DEF CodecInit, EncodeInit, AppFields
<1>6. DOMAIN enc = EncFields /\ enc.last = -1 /\ enc.rcvd = 0 /\ enc.id = 0
  BY DEF CodecInit, EncodeInit, EncFields
<1>7. sent = <<>>
  BY DEF CodecInit, EncodeInit
<1>8. app.ring \in Seq(Int) /\ Len(app.ring) = GOPSize + 1
  BY <1>4, <1>5
<1>9. Before = -1
  BY <1>6 DEF Before
<1>10. Reading
  <2>1. cfg.frames \in Nat /\ cfg.file \in Nat
    BY <1>3 DEF Configuration
  <2>2. 0 <= cfg.frames /\ 0 <= cfg.file /\ 0 \in 0..GOPSize /\ -1 = 0 - 1
    BY <1>4, <2>1
  <2>3. FALSE \in BOOLEAN /\ 0 \in Nat
    OBVIOUS
  <2> QED BY <1>5, <1>6, <1>8, <2>2, <2>3 DEF Reading
<1>11. Written
  <2>1. app.recon \in Seq(Int) /\ Ascending(app.recon)
    BY <1>5 DEF Ascending
  <2>2. sent \in Seq({}) /\ Once(sent)
    BY <1>7 DEF Once
  <2> QED BY <2>1, <2>2 DEF Written, IsSequence
<1>12. Preparing
  <2>1. PocsOf(sent) = 0..Before
    BY <1>7, <1>9 DEF PocsOf
  <2>2. Len(app.recon) = Before + 1
    BY <1>5, <1>9
  <2> QED BY <1>3, <1>4, <1>5, <1>6, <2>1, <2>2 DEF Preparing, Configuration
<1> QED BY <1>3, <1>5, <1>10, <1>11, <1>12 DEF EncoderInv, Encoding, Finished

\* Nothing else touches the encoder.
LEMMA EncoderStutters ==
  ASSUME EncoderInv, UNCHANGED encodeVars
  PROVE  EncoderInv'
<1>1. cfg' = cfg /\ app' = app /\ enc' = enc /\ sent' = sent
  BY DEF encodeVars
<1>2. /\ GOPSize' = GOPSize /\ Before' = Before /\ PocsOf(sent)' = PocsOf(sent)
      /\ CodedOf(Before, enc.id, enc.rcvd)' = CodedOf(Before, enc.id, enc.rcvd)
      /\ RingHolds(app.ring, Before, enc.id, enc.rcvd)' <=> RingHolds(app.ring, Before, enc.id, enc.rcvd)
  <2>1. GOPSize' = GOPSize /\ Before' = Before /\ PocsOf(sent)' = PocsOf(sent)
    BY <1>1 DEF GOPSize, Before, PocsOf
  <2> QED BY <1>1, <2>1 DEF CodedOf, RingHolds
<1>3. Configuration' /\ Reading' /\ Written'
  BY <1>1, <1>2 DEF EncoderInv, Configuration, Reading, Written
<1>4. Preparing' /\ Finished'
  BY <1>1, <1>2 DEF EncoderInv, Preparing, Finished
<1>5. Encoding'
  BY <1>1, <1>2 DEF EncoderInv, Encoding, Queued
<1> QED BY <1>3, <1>4, <1>5 DEF EncoderInv

\* What the invariant says of the frames.
LEMMA EncoderInvariantGivesFrames ==
  ASSUME EncoderInv
  PROVE  FramesCodedOnce
<1>1. (\A j, k \in 1..Len(sent) : sent[j].poc = sent[k].poc => j = k)
      /\ \A i \in 1..Len(app.recon) : app.recon[i] = i - 1
  BY DEF EncoderInv, Written, Once, Ascending
<1>2. ASSUME Encoded
      PROVE  {sent[k].poc : k \in 1..Len(sent)} = 0..(Frames - 1) /\ Len(app.recon) = Frames
  <2>1. /\ PocsOf(sent) = 0..enc.last /\ Len(app.recon) = app.rcvd
        /\ app.rcvd \in {cfg.file, cfg.frames}
    BY <1>2 DEF Encoded, EncoderInv, Finished
  <2>2. /\ app.rcvd \in Nat /\ app.rcvd <= cfg.frames /\ app.rcvd <= cfg.file
        /\ enc.last = app.rcvd - 1
    BY DEF EncoderInv, Reading
  <2>3. cfg.frames \in Nat /\ cfg.file \in Nat
    BY DEF EncoderInv, Configuration
  <2>4. Frames = app.rcvd
    <3> DEFINE S == {cfg.frames, cfg.file}
               m == CHOOSE x \in S : \A y \in S : x <= y
    <3>1. app.rcvd \in S /\ \A y \in S : app.rcvd <= y
      BY <2>1, <2>2
    <3>2. m \in S /\ \A y \in S : m <= y
      BY <3>1
    <3>3. m = app.rcvd
      BY <2>2, <2>3, <3>1, <3>2
    <3>4. Frames = m
      BY DEF Frames, Min
    <3> QED BY <3>3, <3>4
  <2> QED BY <2>1, <2>2, <2>4 DEF PocsOf
<1> QED BY <1>1, <1>2 DEF FramesCodedOnce

\* The inductive invariant of the encoder.
LEMMA EncoderInvariant == CodecSpec => []EncoderInv
<1>1. CodecInit => EncoderInv
  BY EncoderStart
<1>2. EncoderInv /\ [CodecNext]_codecVars => EncoderInv'
  <2> SUFFICES ASSUME EncoderInv, [CodecNext]_codecVars PROVE EncoderInv'
    OBVIOUS
  <2>1. CASE Encode
    BY <2>1, EncodePrepInvariant, EncodeBeyondEndInvariant, EncodePictureInvariant DEF Encode, EncodeNext
  <2>2. CASE StartDecoder
    BY <2>2, EncoderStutters DEF StartDecoder
  <2>3. CASE Decoding
    BY <2>3, EncoderStutters DEF Decoding
  <2>4. CASE Stopped \/ UNCHANGED codecVars
    BY <2>4, EncoderStutters DEF Stopped, codecVars
  <2> QED BY <2>1, <2>2, <2>3, <2>4 DEF CodecNext
<1> QED BY <1>1, <1>2, PTL DEF CodecSpec

\* FramesCodedOnce: whatever the GOP, the intra period and the length of the file, the
\* encoder codes every frame once, and its reconstruction is in output order.
THEOREM FramesCodedOnceHolds == CodecSpec => []FramesCodedOnce
<1>1. EncoderInv => FramesCodedOnce
  BY EncoderInvariantGivesFrames
<1> QED BY <1>1, EncoderInvariant, PTL

(* --------------------------- the loop of the decoder --------------------------- *)

LoopFields ==
  {"firstInPicture", "firstInSequence", "firstInBitstream", "skipped", "eosInPu", "loopFiltered",
   "newClvs", "noPrior", "noPriorPoc", "lastNobr", "listed", "pocRandomAccess", "prevPoc",
   "prevTid0", "poc", "outFlag", "crashed", "pcPic", "nut", "slices", "ended"}

\* The flags that the loop steers by.
Typed(e) ==
  /\ DOMAIN e = LoopFields
  /\ e.firstInPicture \in BOOLEAN /\ e.firstInSequence \in BOOLEAN /\ e.skipped \in BOOLEAN
  /\ e.eosInPu \in BOOLEAN /\ e.listed \in BOOLEAN

SliceAt(k)  == stream[k].type = "SLICE"
WantedAt(k) == Wanted(stream[k])
EndsAt(k)   == stream[k].type \in {"EOS", "EOB"}

\* While a picture is decoded, the unit that was read last is of its layer.
Steady ==
  ~d.firstInPicture /\ ~d.firstInSequence => ~d.skipped /\ next > 1 /\ WantedAt(next - 1)

\* A unit was left out behind the last slice that was not.
Skipping ==
  d.skipped => \E j \in 1..(next - 1) :
                 ~WantedAt(j) /\ \A i \in (j + 1)..(next - 1) : ~(SliceAt(i) /\ WantedAt(i))

\* Behind an EOS comes another end or the next picture.
Ending == d.eosInPu => ~d.firstInPicture /\ (EndsAt(next) \/ AtNewPicture(next))

\* Behind the first slice a picture was begun.
Begun ==
  IF \E j \in 1..(next - 1) : SliceAt(j) THEN ~d.firstInSequence \/ d.listed
  ELSE d.firstInPicture /\ d.pocRandomAccess = Infinity

LoopInv ==
  /\ Sequential(stream, limits.target)
  /\ next \in Nat \ {0}
  /\ next <= Len(stream) => /\ Typed(d) /\ Steady /\ Skipping /\ Ending /\ Begun
                            /\ ~d.firstInPicture => fresh

(* ---------------------------------- lemmas ---------------------------------- *)

\* The flags of f are those of e.
Same(e, f) ==
  /\ Typed(f)
  /\ f.firstInPicture = e.firstInPicture /\ f.firstInSequence = e.firstInSequence
  /\ f.skipped = e.skipped /\ f.eosInPu = e.eosInPu /\ f.listed = e.listed
  /\ f.pocRandomAccess = e.pocRandomAccess
  /\ f.pcPic = e.pcPic /\ f.slices = e.slices /\ f.ended = e.ended

IsState(x) == DOMAIN x = {"e", "b"} /\ Typed(x.e)

\* The unit that is read is decoded, and the end of the sequence or of the file may follow.
Received ==
  LET n == stream[next]
      before == Skip(NewSequence(State, n), n)
      header == IF Wanted(n) /\ n.type = "SLICE" THEN SliceHeader(before, n) ELSE before
  IN IF Wanted(n) THEN Decode(header, n) ELSE header

Closed ==
  IF Eos THEN EndPicture(MarkEos(Received), TRUE, Eof)
  ELSE IF Eof THEN EndPicture(Received, FALSE, TRUE) ELSE Received

\* The slice header does not touch them.
LEMMA HeaderKeeps ==
  ASSUME NEW x, IsState(x), NEW n
  PROVE  IsState(SliceHeader(x, n)) /\ Same(x.e, SliceHeader(x, n).e)
<1>1. ASSUME NEW e, Typed(e)
      PROVE  /\ Same(e, Poc(e, n)) /\ Same(e, UpdateTid0(e, n)) /\ Same(e, Header(e, n))
             /\ Same(e, Recovery(e, n))
  <2>1. Same(e, Poc(e, n))
    BY <1>1 DEF Poc, Same, Typed, LoopFields
  <2>2. Same(e, UpdateTid0(e, n))
    BY <1>1 DEF UpdateTid0, Same, Typed, LoopFields
  <2>3. Same(e, Header(e, n))
    BY <1>1 DEF Header, Same, Typed, LoopFields
  <2>4. Same(e, Recovery(e, n))
    BY <1>1 DEF Recovery, Same, Typed, LoopFields
  <2> QED BY <2>1, <2>2, <2>3, <2>4
<1>2. ASSUME NEW e, Typed(e)
      PROVE  Same(e, ResetMsb(e, n))
  <2>1. Same(e, [e EXCEPT !.poc = @ % 2 ^ limits.bits])
    BY <1>2 DEF Same, Typed, LoopFields
  <2> DEFINE f == [e EXCEPT !.poc = @ % 2 ^ limits.bits]
  <2>2. Same(f, UpdateTid0(f, n))
    BY <1>1, <2>1 DEF Same
  <2>3. Same(e, e)
    BY <1>2 DEF Same
  <2> HIDE DEF f
  <2>4. Same(e, UpdateTid0(f, n))
    BY <2>1, <2>2 DEF Same, f
  <2> QED BY <2>3, <2>4 DEF ResetMsb, f
<1> DEFINE w == [x EXCEPT !.e = Poc(@, n)]
           y == Checked(w, n)
           a == UpdateTid0(y.e, n)
           b == Recovery(a, n)
           c == Header(b, n)
           z == ResetMsb(c, n)
<1>3. IsState(w) /\ Same(x.e, w.e)
  BY <1>1 DEF IsState, Same
<1> HIDE DEF w
<1>4. IsState(y) /\ Same(w.e, y.e)
  <2>1. CASE (w.e.firstInPicture \/ n.nut = "CRA") /\ w.e.noPrior
    <3>1. y = [e |-> [w.e EXCEPT !.noPrior = FALSE], b |-> DropPrior(w.b, w.e.noPriorPoc)]
      BY <2>1 DEF Checked
    <3>2. Same(w.e, [w.e EXCEPT !.noPrior = FALSE])
      BY <1>3 DEF Same, Typed, LoopFields, IsState
    <3> HIDE DEF y
    <3>3. DOMAIN y = {"e", "b"} /\ y.e = [w.e EXCEPT !.noPrior = FALSE]
      BY <3>1
    <3>4. Same(w.e, y.e)
      BY <3>2, <3>3
    <3> QED BY <3>3, <3>4 DEF IsState, Same
  <2>2. CASE ~ ((w.e.firstInPicture \/ n.nut = "CRA") /\ w.e.noPrior)
    <3>1. y = w
      BY <2>2 DEF Checked
    <3> QED BY <1>3, <3>1 DEF IsState, Same
  <2> QED BY <2>1, <2>2
<1> HIDE DEF y
<1>5. Same(y.e, a)
  BY <1>1, <1>4 DEF IsState
<1>6. Same(a, b)
  BY <1>1, <1>5 DEF Same
<1>7. Same(b, c)
  BY <1>1, <1>6 DEF Same
<1>8. Same(c, z)
  BY <1>2, <1>7 DEF Same
<1>9. SliceHeader(x, n) = [y EXCEPT !.e = z]
  BY DEF SliceHeader, y, w
<1> HIDE DEF a, b, c, z
<1>10. Same(x.e, z)
  BY <1>3, <1>4, <1>5, <1>6, <1>7, <1>8 DEF Same
<1> QED BY <1>4, <1>9, <1>10 DEF IsState, Same

\* A slice of a picture that is begun is decoded or left out; the first one of an IRAP
\* picture is decoded.
LEMMA DecodeSliceFlags ==
  ASSUME NEW x, IsState(x), NEW n
  PROVE  LET y == DecodeSlice(x, n)
         IN /\ IsState(y)
            /\ y.e.skipped = x.e.skipped /\ y.e.eosInPu = x.e.eosInPu /\ y.e.listed = x.e.listed
            /\ \/ y.e.firstInPicture = x.e.firstInPicture /\ y.e.firstInSequence = x.e.firstInSequence
               \/ y.e.firstInPicture = FALSE /\ y.e.firstInSequence = FALSE
            /\ x.e.firstInPicture /\ IRAP(n) /\ x.e.pocRandomAccess = Infinity =>
                 y.e.firstInPicture = FALSE /\ y.e.firstInSequence = FALSE
<1> DEFINE r == RandomAccess(x.e, n)
           e == [r EXCEPT !.prevPoc = x.e.poc]
           f == [e EXCEPT !.firstInSequence = FALSE,
                          !.firstInBitstream = FALSE, !.firstInPicture = FALSE,
                          !.pcPic = IF e.firstInPicture THEN n.pic ELSE @,
                          !.nut = IF e.firstInPicture THEN n.nut ELSE @,
                          !.slices = IF e.firstInPicture THEN <<n.pic>> ELSE Append(@, n.pic)]
           g == [e |-> f, b |-> IF e.firstInPicture THEN NewPicBuffer(x.b, e, n) ELSE x.b]
           y == DecodeSlice(x, n)
<1>1. /\ Typed(r) /\ r.firstInPicture = x.e.firstInPicture /\ r.firstInSequence = x.e.firstInSequence
      /\ r.skipped = x.e.skipped /\ r.eosInPu = x.e.eosInPu /\ r.listed = x.e.listed
  BY DEF RandomAccess, IsState, Typed, LoopFields
<1>2. y = IF SkipPicture(x.e, n) THEN [e |-> r, b |-> SkipOutput(x.b, x.e)]
          ELSE IF GivenUp(r, n) THEN [e |-> e, b |-> x.b] ELSE ConstructRefPicList(g, n)
  BY DEF DecodeSlice
<1> HIDE DEF r, y
<1>3. /\ Typed(e) /\ e.firstInPicture = x.e.firstInPicture /\ e.firstInSequence = x.e.firstInSequence
      /\ e.skipped = x.e.skipped /\ e.eosInPu = x.e.eosInPu /\ e.listed = x.e.listed
  BY <1>1 DEF Typed, LoopFields
<1>4. CASE SkipPicture(x.e, n)
  <2>1. y = [e |-> r, b |-> SkipOutput(x.b, x.e)]
    BY <1>2, <1>4
  <2>2. ~ (IRAP(n) /\ x.e.pocRandomAccess = Infinity)
    BY <1>4 DEF SkipPicture, IRAP
  <2> QED BY <1>1, <2>1, <2>2 DEF y, IsState
<1>5. CASE ~SkipPicture(x.e, n) /\ GivenUp(r, n)
  <2>1. y = [e |-> e, b |-> x.b]
    BY <1>2, <1>5
  <2>2. ~x.e.firstInPicture
    BY <1>1, <1>5 DEF GivenUp
  <2> HIDE DEF e
  <2> QED BY <1>3, <2>1, <2>2 DEF y, IsState
<1>6. CASE ~SkipPicture(x.e, n) /\ ~GivenUp(r, n)
  <2>1. y = ConstructRefPicList(g, n)
    BY <1>2, <1>6
  <2> HIDE DEF e
  <2>2. /\ DOMAIN f = LoopFields /\ f.firstInPicture = FALSE /\ f.firstInSequence = FALSE
        /\ f.skipped = e.skipped /\ f.eosInPu = e.eosInPu /\ f.listed = e.listed
    BY <1>3 DEF Typed, LoopFields
  <2> HIDE DEF f
  <2> DEFINE crash == g.e.crashed \/ \E t \in n.refs :
                        \A k \in 1..Len(g.b.list) : g.b.list[k].poc # g.e.poc - t.delta
  <2>3. y = [g EXCEPT !.e.crashed = crash]
    BY <2>1 DEF ConstructRefPicList
  <2> HIDE DEF crash
  <2>4. DOMAIN y = {"e", "b"} /\ y.e = [f EXCEPT !.crashed = crash]
    BY <2>3
  <2>5. /\ DOMAIN y.e = LoopFields /\ y.e.firstInPicture = FALSE /\ y.e.firstInSequence = FALSE
        /\ y.e.skipped = e.skipped /\ y.e.eosInPu = e.eosInPu /\ y.e.listed = e.listed
    BY <2>2, <2>4 DEF LoopFields
  <2> QED BY <1>3, <2>4, <2>5 DEF y, IsState, Typed
<1> QED BY <1>4, <1>5, <1>6

\* What decoding of a unit does to the flags.
LEMMA DecodeFlags ==
  ASSUME NEW x, IsState(x), NEW n
  PROVE  LET y == Decode(x, n)
         IN /\ IsState(y)
            /\ y.e.skipped = x.e.skipped /\ y.e.eosInPu = x.e.eosInPu /\ y.e.listed = x.e.listed
            /\ n.type # "SLICE" => /\ y.e.firstInPicture = x.e.firstInPicture
                                   /\ y.e.firstInSequence = x.e.firstInSequence
            /\ \/ y.e.firstInPicture = x.e.firstInPicture /\ y.e.firstInSequence = x.e.firstInSequence
               \/ y.e.firstInPicture = FALSE /\ y.e.firstInSequence = FALSE
            /\ n.type \notin {"SLICE", "EOS"} => y.e.pocRandomAccess = x.e.pocRandomAccess
            /\ n.type = "SLICE" /\ x.e.firstInPicture /\ IRAP(n) /\ x.e.pocRandomAccess = Infinity =>
                 y.e.firstInPicture = FALSE /\ y.e.firstInSequence = FALSE
<1>1. CASE n.type = "SLICE"
  <2>1. Decode(x, n) = DecodeSlice(x, n)
    BY <1>1 DEF Decode
  <2> DEFINE z == DecodeSlice(x, n)
  <2>2. /\ IsState(z)
        /\ z.e.skipped = x.e.skipped /\ z.e.eosInPu = x.e.eosInPu /\ z.e.listed = x.e.listed
        /\ \/ z.e.firstInPicture = x.e.firstInPicture /\ z.e.firstInSequence = x.e.firstInSequence
           \/ z.e.firstInPicture = FALSE /\ z.e.firstInSequence = FALSE
        /\ x.e.firstInPicture /\ IRAP(n) /\ x.e.pocRandomAccess = Infinity =>
             z.e.firstInPicture = FALSE /\ z.e.firstInSequence = FALSE
    BY DecodeSliceFlags
  <2> HIDE DEF z
  <2>3. Decode(x, n) = z
    BY <2>1 DEF z
  <2> QED BY <1>1, <2>2, <2>3
<1>2. CASE n.type = "PH"
  <2>1. Decode(x, n) = [x EXCEPT !.e.outFlag = TRUE]
    BY <1>2 DEF Decode
  <2>2. Decode(x, n).e = [x.e EXCEPT !.outFlag = TRUE] /\ DOMAIN Decode(x, n) = {"e", "b"}
    BY <2>1 DEF IsState
  <2> QED BY <1>2, <2>2 DEF IsState, Typed, LoopFields
<1>3. CASE n.type = "EOS"
  <2>1. Decode(x, n) = [x EXCEPT !.e.pocRandomAccess = Infinity, !.e.prevPoc = -Infinity]
    BY <1>3 DEF Decode
  <2>2. Decode(x, n).e = [x.e EXCEPT !.pocRandomAccess = Infinity, !.prevPoc = -Infinity]
        /\ DOMAIN Decode(x, n) = {"e", "b"}
    BY <2>1 DEF IsState
  <2> QED BY <1>3, <2>2 DEF IsState, Typed, LoopFields
<1>4. CASE n.type \notin {"SLICE", "PH", "EOS"}
  <2>1. Decode(x, n) = x
    BY <1>4 DEF Decode
  <2> QED BY <1>4, <2>1 DEF IsState
<1> QED BY <1>1, <1>2, <1>3, <1>4

\* The picture in m_pcPic, as it is listed when it is finished.
Ended(e) == [pic |-> e.pcPic, slices |-> e.slices]

\* What the end of a turn does: at the end of the file the flags do not matter any more.
LEMMA PictureEnds ==
  ASSUME NEW x, IsState(x), NEW eos \in BOOLEAN, NEW eof \in BOOLEAN
  PROVE  LET y == EndPicture(x, eos, eof)
         IN /\ IsState(y)
            /\ \/ y.e.ended = x.e.ended
               \/ ~x.e.firstInSequence /\ ~x.e.skipped /\ y.e.ended = Append(x.e.ended, Ended(x.e))
            /\ ~eof =>
                 /\ y.e.skipped = x.e.skipped /\ y.e.eosInPu = x.e.eosInPu
                 /\ y.e.pocRandomAccess = x.e.pocRandomAccess /\ y.e.prevTid0 = x.e.prevTid0
                 /\ y.e.pcPic = x.e.pcPic /\ y.e.slices = x.e.slices
                 /\ IF ~x.e.firstInSequence /\ ~x.e.skipped
                    THEN /\ y.e.firstInPicture = TRUE /\ y.e.listed = TRUE
                         /\ y.e.firstInSequence <=> eos
                         /\ y.e.ended = Append(x.e.ended, Ended(x.e))
                    ELSE /\ y.e.firstInPicture = (x.e.firstInPicture \/ x.e.firstInSequence)
                         /\ y.e.firstInSequence = x.e.firstInSequence /\ y.e.listed = x.e.listed
                         /\ y.e.ended = x.e.ended
<1> DEFINE y == EndPicture(x, eos, eof)
<1>1. CASE ~x.e.firstInSequence /\ ~x.e.skipped
  <2> DEFINE f == FinishPicture(x)
             z == IF x.e.loopFiltered /\ eof THEN x ELSE f
             more == Append(x.e.ended, Ended(x.e))
  <2>1. y = [z EXCEPT !.e.loopFiltered = eos, !.e.firstInSequence = eos]
    BY <1>1 DEF EndPicture
  <2>2. /\ DOMAIN f = {"e", "b"}
        /\ f.e = [x.e EXCEPT !.firstInPicture = TRUE, !.outFlag = TRUE, !.listed = TRUE,
                             !.ended = Append(@, Ended(x.e))]
    BY DEF FinishPicture, Ended
  <2> HIDE DEF f, y
  <2>3. /\ DOMAIN f.e = LoopFields /\ f.e.firstInPicture = TRUE /\ f.e.listed = TRUE
        /\ f.e.firstInSequence = FALSE /\ f.e.ended = more
        /\ f.e.skipped = x.e.skipped /\ f.e.eosInPu = x.e.eosInPu
        /\ f.e.pocRandomAccess = x.e.pocRandomAccess /\ f.e.prevTid0 = x.e.prevTid0
        /\ f.e.pcPic = x.e.pcPic /\ f.e.slices = x.e.slices
    BY <1>1, <2>2 DEF IsState, Typed, LoopFields
  <2>4. IsState(f)
    BY <2>2, <2>3 DEF IsState, Typed
  <2>5. IsState(z) /\ (z.e.ended = x.e.ended \/ z.e.ended = more) /\ (~eof => z = f)
    BY <2>3, <2>4
  <2> HIDE DEF z
  <2>6. DOMAIN y = {"e", "b"} /\ y.e = [z.e EXCEPT !.loopFiltered = eos, !.firstInSequence = eos]
    BY <2>1, <2>5 DEF IsState
  <2>7. /\ DOMAIN y.e = LoopFields /\ y.e.firstInPicture = z.e.firstInPicture /\ y.e.listed = z.e.listed
        /\ y.e.firstInSequence = eos /\ y.e.ended = z.e.ended
        /\ y.e.skipped = z.e.skipped /\ y.e.eosInPu = z.e.eosInPu
        /\ y.e.pocRandomAccess = z.e.pocRandomAccess /\ y.e.prevTid0 = z.e.prevTid0
        /\ y.e.pcPic = z.e.pcPic /\ y.e.slices = z.e.slices
    BY <2>5, <2>6 DEF IsState, Typed, LoopFields
  <2>8. IsState(y)
    BY <2>5, <2>6, <2>7 DEF IsState, Typed
  <2>9. ~eof => /\ y.e.skipped = x.e.skipped /\ y.e.eosInPu = x.e.eosInPu
                /\ y.e.pocRandomAccess = x.e.pocRandomAccess /\ y.e.prevTid0 = x.e.prevTid0
                /\ y.e.pcPic = x.e.pcPic /\ y.e.slices = x.e.slices
                /\ y.e.firstInPicture = TRUE /\ y.e.listed = TRUE /\ y.e.ended = more
    BY <2>3, <2>5, <2>7
  <2>10. y.e.ended = x.e.ended \/ y.e.ended = more
    BY <2>5, <2>7
  <2> HIDE DEF more
  <2> QED BY <1>1, <2>7, <2>8, <2>9, <2>10 DEF y, more
<1>2. CASE ~ (~x.e.firstInSequence /\ ~x.e.skipped)
  <2>1. y = [x EXCEPT !.e.firstInPicture = @ \/ x.e.firstInSequence]
    BY <1>2 DEF EndPicture
  <2> HIDE DEF y
  <2> DEFINE v == x.e.firstInPicture \/ x.e.firstInSequence
  <2>2. DOMAIN y = {"e", "b"} /\ y.e = [x.e EXCEPT !.firstInPicture = v]
    BY <2>1 DEF IsState
  <2>3. v \in BOOLEAN
    OBVIOUS
  <2> HIDE DEF v
  <2>4. /\ DOMAIN y.e = LoopFields /\ y.e.firstInPicture = v
        /\ y.e.firstInSequence = x.e.firstInSequence /\ y.e.listed = x.e.listed
        /\ y.e.skipped = x.e.skipped /\ y.e.eosInPu = x.e.eosInPu
        /\ y.e.pocRandomAccess = x.e.pocRandomAccess /\ y.e.prevTid0 = x.e.prevTid0
        /\ y.e.pcPic = x.e.pcPic /\ y.e.slices = x.e.slices /\ y.e.ended = x.e.ended
    BY <2>2 DEF IsState, Typed, LoopFields
  <2>5. IsState(y)
    BY <2>2, <2>3, <2>4 DEF IsState, Typed
  <2> QED BY <1>2, <2>4, <2>5 DEF y, v
<1> QED BY <1>1, <1>2

\* What the loop does with a unit before it is decoded.
LEMMA BeforeFlags ==
  ASSUME Typed(d), NEW n
  PROVE  LET x == Skip(NewSequence(State, n), n)
         IN /\ IsState(x)
            /\ x.e.firstInPicture = d.firstInPicture /\ x.e.firstInSequence = d.firstInSequence
            /\ x.e.eosInPu = d.eosInPu /\ x.e.listed = d.listed
            /\ x.e.pocRandomAccess = d.pocRandomAccess /\ x.e.prevTid0 = d.prevTid0
            /\ x.e.pcPic = d.pcPic /\ x.e.slices = d.slices /\ x.e.ended = d.ended
            /\ x.e.skipped = IF Wanted(n) THEN d.skipped /\ n.type # "SLICE" ELSE TRUE
<1> DEFINE w == NewSequence(State, n)
           x == Skip(w, n)
<1>1. IsState(State) /\ State.e = d /\ Same(d, d)
  BY DEF State, IsState, Same
<1>2. IsState(w) /\ Same(d, w.e) /\ w.e.prevTid0 = d.prevTid0
  <2> DEFINE f1 == [d EXCEPT !.newClvs = TRUE]
             f2 == [d EXCEPT !.newClvs = d.eosInPu]
  <2>1. Same(d, f1) /\ Same(d, f2) /\ f1.prevTid0 = d.prevTid0 /\ f2.prevTid0 = d.prevTid0
    BY DEF Same, Typed, LoopFields
  <2>2. CASE n.type = "SLICE" /\ d.firstInPicture /\ n.nut = "IDR"
    <3>1. DOMAIN w = {"e", "b"} /\ w.e = f1
      BY <2>2, <1>1 DEF NewSequence
    <3> QED BY <2>1, <3>1 DEF IsState, Same
  <2>3. CASE n.type = "SLICE" /\ d.firstInPicture /\ n.nut = "CRA"
    <3>1. w = [State EXCEPT !.e.newClvs = State.e.eosInPu]
      BY <2>3, <1>1 DEF NewSequence
    <3>2. DOMAIN w = {"e", "b"} /\ w.e = f2
      BY <3>1, <1>1 DEF IsState
    <3> QED BY <2>1, <3>2 DEF IsState, Same
  <2>4. CASE ~ (n.type = "SLICE" /\ d.firstInPicture /\ n.nut \in {"IDR", "CRA"})
    <3>1. w = State
      BY <2>4, <1>1 DEF NewSequence
    <3> QED BY <1>1, <3>1
  <2> QED BY <2>2, <2>3, <2>4
<1> HIDE DEF w
<1> DEFINE s == IF Wanted(n) THEN w.e.skipped /\ n.type # "SLICE" ELSE TRUE
<1>3. DOMAIN x = {"e", "b"} /\ x.e = [w.e EXCEPT !.skipped = s]
  BY <1>2 DEF Skip, IsState
<1>4. s \in BOOLEAN /\ s = IF Wanted(n) THEN d.skipped /\ n.type # "SLICE" ELSE TRUE
  BY <1>2 DEF Same, Typed
<1> HIDE DEF s, x
<1>5. /\ DOMAIN x.e = LoopFields /\ x.e.skipped = s
      /\ x.e.firstInPicture = d.firstInPicture /\ x.e.firstInSequence = d.firstInSequence
      /\ x.e.eosInPu = d.eosInPu /\ x.e.listed = d.listed
      /\ x.e.pocRandomAccess = d.pocRandomAccess /\ x.e.prevTid0 = d.prevTid0
      /\ x.e.pcPic = d.pcPic /\ x.e.slices = d.slices /\ x.e.ended = d.ended
  BY <1>2, <1>3 DEF Same, Typed, LoopFields
<1>6. IsState(x)
  BY <1>3, <1>4, <1>5 DEF IsState, Typed
<1> QED BY <1>4, <1>5, <1>6 DEF x, w

\* What reading a unit does.
LEMMA ReadSteps ==
  ASSUME TurnRead, DOMAIN Closed = {"e", "b"}
  PROVE  d' = IF Eos /\ Closed.e.listed THEN [Closed.e EXCEPT !.firstInPicture = FALSE] ELSE Closed.e
<1> DEFINE n == stream[next]
           before == Skip(NewSequence(State, n), n)
           x == IF Eos \/ n.type = "SLICE" THEN Output(Closed) ELSE Closed
           left == IF Eos /\ x.e.listed THEN [x EXCEPT !.e.firstInPicture = FALSE] ELSE x
<1>1. Becomes(left)
  <2>1. PICK m \in {n} : \E b0 \in {Skip(NewSequence(State, m), m)} :
          \E h \in {IF Wanted(m) /\ m.type = "SLICE" THEN SliceHeader(b0, m) ELSE b0} :
          \E r \in {IF Wanted(m) THEN Decode(h, m) ELSE h} :
          \E z \in {IF Eos THEN EndPicture(MarkEos(r), TRUE, Eof)
                   ELSE IF Eof THEN EndPicture(r, FALSE, TRUE) ELSE r} :
          \E w \in {IF Eos \/ m.type = "SLICE" THEN Output(z) ELSE z} :
            Becomes(IF Eos /\ w.e.listed THEN [w EXCEPT !.e.firstInPicture = FALSE] ELSE w)
    BY DEF TurnRead
  <2>2. PICK b0 \in {before} :
          \E h \in {IF Wanted(n) /\ n.type = "SLICE" THEN SliceHeader(b0, n) ELSE b0} :
          \E r \in {IF Wanted(n) THEN Decode(h, n) ELSE h} :
          \E z \in {IF Eos THEN EndPicture(MarkEos(r), TRUE, Eof)
                   ELSE IF Eof THEN EndPicture(r, FALSE, TRUE) ELSE r} :
          \E w \in {IF Eos \/ n.type = "SLICE" THEN Output(z) ELSE z} :
            Becomes(IF Eos /\ w.e.listed THEN [w EXCEPT !.e.firstInPicture = FALSE] ELSE w)
    <3>1. m = n
      BY <2>1
    <3> HIDE DEF n
    <3> QED BY <2>1, <3>1
  <2> DEFINE got == IF Wanted(n) THEN Decode(IF Wanted(n) /\ n.type = "SLICE" THEN SliceHeader(before, n)
                                            ELSE before, n)
                    ELSE IF Wanted(n) /\ n.type = "SLICE" THEN SliceHeader(before, n) ELSE before
  <2>3. got = Received
    BY DEF Received
  <2> HIDE DEF n, before
  <2>4. PICK r \in {got} :
          \E z \in {IF Eos THEN EndPicture(MarkEos(r), TRUE, Eof)
                   ELSE IF Eof THEN EndPicture(r, FALSE, TRUE) ELSE r} :
          \E w \in {IF Eos \/ n.type = "SLICE" THEN Output(z) ELSE z} :
            Becomes(IF Eos /\ w.e.listed THEN [w EXCEPT !.e.firstInPicture = FALSE] ELSE w)
    BY <2>2
  <2> HIDE DEF got
  <2>5. r = Received
    BY <2>3, <2>4
  <2>6. PICK z \in {Closed} :
          \E w \in {IF Eos \/ n.type = "SLICE" THEN Output(z) ELSE z} :
            Becomes(IF Eos /\ w.e.listed THEN [w EXCEPT !.e.firstInPicture = FALSE] ELSE w)
    BY <2>4, <2>5 DEF Closed
  <2> QED BY <2>6
<1>2. DOMAIN x = {"e", "b"} /\ x.e = Closed.e
  <2> DEFINE b1 == IF Closed.e.listed THEN WriteOutput(Closed.b) ELSE Closed.b
             o == [Closed EXCEPT !.b = b1]
  <2>1. x = o \/ x = Closed
    BY DEF Output
  <2> HIDE DEF x, b1
  <2>2. o.e = Closed.e /\ DOMAIN o = {"e", "b"}
    OBVIOUS
  <2> QED BY <2>1, <2>2
<1> HIDE DEF x
<1> QED BY <1>1, <1>2 DEF Becomes

\* What the loop and the decoding do with the unit, up to the end of a picture.
LEMMA ReceivedFlags ==
  ASSUME Typed(d)
  PROVE  LET n == stream[next]
             r == Received
         IN /\ IsState(r)
            /\ r.e.skipped = IF Wanted(n) THEN d.skipped /\ n.type # "SLICE" ELSE TRUE
            /\ r.e.eosInPu = d.eosInPu /\ r.e.listed = d.listed
            /\ n.type # "SLICE" \/ ~Wanted(n) =>
                 /\ r.e.firstInPicture = d.firstInPicture /\ r.e.firstInSequence = d.firstInSequence
                 /\ n.type # "EOS" => r.e.pocRandomAccess = d.pocRandomAccess
            /\ \/ r.e.firstInPicture = d.firstInPicture /\ r.e.firstInSequence = d.firstInSequence
               \/ r.e.firstInPicture = FALSE /\ r.e.firstInSequence = FALSE
            /\ n.type = "SLICE" /\ Wanted(n) /\ d.firstInPicture /\ IRAP(n) /\ d.pocRandomAccess = Infinity
                 => r.e.firstInPicture = FALSE /\ r.e.firstInSequence = FALSE
<1> DEFINE n == stream[next]
           before == Skip(NewSequence(State, n), n)
           header == IF Wanted(n) /\ n.type = "SLICE" THEN SliceHeader(before, n) ELSE before
           received == IF Wanted(n) THEN Decode(header, n) ELSE header
<1>1. Received = received
  BY DEF Received
<1> DEFINE skip == IF Wanted(n) THEN d.skipped /\ n.type # "SLICE" ELSE TRUE
<1>2. /\ IsState(before)
      /\ before.e.firstInPicture = d.firstInPicture /\ before.e.firstInSequence = d.firstInSequence
      /\ before.e.eosInPu = d.eosInPu /\ before.e.listed = d.listed
      /\ before.e.pocRandomAccess = d.pocRandomAccess /\ before.e.skipped = skip
  BY BeforeFlags
<1> HIDE DEF before, skip, n
<1>3. /\ IsState(header)
      /\ header.e.firstInPicture = d.firstInPicture /\ header.e.firstInSequence = d.firstInSequence
      /\ header.e.eosInPu = d.eosInPu /\ header.e.listed = d.listed
      /\ header.e.pocRandomAccess = d.pocRandomAccess /\ header.e.skipped = skip
  <2>1. CASE Wanted(n) /\ n.type = "SLICE"
    <3> DEFINE h == SliceHeader(before, n)
    <3>1. IsState(h) /\ Same(before.e, h.e)
      BY <1>2, HeaderKeeps
    <3> HIDE DEF h
    <3>2. header = h
      BY <2>1 DEF h
    <3> QED BY <1>2, <3>1, <3>2 DEF Same
  <2>2. CASE ~ (Wanted(n) /\ n.type = "SLICE")
    <3>1. header = before
      BY <2>2
    <3> QED BY <1>2, <3>1
  <2> QED BY <2>1, <2>2
<1> HIDE DEF header
<1>4. /\ IsState(received)
      /\ received.e.skipped = skip /\ received.e.eosInPu = d.eosInPu /\ received.e.listed = d.listed
      /\ n.type # "SLICE" \/ ~Wanted(n) =>
           /\ received.e.firstInPicture = d.firstInPicture
           /\ received.e.firstInSequence = d.firstInSequence
           /\ n.type # "EOS" => received.e.pocRandomAccess = d.pocRandomAccess
      /\ \/ received.e.firstInPicture = d.firstInPicture /\ received.e.firstInSequence = d.firstInSequence
         \/ received.e.firstInPicture = FALSE /\ received.e.firstInSequence = FALSE
      /\ n.type = "SLICE" /\ Wanted(n) /\ d.firstInPicture /\ IRAP(n) /\ d.pocRandomAccess = Infinity
           => received.e.firstInPicture = FALSE /\ received.e.firstInSequence = FALSE
  <2>1. CASE Wanted(n)
    <3> DEFINE y == Decode(header, n)
    <3>1. /\ IsState(y)
          /\ y.e.skipped = header.e.skipped /\ y.e.eosInPu = header.e.eosInPu /\ y.e.listed = header.e.listed
          /\ n.type # "SLICE" => /\ y.e.firstInPicture = header.e.firstInPicture
                                 /\ y.e.firstInSequence = header.e.firstInSequence
          /\ \/ /\ y.e.firstInPicture = header.e.firstInPicture
                /\ y.e.firstInSequence = header.e.firstInSequence
             \/ y.e.firstInPicture = FALSE /\ y.e.firstInSequence = FALSE
          /\ n.type \notin {"SLICE", "EOS"} => y.e.pocRandomAccess = header.e.pocRandomAccess
          /\ n.type = "SLICE" /\ header.e.firstInPicture /\ IRAP(n) /\ header.e.pocRandomAccess = Infinity
               => y.e.firstInPicture = FALSE /\ y.e.firstInSequence = FALSE
      BY <1>3, DecodeFlags
    <3> HIDE DEF y
    <3>2. received = y
      BY <2>1 DEF y
    <3> HIDE DEF received
    <3> QED BY <1>3, <2>1, <3>1, <3>2
  <2>2. CASE ~Wanted(n)
    <3>1. received = header
      BY <2>2
    <3> HIDE DEF received
    <3> QED BY <1>3, <2>2, <3>1
  <2> QED BY <2>1, <2>2
<1> HIDE DEF received
<1> QED BY <1>1, <1>4 DEF skip, n

\* What reading a unit that is not the last one does.
LEMMA ReadFlags ==
  ASSUME Typed(d), TurnRead, next \in Nat, Len(stream) \in Nat, next + 1 <= Len(stream)
  PROVE  LET n == stream[next]
         IN /\ Typed(d')
            /\ d'.skipped = IF Wanted(n) THEN d.skipped /\ n.type # "SLICE" ELSE TRUE
            /\ n.type # "EOS" =>
                 /\ d'.eosInPu = d.eosInPu /\ d'.listed = d.listed
                 /\ n.type # "SLICE" \/ ~Wanted(n) =>
                      /\ d'.firstInPicture = d.firstInPicture /\ d'.firstInSequence = d.firstInSequence
                      /\ d'.pocRandomAccess = d.pocRandomAccess
                 /\ \/ d'.firstInPicture = d.firstInPicture /\ d'.firstInSequence = d.firstInSequence
                    \/ d'.firstInPicture = FALSE /\ d'.firstInSequence = FALSE
                 /\ n.type = "SLICE" /\ Wanted(n) /\ d.firstInPicture /\ IRAP(n) /\ d.pocRandomAccess = Infinity
                      => d'.firstInPicture = FALSE /\ d'.firstInSequence = FALSE
            /\ n.type = "EOS" => d'.eosInPu = TRUE
            /\ n.type = "EOS" /\ Wanted(n) =>
                 /\ ~d.skipped /\ ~d.firstInSequence => d'.firstInSequence = TRUE /\ d'.listed = TRUE
                 /\ d.firstInSequence => d'.firstInSequence = TRUE /\ d'.listed = d.listed
                 /\ d'.listed => d'.firstInPicture = FALSE
<1> DEFINE n == stream[next]
           received == Received
           marked == MarkEos(received)
           skip == IF Wanted(n) THEN d.skipped /\ n.type # "SLICE" ELSE TRUE
<1>1. Eof = FALSE /\ (Eos <=> n.type = "EOS")
  BY DEF Eof, Eos
<1>2. DOMAIN Closed = {"e", "b"} =>
        d' = IF Eos /\ Closed.e.listed THEN [Closed.e EXCEPT !.firstInPicture = FALSE] ELSE Closed.e
  BY ReadSteps
<1>3. /\ IsState(received)
      /\ received.e.skipped = skip /\ received.e.eosInPu = d.eosInPu /\ received.e.listed = d.listed
      /\ n.type # "SLICE" \/ ~Wanted(n) =>
           /\ received.e.firstInPicture = d.firstInPicture
           /\ received.e.firstInSequence = d.firstInSequence
           /\ n.type # "EOS" => received.e.pocRandomAccess = d.pocRandomAccess
      /\ \/ received.e.firstInPicture = d.firstInPicture /\ received.e.firstInSequence = d.firstInSequence
         \/ received.e.firstInPicture = FALSE /\ received.e.firstInSequence = FALSE
      /\ n.type = "SLICE" /\ Wanted(n) /\ d.firstInPicture /\ IRAP(n) /\ d.pocRandomAccess = Infinity
           => received.e.firstInPicture = FALSE /\ received.e.firstInSequence = FALSE
  BY ReceivedFlags
<1> HIDE DEF received, skip, n
<1>4. CASE n.type # "EOS"
  <2>1. Closed = received
    BY <1>1, <1>4 DEF Closed, received
  <2>2. d' = received.e
    BY <1>1, <1>2, <1>3, <1>4, <2>1 DEF IsState
  <2>3. Typed(d')
    BY <1>3, <2>2 DEF IsState
  <2> QED BY <1>3, <1>4, <2>2, <2>3 DEF skip, n
<1>5. CASE n.type = "EOS"
  <2>1. Closed = EndPicture(marked, TRUE, FALSE)
    BY <1>1, <1>5 DEF Closed, received
  <2>2. DOMAIN marked = {"e", "b"} /\ marked.e = [received.e EXCEPT !.eosInPu = TRUE, !.newClvs = TRUE]
    BY <1>3 DEF MarkEos, IsState
  <2> HIDE DEF marked
  <2>3. /\ IsState(marked) /\ marked.e.skipped = skip /\ marked.e.eosInPu = TRUE
        /\ marked.e.listed = d.listed
        /\ marked.e.firstInPicture = d.firstInPicture /\ marked.e.firstInSequence = d.firstInSequence
    BY <1>3, <1>5, <2>2 DEF IsState, Typed, LoopFields
  <2> DEFINE y == EndPicture(marked, TRUE, FALSE)
  <2>4. /\ IsState(y) /\ y.e.skipped = marked.e.skipped /\ y.e.eosInPu = marked.e.eosInPu
        /\ IF ~marked.e.firstInSequence /\ ~marked.e.skipped
           THEN y.e.firstInPicture = TRUE /\ y.e.firstInSequence = TRUE /\ y.e.listed = TRUE
           ELSE /\ y.e.firstInSequence = marked.e.firstInSequence /\ y.e.listed = marked.e.listed
    <3>1. TRUE \in BOOLEAN /\ FALSE \in BOOLEAN
      OBVIOUS
    <3> QED BY <2>3, <3>1, PictureEnds
  <2>5. Closed = y
    BY <2>1
  <2> HIDE DEF y
  <2>6. d' = IF y.e.listed THEN [y.e EXCEPT !.firstInPicture = FALSE] ELSE y.e
    BY <1>1, <1>2, <1>5, <2>4, <2>5 DEF IsState
  <2>7. /\ Typed(d') /\ d'.skipped = skip /\ d'.eosInPu = TRUE
        /\ d'.firstInSequence = y.e.firstInSequence /\ d'.listed = y.e.listed
        /\ d'.listed => d'.firstInPicture = FALSE
    BY <2>3, <2>4, <2>6 DEF IsState, Typed, LoopFields
  <2>8. Wanted(n) => skip = d.skipped
    BY <1>5 DEF skip, Typed
  <2>9. Wanted(n) =>
          /\ ~d.skipped /\ ~d.firstInSequence => d'.firstInSequence = TRUE /\ d'.listed = TRUE
          /\ d.firstInSequence => d'.firstInSequence = TRUE /\ d'.listed = d.listed
    BY <2>3, <2>4, <2>7, <2>8 DEF Typed
  <2> QED BY <1>5, <2>7, <2>9 DEF skip, n
<1> QED BY <1>4, <1>5

\* A stream that is to be decoded is one of those that are assumed.
LEMMA LoopStart ==
  ASSUME DecoderInit
  PROVE  LoopInv
<1> PICK j \in Jobs : stream = j.units /\ limits = j.limits
  BY DEF DecoderInit
<1>1. Sequential(stream, limits.target)
  BY StreamAssumption
<1>2. next = 1
  BY DEF DecoderInit, DecoderStart
<1>3. /\ DOMAIN d = LoopFields /\ d.firstInPicture = TRUE /\ d.firstInSequence = TRUE
      /\ d.skipped = FALSE /\ d.eosInPu = FALSE /\ d.listed = FALSE /\ d.pocRandomAccess = Infinity
  BY DEF DecoderInit, DecoderStart, LoopFields
<1>4. Typed(d)
  BY <1>3 DEF Typed
<1>5. Steady /\ Skipping /\ Ending /\ Begun
  BY <1>2, <1>3 DEF Steady, Skipping, Ending, Begun
<1> QED BY <1>1, <1>2, <1>3, <1>4, <1>5 DEF LoopInv

\* A new picture is seen: the one before is ended, or was left out before it began.
LEMMA NewPictureFlags ==
  ASSUME LoopInv, TurnNewPicture
  PROVE  /\ Typed(d') /\ d'.eosInPu = FALSE /\ d'.skipped = d.skipped
         /\ d'.pocRandomAccess = d.pocRandomAccess
         /\ d'.firstInPicture = TRUE /\ d'.firstInSequence = d.firstInSequence
         /\ ~d'.firstInSequence \/ d'.listed = d.listed
         /\ d'.pcPic = d.pcPic /\ d'.slices = d.slices
         /\ d'.ended = d.ended \/ (~d.firstInSequence /\ d'.ended = Append(d.ended, Ended(d)))
<1> DEFINE x == EndPicture(State, FALSE, FALSE)
           y == [Output(x) EXCEPT !.e.eosInPu = FALSE]
<1>1. /\ next \in Nat \ {0} /\ next <= Len(stream) /\ ~d.firstInPicture
      /\ UNCHANGED <<stream, limits, next>>
      /\ Typed(d) /\ Steady /\ Skipping /\ Begun
  BY DEF LoopInv, TurnNewPicture, NewPicture
<1>2. IsState(State) /\ State.e = d
  BY <1>1 DEF State, IsState
<1>3. d' = y.e
  <2>1. PICK w \in {x} : Becomes([Output(w) EXCEPT !.e.eosInPu = FALSE])
    BY DEF TurnNewPicture
  <2> HIDE DEF x
  <2>2. Becomes(y)
    BY <2>1
  <2> QED BY <2>2 DEF Becomes
<1>4. /\ IsState(x) /\ x.e.skipped = d.skipped /\ x.e.pocRandomAccess = d.pocRandomAccess
      /\ IF ~d.firstInSequence /\ ~d.skipped
         THEN x.e.firstInPicture = TRUE /\ x.e.firstInSequence = FALSE /\ x.e.listed = TRUE
         ELSE /\ x.e.firstInPicture = (d.firstInPicture \/ d.firstInSequence)
              /\ x.e.firstInSequence = d.firstInSequence /\ x.e.listed = d.listed
      /\ x.e.pcPic = d.pcPic /\ x.e.slices = d.slices
      /\ x.e.ended = d.ended \/ (~d.firstInSequence /\ x.e.ended = Append(d.ended, Ended(d)))
  <2> DEFINE z == State
             w == EndPicture(z, FALSE, FALSE)
  <2>1. FALSE \in BOOLEAN /\ IsState(z) /\ z.e = d /\ x = w
    BY <1>2
  <2> HIDE DEF z
  <2>2. /\ IsState(w) /\ w.e.skipped = z.e.skipped /\ w.e.pocRandomAccess = z.e.pocRandomAccess
        /\ IF ~z.e.firstInSequence /\ ~z.e.skipped
           THEN w.e.firstInPicture = TRUE /\ w.e.firstInSequence = FALSE /\ w.e.listed = TRUE
           ELSE /\ w.e.firstInPicture = (z.e.firstInPicture \/ z.e.firstInSequence)
                /\ w.e.firstInSequence = z.e.firstInSequence /\ w.e.listed = z.e.listed
        /\ w.e.pcPic = z.e.pcPic /\ w.e.slices = z.e.slices
        /\ w.e.ended = z.e.ended \/ (~z.e.firstInSequence /\ w.e.ended = Append(z.e.ended, Ended(z.e)))
    <3>1. /\ IsState(w) /\ w.e.skipped = z.e.skipped /\ w.e.pocRandomAccess = z.e.pocRandomAccess
          /\ w.e.pcPic = z.e.pcPic /\ w.e.slices = z.e.slices
          /\ w.e.ended = z.e.ended \/ (~z.e.firstInSequence /\ w.e.ended = Append(z.e.ended, Ended(z.e)))
      BY <2>1, PictureEnds
    <3>2. ~z.e.firstInSequence /\ ~z.e.skipped =>
             w.e.firstInPicture = TRUE /\ w.e.listed = TRUE /\ ~w.e.firstInSequence
      BY <2>1, PictureEnds
    <3>3. ~ (~z.e.firstInSequence /\ ~z.e.skipped) =>
            /\ w.e.firstInPicture = (z.e.firstInPicture \/ z.e.firstInSequence)
            /\ w.e.firstInSequence = z.e.firstInSequence /\ w.e.listed = z.e.listed
      BY <2>1, PictureEnds
    <3> QED BY <3>1, <3>2, <3>3 DEF IsState, Typed
  <2> HIDE DEF w, x
  <2> QED BY <2>1, <2>2
<1> HIDE DEF x
<1>5. DOMAIN Output(x) = {"e", "b"} /\ Output(x).e = x.e
  BY <1>4 DEF Output, IsState
<1> DEFINE o == Output(x)
<1> HIDE DEF o
<1>6. d' = [x.e EXCEPT !.eosInPu = FALSE]
  BY <1>3, <1>5 DEF o
<1>7. /\ Typed(d') /\ d'.eosInPu = FALSE /\ d'.skipped = d.skipped /\ d'.pocRandomAccess = d.pocRandomAccess
      /\ d'.firstInPicture = x.e.firstInPicture /\ d'.firstInSequence = x.e.firstInSequence
      /\ d'.listed = x.e.listed
      /\ d'.pcPic = x.e.pcPic /\ d'.slices = x.e.slices /\ d'.ended = x.e.ended
  BY <1>4, <1>6 DEF IsState, Typed, LoopFields
<1>8. d'.firstInPicture = TRUE
  <2>1. ~d.firstInSequence => ~d.skipped
    BY <1>1 DEF Steady
  <2>2. CASE d.firstInSequence
    BY <1>1, <1>4, <1>7, <2>2 DEF Typed
  <2>3. CASE ~d.firstInSequence
    BY <1>4, <1>7, <2>1, <2>3
  <2> QED BY <2>2, <2>3
<1>9. d'.firstInSequence = d.firstInSequence /\ (~d'.firstInSequence \/ d'.listed = d.listed)
  BY <1>1, <1>4, <1>7 DEF Typed
<1> QED BY <1>4, <1>7, <1>8, <1>9

\* The invariant holds behind it.
LEMMA NewPictureInvariant ==
  ASSUME LoopInv, TurnNewPicture
  PROVE  LoopInv'
<1>1. /\ next \in Nat \ {0} /\ next <= Len(stream) /\ ~d.firstInPicture
      /\ UNCHANGED <<stream, limits, next>>
      /\ Typed(d) /\ Steady /\ Skipping /\ Begun
  BY DEF LoopInv, TurnNewPicture, NewPicture
<1>2. /\ Typed(d') /\ d'.eosInPu = FALSE /\ d'.skipped = d.skipped
      /\ d'.firstInPicture = TRUE /\ d'.firstInSequence = d.firstInSequence
      /\ ~d'.firstInSequence \/ d'.listed = d.listed
  BY NewPictureFlags
<1>3. Begun'
  <2>1. (\E j \in 1..(next - 1) : SliceAt(j))' <=> (\E j \in 1..(next - 1) : SliceAt(j))
    BY <1>1 DEF SliceAt
  <2>2. CASE \E j \in 1..(next - 1) : SliceAt(j)
    <3>1. ~d.firstInSequence \/ d.listed
      BY <1>1, <2>2 DEF Begun
    <3>2. ~d'.firstInSequence \/ d'.listed
      BY <1>2, <3>1
    <3> QED BY <2>1, <2>2, <3>2 DEF Begun
  <2>3. CASE ~ \E j \in 1..(next - 1) : SliceAt(j)
    BY <1>1, <2>3 DEF Begun
  <2> QED BY <2>2, <2>3
<1>4. Steady' /\ Ending'
  BY <1>2 DEF Steady, Ending
<1>5. Skipping'
  BY <1>1, <1>2 DEF Skipping, SliceAt, WantedAt, Wanted
<1>6. Sequential(stream, limits.target)' /\ next' \in Nat \ {0}
  BY <1>1 DEF LoopInv, Sequential
<1> QED BY <1>2, <1>3, <1>4, <1>5, <1>6 DEF LoopInv

\* The assumption, for one unit.
LEMMA SequentialAt ==
  ASSUME Sequential(stream, limits.target), NEW k \in 1..Len(stream)
  PROVE  /\ EndsAt(k) => WantedAt(k)
         /\ SliceAt(k) /\ (\A j \in 1..(k - 1) : ~SliceAt(j)) => WantedAt(k) /\ IRAP(stream[k])
         /\ stream[k].type = "EOS" => \E j \in 1..(k - 1) : SliceAt(j) /\ \A i \in j..(k - 1) : WantedAt(i)
         /\ k > 1 /\ WantedAt(k - 1) /\ ~WantedAt(k) => AtNewPicture(k)
         /\ k > 1 /\ EndsAt(k - 1) => EndsAt(k) \/ AtNewPicture(k)
BY DEF Sequential, EndsAt, SliceAt, WantedAt, Wanted, AtNewPicture

\* An EOS comes behind slices, of which none was left out since the last one.
LEMMA EosEndsPicture ==
  ASSUME LoopInv, next <= Len(stream), stream[next].type = "EOS"
  PROVE  WantedAt(next) /\ ~d.skipped /\ (d.firstInSequence => d.listed)
<1>1. next \in Nat \ {0} /\ Sequential(stream, limits.target) /\ Skipping /\ Begun
  BY DEF LoopInv
<1>2. next \in 1..Len(stream)
  BY <1>1 DEF Sequential
<1>3. WantedAt(next)
  BY <1>1, <1>2, SequentialAt DEF EndsAt
<1>4. PICK j \in 1..(next - 1) : SliceAt(j) /\ \A i \in j..(next - 1) : WantedAt(i)
  BY <1>1, <1>2, SequentialAt
<1>5. d.firstInSequence => d.listed
  BY <1>1, <1>4 DEF Begun
<1>6. ~d.skipped
  <2> SUFFICES ASSUME d.skipped PROVE FALSE
    OBVIOUS
  <2>1. PICK k \in 1..(next - 1) :
          ~WantedAt(k) /\ \A i \in (k + 1)..(next - 1) : ~(SliceAt(i) /\ WantedAt(i))
    BY <1>1 DEF Skipping
  <2>2. k < j
    BY <1>1, <1>4, <2>1
  <2>3. j \in (k + 1)..(next - 1) /\ j \in j..(next - 1)
    BY <1>1, <2>2
  <2> QED BY <1>4, <2>1, <2>3
<1> QED BY <1>3, <1>5, <1>6

\* A unit is read, and it is not the last one.
LEMMA ReadInvariant ==
  ASSUME LoopInv, TurnRead
  PROVE  LoopInv'
<1>1. /\ next \in Nat \ {0} /\ next <= Len(stream) /\ UNCHANGED <<stream, limits>>
      /\ next' = next + 1 /\ fresh' = TRUE
      /\ ~(~d.firstInPicture /\ AtNewPicture(next))
      /\ ~(d.eosInPu /\ stream[next].type \notin {"EOS", "EOB"})
      /\ Sequential(stream, limits.target)
      /\ Typed(d) /\ Steady /\ Skipping /\ Ending /\ Begun
  BY DEF LoopInv, TurnRead, NewPicture, Refused
<1>2. Sequential(stream, limits.target)' /\ next' \in Nat \ {0}
  BY <1>1 DEF Sequential
<1>3. Len(stream) \in Nat
  BY <1>1 DEF Sequential
<1> SUFFICES ASSUME next + 1 <= Len(stream)
             PROVE  Typed(d') /\ Steady' /\ Skipping' /\ Ending' /\ Begun'
  BY <1>1, <1>2, <1>3 DEF LoopInv
<1> DEFINE n == stream[next]
           wanted == WantedAt(next)
<1>4. /\ Typed(d')
      /\ d'.skipped = IF wanted THEN d.skipped /\ n.type # "SLICE" ELSE TRUE
      /\ n.type # "EOS" =>
           /\ d'.eosInPu = d.eosInPu /\ d'.listed = d.listed
           /\ n.type # "SLICE" \/ ~wanted =>
                /\ d'.firstInPicture = d.firstInPicture /\ d'.firstInSequence = d.firstInSequence
                /\ d'.pocRandomAccess = d.pocRandomAccess
           /\ \/ d'.firstInPicture = d.firstInPicture /\ d'.firstInSequence = d.firstInSequence
              \/ d'.firstInPicture = FALSE /\ d'.firstInSequence = FALSE
           /\ n.type = "SLICE" /\ wanted /\ d.firstInPicture /\ IRAP(n) /\ d.pocRandomAccess = Infinity
                => d'.firstInPicture = FALSE /\ d'.firstInSequence = FALSE
      /\ n.type = "EOS" /\ wanted =>
           /\ ~d.skipped /\ ~d.firstInSequence => d'.firstInSequence = TRUE /\ d'.listed = TRUE
           /\ d.firstInSequence => d'.firstInSequence = TRUE /\ d'.listed = d.listed
           /\ d'.listed => d'.firstInPicture = FALSE
  BY <1>1, <1>3, ReadFlags DEF WantedAt
<1> HIDE DEF wanted
<1>5. next \in 1..Len(stream) /\ next + 1 \in 1..Len(stream) /\ next' - 1 = next /\ next' = next + 1
      /\ next' > 1 /\ (next + 1) - 1 = next /\ next + 1 > 1
  BY <1>1, <1>3
<1>6. \A k : (SliceAt(k)' <=> SliceAt(k)) /\ (WantedAt(k)' <=> WantedAt(k)) /\ (EndsAt(k)' <=> EndsAt(k))
             /\ (AtNewPicture(k)' <=> AtNewPicture(k))
  BY <1>1 DEF SliceAt, WantedAt, Wanted, EndsAt, AtNewPicture, TellsNewPicture
<1>7. /\ EndsAt(next) => wanted
      /\ SliceAt(next) /\ (\A j \in 1..(next - 1) : ~SliceAt(j)) => wanted /\ IRAP(n)
      /\ n.type = "EOS" => \E j \in 1..(next - 1) : SliceAt(j) /\ \A i \in j..(next - 1) : WantedAt(i)
      /\ next > 1 /\ WantedAt(next - 1) /\ ~wanted => AtNewPicture(next)
  BY <1>1, <1>5, SequentialAt DEF wanted
<1>8. EndsAt(next) => EndsAt(next + 1) \/ AtNewPicture(next + 1)
  BY <1>1, <1>5, SequentialAt
<1>9. n.type = "EOS" => wanted /\ ~d.skipped /\ (d.firstInSequence => d.listed)
  BY <1>1, EosEndsPicture DEF wanted
<1>10. n.type = "EOS" => d'.firstInSequence /\ d'.listed /\ ~d'.firstInPicture
  BY <1>1, <1>4, <1>9 DEF Typed
<1>11. Steady'
  <2> SUFFICES ASSUME ~d'.firstInPicture, ~d'.firstInSequence PROVE ~d'.skipped /\ wanted
    BY <1>5, <1>6 DEF Steady, wanted
  <2>1. n.type # "EOS"
    BY <1>10
  <2>2. CASE d'.firstInPicture = d.firstInPicture /\ d'.firstInSequence = d.firstInSequence
    <3>1. ~d.firstInPicture /\ ~d.firstInSequence
      BY <2>2
    <3>2. ~d.skipped /\ next > 1 /\ WantedAt(next - 1)
      BY <1>1, <3>1 DEF Steady
    <3>3. wanted
      BY <1>1, <1>7, <3>1, <3>2
    <3> QED BY <1>4, <3>2, <3>3
  <2>3. CASE ~ (d'.firstInPicture = d.firstInPicture /\ d'.firstInSequence = d.firstInSequence)
    <3>1. n.type = "SLICE" /\ wanted
      BY <1>4, <2>1, <2>3
    <3> QED BY <1>4, <3>1
  <2> QED BY <2>2, <2>3
<1>12. Skipping'
  <2> SUFFICES ASSUME d'.skipped
               PROVE  \E j \in 1..next : ~WantedAt(j) /\ \A i \in (j + 1)..next : ~(SliceAt(i) /\ WantedAt(i))
    BY <1>5, <1>6 DEF Skipping
  <2>1. CASE ~wanted
    <3>1. next \in 1..next /\ (next + 1)..next = {}
      BY <1>1
    <3> QED BY <2>1, <3>1 DEF wanted
  <2>2. CASE wanted
    <3>1. d.skipped /\ ~SliceAt(next)
      BY <1>4, <2>2 DEF SliceAt
    <3>2. PICK j \in 1..(next - 1) :
            ~WantedAt(j) /\ \A i \in (j + 1)..(next - 1) : ~(SliceAt(i) /\ WantedAt(i))
      BY <1>1, <3>1 DEF Skipping
    <3>3. j \in 1..next /\ \A i \in (j + 1)..next : i \in (j + 1)..(next - 1) \/ i = next
      BY <1>1
    <3> QED BY <3>1, <3>2, <3>3
  <2> QED BY <2>1, <2>2
<1>13. Ending'
  <2> SUFFICES ASSUME d'.eosInPu PROVE ~d'.firstInPicture /\ (EndsAt(next + 1) \/ AtNewPicture(next + 1))
    BY <1>5, <1>6 DEF Ending
  <2>1. CASE n.type = "EOS"
    BY <1>8, <1>10, <2>1 DEF EndsAt
  <2>2. CASE n.type # "EOS"
    <3>1. d.eosInPu /\ n.type = "EOB"
      BY <1>1, <1>4, <2>2
    <3>2. ~d.firstInPicture
      BY <1>1, <3>1 DEF Ending
    <3> QED BY <1>4, <1>8, <2>2, <3>1, <3>2 DEF EndsAt
  <2> QED BY <2>1, <2>2
<1>14. Begun'
  <2>1. CASE \E j \in 1..(next - 1) : SliceAt(j)
    <3>1. ~d.firstInSequence \/ d.listed
      BY <1>1, <2>1 DEF Begun
    <3>2. ~d'.firstInSequence \/ d'.listed
      BY <1>4, <1>10, <3>1
    <3>3. \E j \in 1..next : SliceAt(j)
      BY <1>1, <2>1
    <3> QED BY <1>5, <1>6, <3>2, <3>3 DEF Begun
  <2>2. CASE ~ \E j \in 1..(next - 1) : SliceAt(j)
    <3>1. d.firstInPicture /\ d.pocRandomAccess = Infinity
      BY <1>1, <2>2 DEF Begun
    <3>2. n.type # "EOS"
      BY <1>7, <2>2
    <3>3. CASE SliceAt(next)
      <4>1. ~d'.firstInSequence
        BY <1>4, <1>7, <2>2, <3>1, <3>2, <3>3 DEF SliceAt
      <4>2. \E j \in 1..next : SliceAt(j)
        BY <1>1, <3>3
      <4> QED BY <1>5, <1>6, <4>1, <4>2 DEF Begun
    <3>4. CASE ~SliceAt(next)
      <4>1. d'.firstInPicture /\ d'.pocRandomAccess = Infinity
        BY <1>4, <3>1, <3>2, <3>4 DEF SliceAt
      <4>2. ~ \E j \in 1..next : SliceAt(j)
        <5>1. \A j \in 1..next : j \in 1..(next - 1) \/ j = next
          BY <1>1
        <5> QED BY <2>2, <3>4, <5>1
      <4> QED BY <1>5, <1>6, <4>1, <4>2 DEF Begun
    <3> QED BY <3>3, <3>4
  <2> QED BY <2>1, <2>2
<1> QED BY <1>4, <1>11, <1>12, <1>13, <1>14

\* The inductive invariant of the loop.
LEMMA LoopInvariant == DecoderSpec => []LoopInv
<1>1. DecoderInit => LoopInv
  BY LoopStart
<1>2. LoopInv /\ [DecoderNext]_decoderVars => LoopInv'
  <2> SUFFICES ASSUME LoopInv, [DecoderNext]_decoderVars PROVE LoopInv'
    OBVIOUS
  <2>1. CASE TurnNewPicture
    BY <2>1, NewPictureInvariant
  <2>2. CASE TurnRead
    BY <2>2, ReadInvariant
  <2>3. CASE Finish
    <3>1. UNCHANGED <<stream, limits>> /\ next = Len(stream) + 1 /\ next' = next + 1
      BY <2>3 DEF Finish
    <3>2. Sequential(stream, limits.target)'
      BY <3>1 DEF LoopInv, Sequential
    <3>3. Len(stream) \in Nat
      BY DEF LoopInv, Sequential
    <3>4. next' \in Nat \ {0} /\ ~ next' <= Len(stream)'
      BY <3>1, <3>3
    <3> QED BY <3>2, <3>4 DEF LoopInv
  <2>4. CASE UNCHANGED decoderVars
    <3>1. stream' = stream /\ limits' = limits /\ next' = next /\ fresh' = fresh /\ d' = d
      BY <2>4 DEF decoderVars
    <3>2. Sequential(stream, limits.target)'
      BY <3>1 DEF LoopInv, Sequential
    <3>3. (Typed(d) /\ Steady /\ Skipping /\ Ending /\ Begun)'
            <=> Typed(d) /\ Steady /\ Skipping /\ Ending /\ Begun
      BY <3>1 DEF Typed, Steady, Skipping, Ending, Begun, SliceAt, WantedAt, Wanted, EndsAt,
                  AtNewPicture, TellsNewPicture
    <3> QED BY <3>1, <3>2, <3>3 DEF LoopInv
  <2> QED BY <2>1, <2>2, <2>3, <2>4 DEF DecoderNext
<1> QED BY <1>1, <1>2, PTL DEF DecoderSpec

\* LookAheadFresh: in every stream of the assumption the loop reads a NAL unit before
\* isNewPicture looks ahead again.
THEOREM LookAheadFreshHolds == DecoderSpec => []LookAheadFresh
<1>1. LoopInv => LookAheadFresh
  BY DEF LoopInv, LookAheadFresh
<1> QED BY <1>1, LoopInvariant, PTL

\* NeverRefused: none of its units runs into the check of DecApp behind an EOS.
THEOREM NeverRefusedHolds == DecoderSpec => []NeverRefused
<1>1. LoopInv => NeverRefused
  BY DEF LoopInv, Ending, EndsAt, NeverRefused, NewPicture, Refused
<1> QED BY <1>1, LoopInvariant, PTL

(* ----------------------- whole pictures of the decoder ------------------------- *)

\* Where a RASL picture is judged by its POC, the slice header derives it from its low bits.
LEMMA HeaderPoc ==
  ASSUME NEW x, IsState(x), NEW n, n.nut = "RASL"
  PROVE  LET y == SliceHeader(x, n)
         IN y.e.prevTid0 = x.e.prevTid0 /\ y.e.poc = PocFrom(x.e.prevTid0, n.lsb)
<1> DEFINE w == [x EXCEPT !.e = Poc(@, n)]
           y == Checked(w, n)
           poc == PocFrom(x.e.prevTid0, n.lsb)
<1>1. w.e = [x.e EXCEPT !.poc = poc] /\ DOMAIN w = {"e", "b"}
  BY DEF IsState, Poc
<1> HIDE DEF w, poc
<1>2. w.e.prevTid0 = x.e.prevTid0 /\ w.e.poc = poc /\ DOMAIN w.e = LoopFields
  BY <1>1 DEF IsState, Typed, LoopFields
<1>3. y.e.prevTid0 = x.e.prevTid0 /\ y.e.poc = poc /\ DOMAIN y.e = LoopFields /\ DOMAIN y = {"e", "b"}
  <2> DEFINE f == [w.e EXCEPT !.noPrior = FALSE]
             b == DropPrior(w.b, w.e.noPriorPoc)
  <2>1. y = [e |-> f, b |-> b] \/ y = w
    BY DEF Checked
  <2>2. f.prevTid0 = w.e.prevTid0 /\ f.poc = w.e.poc /\ DOMAIN f = LoopFields
    BY <1>2 DEF LoopFields
  <2> HIDE DEF y, f, b
  <2>3. DOMAIN y = {"e", "b"} /\ (y.e = f \/ y.e = w.e)
    BY <1>1, <2>1
  <2> QED BY <1>2, <2>2, <2>3
<1> HIDE DEF y
<1>4. UpdateTid0(y.e, n) = y.e /\ Recovery(y.e, n) = y.e
  BY DEF UpdateTid0, Recovery, IRAP
<1> DEFINE c == Header(y.e, n)
<1>5. c.prevTid0 = x.e.prevTid0 /\ c.poc = poc
  BY <1>3 DEF Header, LoopFields
<1>6. ResetMsb(c, n) = c
  BY DEF ResetMsb
<1>7. SliceHeader(x, n) = [y EXCEPT !.e = ResetMsb(Header(Recovery(UpdateTid0(@, n), n), n), n)]
  BY DEF SliceHeader, y, w
<1>8. SliceHeader(x, n).e = c
  BY <1>3, <1>4, <1>6, <1>7
<1> HIDE DEF c
<1> QED BY <1>5, <1>8 DEF poc

\* A slice that is not skipped starts a picture or is added to the one that is begun.
LEMMA DecodeSlicePicture ==
  ASSUME NEW x, IsState(x), NEW n
  PROVE  LET y == DecodeSlice(x, n)
         IN /\ y.e.ended = x.e.ended /\ y.e.prevTid0 = x.e.prevTid0
            /\ SkipPicture(x.e, n) =>
                 /\ y.e.pcPic = x.e.pcPic /\ y.e.slices = x.e.slices
                 /\ y.e.firstInPicture = x.e.firstInPicture /\ y.e.firstInSequence = x.e.firstInSequence
                 /\ y.e.pocRandomAccess = x.e.pocRandomAccess
            /\ ~SkipPicture(x.e, n) /\ (x.e.firstInPicture \/ ~n.first) =>
                 /\ y.e.firstInPicture = FALSE /\ y.e.firstInSequence = FALSE
                 /\ y.e.pcPic = (IF x.e.firstInPicture THEN n.pic ELSE x.e.pcPic)
                 /\ y.e.slices = IF x.e.firstInPicture THEN <<n.pic>> ELSE Append(x.e.slices, n.pic)
                 /\ n.nut \in {"IDR", "CRA"} \/ y.e.pocRandomAccess = x.e.pocRandomAccess
                 /\ n.nut = "CRA" /\ x.e.pocRandomAccess # Infinity =>
                      y.e.pocRandomAccess = x.e.pocRandomAccess
<1> DEFINE r == RandomAccess(x.e, n)
           e == [r EXCEPT !.prevPoc = x.e.poc]
           pc == IF e.firstInPicture THEN n.pic ELSE e.pcPic
           nt == IF e.firstInPicture THEN n.nut ELSE e.nut
           sl == IF e.firstInPicture THEN <<n.pic>> ELSE Append(e.slices, n.pic)
           f == [e EXCEPT !.firstInSequence = FALSE,
                          !.firstInBitstream = FALSE, !.firstInPicture = FALSE,
                          !.pcPic = pc, !.nut = nt, !.slices = sl]
           g == [e |-> f, b |-> IF e.firstInPicture THEN NewPicBuffer(x.b, e, n) ELSE x.b]
           y == DecodeSlice(x, n)
<1>1. /\ DOMAIN r = LoopFields /\ r.firstInPicture = x.e.firstInPicture
      /\ r.firstInSequence = x.e.firstInSequence /\ r.pcPic = x.e.pcPic /\ r.slices = x.e.slices
      /\ r.ended = x.e.ended /\ r.prevTid0 = x.e.prevTid0
      /\ n.nut \in {"IDR", "CRA"} \/ r.pocRandomAccess = x.e.pocRandomAccess
      /\ n.nut = "CRA" /\ x.e.pocRandomAccess # Infinity => r.pocRandomAccess = x.e.pocRandomAccess
  BY DEF RandomAccess, IsState, Typed, LoopFields
<1>2. y = IF SkipPicture(x.e, n) THEN [e |-> r, b |-> SkipOutput(x.b, x.e)]
          ELSE IF GivenUp(r, n) THEN [e |-> e, b |-> x.b] ELSE ConstructRefPicList(g, n)
  BY DEF DecodeSlice
<1> HIDE DEF r, y
<1>3. CASE SkipPicture(x.e, n)
  <2>1. y = [e |-> r, b |-> SkipOutput(x.b, x.e)]
    BY <1>2, <1>3
  <2>2. n.nut # "IDR" /\ (n.nut = "CRA" => x.e.pocRandomAccess # Infinity)
    BY <1>3 DEF SkipPicture
  <2> QED BY <1>1, <1>3, <2>1, <2>2 DEF y
<1>4. CASE ~SkipPicture(x.e, n) /\ GivenUp(r, n)
  <2>1. y = [e |-> e, b |-> x.b]
    BY <1>2, <1>4
  <2>2. e.ended = x.e.ended /\ e.prevTid0 = x.e.prevTid0
    BY <1>1 DEF LoopFields
  <2>3. ~ (x.e.firstInPicture \/ ~n.first)
    BY <1>1, <1>4 DEF GivenUp
  <2> HIDE DEF e
  <2> QED BY <1>4, <2>1, <2>2, <2>3 DEF y
<1>5. CASE ~SkipPicture(x.e, n) /\ ~GivenUp(r, n)
  <2>1. y = ConstructRefPicList(g, n)
    BY <1>2, <1>5
  <2>2. /\ DOMAIN e = LoopFields /\ e.firstInPicture = x.e.firstInPicture
        /\ e.pcPic = x.e.pcPic /\ e.slices = x.e.slices
        /\ e.ended = x.e.ended /\ e.prevTid0 = x.e.prevTid0 /\ e.pocRandomAccess = r.pocRandomAccess
    BY <1>1 DEF LoopFields
  <2> HIDE DEF e, pc, nt, sl
  <2>3. /\ DOMAIN f = LoopFields /\ f.firstInPicture = FALSE /\ f.firstInSequence = FALSE
        /\ f.pcPic = pc /\ f.slices = sl
        /\ f.ended = e.ended /\ f.prevTid0 = e.prevTid0 /\ f.pocRandomAccess = e.pocRandomAccess
    BY <2>2 DEF LoopFields
  <2> HIDE DEF f
  <2> DEFINE crash == g.e.crashed \/ \E t \in n.refs :
                        \A k \in 1..Len(g.b.list) : g.b.list[k].poc # g.e.poc - t.delta
  <2>4. y = [g EXCEPT !.e.crashed = crash]
    BY <2>1 DEF ConstructRefPicList
  <2> HIDE DEF crash
  <2>5. y.e = [f EXCEPT !.crashed = crash]
    BY <2>4
  <2>6. /\ y.e.firstInPicture = FALSE /\ y.e.firstInSequence = FALSE
        /\ y.e.pcPic = pc /\ y.e.slices = sl
        /\ y.e.ended = x.e.ended /\ y.e.prevTid0 = x.e.prevTid0
        /\ y.e.pocRandomAccess = r.pocRandomAccess
    BY <2>2, <2>3, <2>5 DEF LoopFields
  <2>7. pc = (IF x.e.firstInPicture THEN n.pic ELSE x.e.pcPic)
    BY <2>2 DEF pc
  <2>8. sl = IF x.e.firstInPicture THEN <<n.pic>> ELSE Append(x.e.slices, n.pic)
    BY <2>2 DEF sl
  <2> HIDE DEF pc, sl
  <2> QED BY <1>1, <1>5, <2>6, <2>7, <2>8 DEF y
<1> QED BY <1>3, <1>4, <1>5

\* The skipping of a slice, from the state before its header is read.
WouldSkip(e, n) ==
  /\ n.nut # "IDR"
  /\ IF e.pocRandomAccess = Infinity THEN n.nut # "CRA"
     ELSE n.nut = "RASL" /\ PocFrom(e.prevTid0, n.lsb) < e.pocRandomAccess

\* What reading a unit does to the picture in progress and to the finished ones.
LEMMA ReceivedPicture ==
  ASSUME Typed(d)
  PROVE  LET n == stream[next]
             r == Received.e
         IN /\ r.ended = d.ended
            /\ n.type # "SLICE" \/ ~Wanted(n) =>
                 r.pcPic = d.pcPic /\ r.slices = d.slices /\ r.prevTid0 = d.prevTid0
            /\ n.type = "SLICE" /\ Wanted(n) /\ (d.firstInPicture \/ ~n.first) =>
                 /\ n.nut = "RASL" => r.prevTid0 = d.prevTid0
                 /\ WouldSkip(d, n) =>
                      /\ r.pcPic = d.pcPic /\ r.slices = d.slices
                      /\ r.firstInPicture = d.firstInPicture /\ r.firstInSequence = d.firstInSequence
                      /\ r.pocRandomAccess = d.pocRandomAccess
                 /\ ~WouldSkip(d, n) =>
                      /\ r.firstInPicture = FALSE /\ r.firstInSequence = FALSE
                      /\ r.pcPic = (IF d.firstInPicture THEN n.pic ELSE d.pcPic)
                      /\ r.slices = IF d.firstInPicture THEN <<n.pic>> ELSE Append(d.slices, n.pic)
                      /\ n.nut \in {"IDR", "CRA"} \/ r.pocRandomAccess = d.pocRandomAccess
                      /\ n.nut = "CRA" /\ d.pocRandomAccess # Infinity =>
                           r.pocRandomAccess = d.pocRandomAccess
<1> DEFINE n == stream[next]
           x == Skip(NewSequence(State, n), n)
           h == SliceHeader(x, n)
           y == DecodeSlice(h, n)
<1>1. /\ IsState(x)
      /\ x.e.firstInPicture = d.firstInPicture /\ x.e.firstInSequence = d.firstInSequence
      /\ x.e.pocRandomAccess = d.pocRandomAccess /\ x.e.prevTid0 = d.prevTid0
      /\ x.e.pcPic = d.pcPic /\ x.e.slices = d.slices /\ x.e.ended = d.ended
  BY BeforeFlags
<1> HIDE DEF x, n
<1>2. CASE Wanted(n) /\ n.type = "SLICE"
  <2>1. Received = y
    BY <1>2 DEF Received, Decode, n, x
  <2>2. IsState(h) /\ Same(x.e, h.e)
    BY <1>1, HeaderKeeps
  <2>3. n.nut = "RASL" => h.e.prevTid0 = x.e.prevTid0 /\ h.e.poc = PocFrom(x.e.prevTid0, n.lsb)
    BY <1>1, HeaderPoc
  <2> HIDE DEF h
  <2>4. SkipPicture(h.e, n) <=> WouldSkip(d, n)
    BY <1>1, <2>2, <2>3 DEF SkipPicture, WouldSkip, Same
  <2>5. /\ y.e.ended = h.e.ended /\ y.e.prevTid0 = h.e.prevTid0
        /\ SkipPicture(h.e, n) =>
             /\ y.e.pcPic = h.e.pcPic /\ y.e.slices = h.e.slices
             /\ y.e.firstInPicture = h.e.firstInPicture /\ y.e.firstInSequence = h.e.firstInSequence
             /\ y.e.pocRandomAccess = h.e.pocRandomAccess
        /\ ~SkipPicture(h.e, n) /\ (h.e.firstInPicture \/ ~n.first) =>
             /\ y.e.firstInPicture = FALSE /\ y.e.firstInSequence = FALSE
             /\ y.e.pcPic = (IF h.e.firstInPicture THEN n.pic ELSE h.e.pcPic)
             /\ y.e.slices = IF h.e.firstInPicture THEN <<n.pic>> ELSE Append(h.e.slices, n.pic)
             /\ n.nut \in {"IDR", "CRA"} \/ y.e.pocRandomAccess = h.e.pocRandomAccess
             /\ n.nut = "CRA" /\ h.e.pocRandomAccess # Infinity =>
                  y.e.pocRandomAccess = h.e.pocRandomAccess
    BY <2>2, DecodeSlicePicture
  <2> HIDE DEF y
  <2>6. /\ h.e.firstInPicture = d.firstInPicture /\ h.e.firstInSequence = d.firstInSequence
        /\ h.e.pocRandomAccess = d.pocRandomAccess /\ h.e.pcPic = d.pcPic /\ h.e.slices = d.slices
        /\ h.e.ended = d.ended /\ (n.nut = "RASL" => h.e.prevTid0 = d.prevTid0)
    BY <1>1, <2>2, <2>3 DEF Same
  <2> QED BY <1>2, <2>1, <2>4, <2>5, <2>6 DEF n
<1>3. CASE ~ (Wanted(n) /\ n.type = "SLICE")
  <2> DEFINE v == Received
  <2>1. v = x \/ v = [x EXCEPT !.e.outFlag = TRUE]
          \/ v = [x EXCEPT !.e.pocRandomAccess = Infinity, !.e.prevPoc = -Infinity]
    BY <1>3 DEF Received, Decode, n, x
  <2> HIDE DEF v
  <2> DEFINE f == [x.e EXCEPT !.outFlag = TRUE]
             g == [x.e EXCEPT !.pocRandomAccess = Infinity, !.prevPoc = -Infinity]
  <2>2. v.e = x.e \/ v.e = f \/ v.e = g
    BY <1>1, <2>1 DEF IsState
  <2>3. /\ f.pcPic = x.e.pcPic /\ f.slices = x.e.slices /\ f.prevTid0 = x.e.prevTid0 /\ f.ended = x.e.ended
        /\ g.pcPic = x.e.pcPic /\ g.slices = x.e.slices /\ g.prevTid0 = x.e.prevTid0 /\ g.ended = x.e.ended
    BY <1>1 DEF IsState, Typed, LoopFields
  <2> HIDE DEF f, g
  <2>4. v.e.pcPic = d.pcPic /\ v.e.slices = d.slices /\ v.e.prevTid0 = d.prevTid0 /\ v.e.ended = d.ended
    BY <1>1, <2>2, <2>3
  <2> QED BY <1>3, <2>4 DEF v, n
<1> QED BY <1>2, <1>3

\* The slices of picture p before unit n, and what is noted of them if each is decoded.
ReadOf(p, n) == {j \in 1..(n - 1) : SliceAt(j) /\ stream[j].pic = p}

Gathered(p, n) == [k \in 1..Cardinality(ReadOf(p, n)) |-> p]

Whole(p, s) == s = Gathered(p, Len(stream) + 1)

\* The pictures that were finished are whole and in order, none behind picture last.
EndedWhole(ended, last) ==
  /\ IsSequence(ended)
  /\ \A i \in 1..Len(ended) : /\ ended[i].pic \in Nat /\ ended[i].pic <= last
                              /\ Whole(ended[i].pic, ended[i].slices)
  /\ \A i, j \in 1..Len(ended) : i < j => ended[i].pic <= ended[j].pic

InProgress(e) == ~e.firstInPicture /\ ~e.firstInSequence

\* The picture in progress has all its slices before unit n, and none is behind a new picture.
Gathering(e, n) ==
  InProgress(e) =>
    /\ \E j \in 1..(n - 1) : /\ SliceAt(j) /\ stream[j].pic = e.pcPic
                             /\ \A i \in (j + 1)..(n - 1) : ~AtNewPicture(i)
    /\ e.slices = Gathered(e.pcPic, n)

\* A picture that was finished may be finished again.
Complete(e) == e.firstInPicture /\ ~e.firstInSequence => Whole(e.pcPic, e.slices)

Known(e, n) ==
  \/ e.ended = <<>> /\ e.firstInSequence
  \/ \E j \in 1..(n - 1) : SliceAt(j) /\ stream[j].pic = e.pcPic

\* Of a picture with slices on both sides of unit n, the later ones are skipped as the
\* earlier ones were: they are unless the picture is the one in progress.
Alike(e, n) ==
  \A j \in 1..(n - 1), k \in n..Len(stream) :
    SliceAt(j) /\ SliceAt(k) /\ stream[j].pic = stream[k].pic /\ WantedAt(k) =>
      (WouldSkip(e, stream[k]) <=> ~(InProgress(e) /\ e.pcPic = stream[k].pic))

PictureInv(e, n) ==
  /\ e.pcPic \in Nat /\ e.firstInPicture \in BOOLEAN /\ e.firstInSequence \in BOOLEAN
  /\ EndedWhole(e.ended, e.pcPic)
  /\ Gathering(e, n) /\ Complete(e) /\ Known(e, n) /\ Alike(e, n)

\* No picture has slices on both sides.
Boundary(n) ==
  \A j \in 1..(n - 1), k \in n..Len(stream) :
    SliceAt(j) /\ SliceAt(k) => stream[j].pic # stream[k].pic

\* The assumption on the pictures, for two slices.
LEMMA InPicturesAt ==
  ASSUME InPictures(stream), NEW k \in 1..Len(stream), NEW j \in 1..(k - 1),
         Len(stream) \in Nat, SliceAt(j), SliceAt(k)
  PROVE  /\ stream[j].pic \in Nat /\ stream[k].pic \in Nat
         /\ \/ /\ stream[j].pic = stream[k].pic
               /\ \A i \in (j + 1)..k : ~AtNewPicture(i) /\ stream[i].type # "EOS"
               /\ stream[j].nut = stream[k].nut /\ stream[j].tid = stream[k].tid
               /\ stream[j].lsb = stream[k].lsb /\ ~stream[k].first
            \/ stream[j].pic < stream[k].pic /\ \E i \in (j + 1)..k : AtNewPicture(i)
<1>1. j \in 1..Len(stream)
  OBVIOUS
<1> QED BY <1>1 DEF InPictures, SliceAt, AtNewPicture

LEMMA PicOfUnit ==
  ASSUME InPictures(stream), NEW k \in 1..Len(stream)
  PROVE  stream[k].pic \in Nat
BY DEF InPictures

\* A slice more, or none.
LEMMA ReadMore ==
  ASSUME NEW p, NEW n \in Nat \ {0}
  PROVE  /\ Cardinality(ReadOf(p, n)) \in Nat
         /\ SliceAt(n) /\ stream[n].pic = p =>
              Cardinality(ReadOf(p, n + 1)) = Cardinality(ReadOf(p, n)) + 1
         /\ ~(SliceAt(n) /\ stream[n].pic = p) => ReadOf(p, n + 1) = ReadOf(p, n)
<1>1. IsFiniteSet(ReadOf(p, n))
  <2>1. IsFiniteSet(1..(n - 1))
    BY FS_Interval
  <2>2. ReadOf(p, n) \in SUBSET (1..(n - 1))
    BY DEF ReadOf
  <2> QED BY <2>1, <2>2, FS_Subset
<1>2. Cardinality(ReadOf(p, n)) \in Nat
  BY <1>1, FS_CardinalityType
<1>3. ASSUME NEW j PROVE j \in 1..((n + 1) - 1) <=> j \in 1..(n - 1) \/ j = n
  OBVIOUS
<1>4. ASSUME SliceAt(n), stream[n].pic = p
      PROVE  Cardinality(ReadOf(p, n + 1)) = Cardinality(ReadOf(p, n)) + 1
  <2>1. ReadOf(p, n + 1) = ReadOf(p, n) \cup {n}
    BY <1>3, <1>4 DEF ReadOf
  <2>2. n \notin ReadOf(p, n)
    BY DEF ReadOf
  <2> QED BY <1>1, <2>1, <2>2, FS_AddElement
<1>5. ASSUME ~(SliceAt(n) /\ stream[n].pic = p)
      PROVE  ReadOf(p, n + 1) = ReadOf(p, n)
  BY <1>3, <1>5 DEF ReadOf
<1> QED BY <1>2, <1>4, <1>5

\* Behind the last slice of a picture all its slices are gathered.
LEMMA ReadAll ==
  ASSUME NEW p, Len(stream) \in Nat, NEW n \in 1..(Len(stream) + 1),
         \A k \in n..Len(stream) : ~(SliceAt(k) /\ stream[k].pic = p)
  PROVE  Gathered(p, n) = Gathered(p, Len(stream) + 1)
<1>1. ASSUME NEW j PROVE j \in 1..((Len(stream) + 1) - 1) <=> j \in 1..(n - 1) \/ j \in n..Len(stream)
  OBVIOUS
<1>2. ReadOf(p, n) = ReadOf(p, Len(stream) + 1)
  BY <1>1 DEF ReadOf
<1> QED BY <1>2 DEF Gathered

\* A picture ends where no picture has slices on both sides, whole.
LEMMA EndsWhole ==
  ASSUME Len(stream) \in Nat, NEW n \in 1..(Len(stream) + 1), NEW e, PictureInv(e, n), Boundary(n),
         ~e.firstInSequence
  PROVE  /\ Whole(e.pcPic, e.slices)
         /\ EndedWhole(Append(e.ended, Ended(e)), e.pcPic)
<1>1. Whole(e.pcPic, e.slices)
  <2>1. CASE e.firstInPicture
    BY <2>1 DEF PictureInv, Complete
  <2>2. CASE ~e.firstInPicture
    <3>1. PICK j \in 1..(n - 1) : SliceAt(j) /\ stream[j].pic = e.pcPic
      BY <2>2 DEF PictureInv, Gathering, InProgress
    <3>2. e.slices = Gathered(e.pcPic, n)
      BY <2>2 DEF PictureInv, Gathering, InProgress
    <3>3. \A k \in n..Len(stream) : ~(SliceAt(k) /\ stream[k].pic = e.pcPic)
      BY <3>1 DEF Boundary
    <3>4. Gathered(e.pcPic, n) = Gathered(e.pcPic, Len(stream) + 1)
      BY <3>3, ReadAll
    <3> QED BY <3>2, <3>4 DEF Whole
  <2> QED BY <2>1, <2>2
<1> DEFINE s == e.ended
           more == Append(s, Ended(e))
<1>2. IsSequence(s)
  BY DEF PictureInv, EndedWhole
<1>3. /\ IsSequence(more) /\ Len(more) = Len(s) + 1 /\ Len(s) \in Nat
      /\ \A i \in 1..Len(s) : more[i] = s[i]
      /\ more[Len(s) + 1] = Ended(e)
  BY <1>2, SentAppend
<1>4. Ended(e).pic = e.pcPic /\ Ended(e).slices = e.slices
  BY DEF Ended
<1>5. /\ \A i \in 1..Len(s) : /\ s[i].pic \in Nat /\ s[i].pic <= e.pcPic
                              /\ Whole(s[i].pic, s[i].slices)
      /\ \A i, j \in 1..Len(s) : i < j => s[i].pic <= s[j].pic
      /\ e.pcPic \in Nat
  BY DEF PictureInv, EndedWhole
<1> HIDE DEF s, more
<1>6. \A i \in 1..Len(more) : i \in 1..Len(s) \/ i = Len(s) + 1
  BY <1>3
<1>7. ASSUME NEW i \in 1..Len(more)
      PROVE  more[i].pic \in Nat /\ more[i].pic <= e.pcPic /\ Whole(more[i].pic, more[i].slices)
  <2>1. CASE i \in 1..Len(s)
    BY <1>3, <1>5, <2>1
  <2>2. CASE i = Len(s) + 1
    BY <1>1, <1>3, <1>4, <1>5, <2>2
  <2> QED BY <1>6, <2>1, <2>2
<1>8. ASSUME NEW i \in 1..Len(more), NEW j \in 1..Len(more), i < j
       PROVE  more[i].pic <= more[j].pic
  <2>1. i \in 1..Len(s)
    BY <1>3, <1>6, <1>8
  <2>2. CASE j \in 1..Len(s)
    BY <1>3, <1>5, <1>8, <2>1, <2>2
  <2>3. CASE j = Len(s) + 1
    BY <1>3, <1>4, <1>5, <2>1, <2>3
  <2> QED BY <1>6, <2>2, <2>3
<1> QED BY <1>1, <1>3, <1>7, <1>8 DEF EndedWhole, more, s

\* Where nothing of a picture is on the other side.
LEMMA BoundaryAt ==
  ASSUME InPictures(stream), Len(stream) \in Nat, NEW n \in 1..(Len(stream) + 1),
         \/ n = Len(stream) + 1
         \/ AtNewPicture(n)
         \/ n > 1 /\ stream[n - 1].type = "EOS"
  PROVE  Boundary(n)
<1> SUFFICES ASSUME NEW j \in 1..(n - 1), NEW k \in n..Len(stream), SliceAt(j), SliceAt(k),
                    stream[j].pic = stream[k].pic
             PROVE  FALSE
  BY DEF Boundary
<1>1. k \in 1..Len(stream) /\ j \in 1..(k - 1) /\ n \in (j + 1)..k
  OBVIOUS
<1>2. stream[j].pic \in Nat
  BY <1>1, InPicturesAt
<1>3. \A i \in (j + 1)..k : ~AtNewPicture(i) /\ stream[i].type # "EOS"
  BY <1>1, <1>2, InPicturesAt
<1>4. CASE n > 1 /\ stream[n - 1].type = "EOS"
  <2>1. j # n - 1
    BY <1>4 DEF SliceAt
  <2>2. n - 1 \in (j + 1)..k
    BY <1>1, <2>1
  <2> QED BY <1>3, <1>4, <2>2
<1> QED BY <1>1, <1>3, <1>4

\* The picture that ends there, and what may follow.
LEMMA EndKeepsPictures ==
  ASSUME Len(stream) \in Nat, NEW n \in 1..(Len(stream) + 1), NEW e, PictureInv(e, n), Boundary(n),
         NEW f, f.pcPic = e.pcPic, f.slices = e.slices,
         f.ended = e.ended \/ (~e.firstInSequence /\ f.ended = Append(e.ended, Ended(e))),
         f.firstInPicture \in BOOLEAN, f.firstInSequence \in BOOLEAN,
         f.firstInPicture \/ f.firstInSequence, e.firstInSequence => f.firstInSequence
  PROVE  PictureInv(f, n)
<1>1. f.pcPic \in Nat /\ EndedWhole(f.ended, f.pcPic)
  BY EndsWhole DEF PictureInv
<1>2. Gathering(f, n)
  BY DEF Gathering, InProgress
<1>3. Complete(f)
  BY EndsWhole DEF Complete
<1>4. Known(f, n)
  BY DEF PictureInv, Known
<1>5. Alike(f, n)
  BY DEF Alike, Boundary
<1> QED BY <1>1, <1>2, <1>3, <1>4, <1>5 DEF PictureInv

\* A unit that is no slice, or that is not decoded.
LEMMA OtherKeepsPictures ==
  ASSUME InPictures(stream), Len(stream) \in Nat, NEW n \in 1..Len(stream), NEW e, PictureInv(e, n),
         NEW f, f.pcPic = e.pcPic, f.slices = e.slices, f.ended = e.ended, f.prevTid0 = e.prevTid0,
         f.firstInPicture = e.firstInPicture, f.firstInSequence = e.firstInSequence,
         f.pocRandomAccess = e.pocRandomAccess \/ Boundary(n + 1),
         ~(SliceAt(n) /\ WantedAt(n)),
         InProgress(e) => ~AtNewPicture(n) /\ WantedAt(n)
  PROVE  PictureInv(f, n + 1)
<1>1. \A j : j \in 1..((n + 1) - 1) <=> j \in 1..(n - 1) \/ j = n
  OBVIOUS
<1>2. InProgress(f) <=> InProgress(e)
  BY DEF InProgress
<1>3. Gathering(f, n + 1)
  <2> SUFFICES ASSUME InProgress(e)
               PROVE  /\ \E j \in 1..n : /\ SliceAt(j) /\ stream[j].pic = f.pcPic
                                         /\ \A i \in (j + 1)..n : ~AtNewPicture(i)
                      /\ f.slices = Gathered(f.pcPic, n + 1)
    BY <1>2 DEF Gathering
  <2>1. PICK j \in 1..(n - 1) : /\ SliceAt(j) /\ stream[j].pic = e.pcPic
                                /\ \A i \in (j + 1)..(n - 1) : ~AtNewPicture(i)
    BY DEF PictureInv, Gathering
  <2>2. \A i \in (j + 1)..n : i \in (j + 1)..(n - 1) \/ i = n
    OBVIOUS
  <2>3. ReadOf(e.pcPic, n + 1) = ReadOf(e.pcPic, n)
    BY ReadMore
  <2>4. e.slices = Gathered(e.pcPic, n)
    BY DEF PictureInv, Gathering
  <2> QED BY <2>1, <2>2, <2>3, <2>4 DEF Gathered
<1>4. Complete(f)
  BY DEF PictureInv, Complete
<1>5. Known(f, n + 1)
  BY <1>1 DEF PictureInv, Known
<1>6. Alike(f, n + 1)
  <2> SUFFICES ASSUME NEW j \in 1..((n + 1) - 1), NEW k \in (n + 1)..Len(stream),
                      SliceAt(j), SliceAt(k), stream[j].pic = stream[k].pic, WantedAt(k)
               PROVE  WouldSkip(f, stream[k]) <=> ~(InProgress(f) /\ f.pcPic = stream[k].pic)
    BY DEF Alike
  <2>1. ~Boundary(n + 1)
    BY DEF Boundary
  <2>2. WouldSkip(f, stream[k]) <=> WouldSkip(e, stream[k])
    BY <2>1 DEF WouldSkip
  <2>3. CASE j \in 1..(n - 1)
    <3>1. k \in n..Len(stream)
      OBVIOUS
    <3> QED BY <1>2, <2>2, <2>3, <3>1 DEF PictureInv, Alike
  <2>4. CASE j = n
    <3>1. k \in 1..Len(stream) /\ j \in 1..(k - 1)
      BY <2>4
    <3>2. stream[j].pic \in Nat /\ stream[j].tid = stream[k].tid
      BY <3>1, InPicturesAt
    <3>3. WantedAt(n)
      BY <2>4, <3>2 DEF WantedAt, Wanted, WantedUpTo
    <3> QED BY <2>4, <3>3
  <2> QED BY <1>1, <2>3, <2>4
<1> QED BY <1>3, <1>4, <1>5, <1>6 DEF PictureInv

\* A slice that is decoded belongs to the picture in progress, or is the first of its own.
LEMMA SliceFits ==
  ASSUME InPictures(stream), Len(stream) \in Nat, NEW n \in 1..Len(stream), NEW e, PictureInv(e, n),
         SliceAt(n), WantedAt(n), ~e.firstInPicture => ~e.firstInSequence /\ ~AtNewPicture(n)
  PROVE  /\ ~e.firstInPicture =>
              stream[n].pic = e.pcPic /\ ~stream[n].first /\ ~WouldSkip(e, stream[n])
         /\ e.firstInPicture /\ ~WouldSkip(e, stream[n]) =>
              \A j \in 1..(n - 1) : ~(SliceAt(j) /\ stream[j].pic = stream[n].pic)
<1>1. n \in n..Len(stream)
  OBVIOUS
<1>2. ASSUME ~e.firstInPicture
      PROVE  stream[n].pic = e.pcPic /\ ~stream[n].first /\ ~WouldSkip(e, stream[n])
  <2>1. InProgress(e)
    BY <1>2 DEF InProgress
  <2>2. PICK j \in 1..(n - 1) : /\ SliceAt(j) /\ stream[j].pic = e.pcPic
                                /\ \A i \in (j + 1)..(n - 1) : ~AtNewPicture(i)
    BY <2>1 DEF PictureInv, Gathering
  <2>3. \A i \in (j + 1)..n : i \in (j + 1)..(n - 1) \/ i = n
    OBVIOUS
  <2>4. \A i \in (j + 1)..n : ~AtNewPicture(i)
    BY <1>2, <2>2, <2>3
  <2>5. stream[j].pic = stream[n].pic /\ ~stream[n].first
    BY <2>2, <2>4, InPicturesAt
  <2>6. WouldSkip(e, stream[n]) <=> ~(InProgress(e) /\ e.pcPic = stream[n].pic)
    BY <1>1, <2>2, <2>5 DEF PictureInv, Alike
  <2> QED BY <2>1, <2>2, <2>5, <2>6
<1>3. ASSUME e.firstInPicture, ~WouldSkip(e, stream[n]),
             NEW j \in 1..(n - 1), SliceAt(j), stream[j].pic = stream[n].pic
      PROVE  FALSE
  <2>1. ~InProgress(e)
    BY <1>3 DEF InProgress
  <2>2. WouldSkip(e, stream[n]) <=> ~(InProgress(e) /\ e.pcPic = stream[n].pic)
    BY <1>1, <1>3 DEF PictureInv, Alike
  <2> QED BY <1>3, <2>1, <2>2
<1> QED BY <1>2, <1>3

\* What is skipped with one slice of a picture is skipped with the next.
LEMMA SkippedAlike ==
  ASSUME NEW e, NEW f, NEW m, NEW n, m.nut = n.nut, m.lsb = n.lsb,
         m.nut = "RASL" => f.prevTid0 = e.prevTid0,
         WouldSkip(e, m) => f.pocRandomAccess = e.pocRandomAccess,
         ~WouldSkip(e, m) =>
           /\ m.nut \in {"IDR", "CRA"} \/ f.pocRandomAccess = e.pocRandomAccess
           /\ m.nut = "CRA" /\ e.pocRandomAccess # Infinity => f.pocRandomAccess = e.pocRandomAccess
  PROVE  WouldSkip(f, n) <=> WouldSkip(e, m)
BY DEF WouldSkip

\* The slices between two of a picture are of it.
LEMMA PictureConvex ==
  ASSUME InPictures(stream), Len(stream) \in Nat, NEW n \in 1..Len(stream), SliceAt(n),
         NEW j \in 1..n, NEW k \in (n + 1)..Len(stream), SliceAt(j), SliceAt(k),
         stream[j].pic = stream[k].pic
  PROVE  /\ stream[n].pic = stream[k].pic /\ stream[n].nut = stream[k].nut
         /\ stream[n].lsb = stream[k].lsb /\ stream[n].tid = stream[k].tid
<1>1. k \in 1..Len(stream) /\ n \in 1..(k - 1)
  OBVIOUS
<1>2. /\ stream[n].pic \in Nat /\ stream[k].pic \in Nat
      /\ \/ /\ stream[n].pic = stream[k].pic /\ stream[n].nut = stream[k].nut
            /\ stream[n].lsb = stream[k].lsb /\ stream[n].tid = stream[k].tid
         \/ stream[n].pic < stream[k].pic
  BY <1>1, InPicturesAt
<1>3. CASE j = n
  BY <1>2, <1>3
<1>4. CASE j # n
  <2>1. j \in 1..(n - 1)
    BY <1>4
  <2>2. stream[j].pic \in Nat /\ stream[j].pic <= stream[n].pic
    BY <1>2, <2>1, InPicturesAt
  <2> QED BY <1>2, <2>2
<1> QED BY <1>3, <1>4

\* A slice that is decoded, or skipped with its picture.
LEMMA SliceKeepsPictures ==
  ASSUME InPictures(stream), Len(stream) \in Nat, NEW n \in 1..Len(stream), NEW e, PictureInv(e, n),
         SliceAt(n), WantedAt(n), ~e.firstInPicture => ~e.firstInSequence /\ ~AtNewPicture(n),
         NEW f, f.ended = e.ended,
         stream[n].nut = "RASL" => f.prevTid0 = e.prevTid0,
         WouldSkip(e, stream[n]) =>
           /\ f.pcPic = e.pcPic /\ f.slices = e.slices
           /\ f.firstInPicture = e.firstInPicture /\ f.firstInSequence = e.firstInSequence
           /\ f.pocRandomAccess = e.pocRandomAccess,
         ~WouldSkip(e, stream[n]) =>
           /\ f.firstInPicture = FALSE /\ f.firstInSequence = FALSE
           /\ f.pcPic = (IF e.firstInPicture THEN stream[n].pic ELSE e.pcPic)
           /\ f.slices = IF e.firstInPicture THEN <<stream[n].pic>> ELSE Append(e.slices, stream[n].pic)
           /\ stream[n].nut \in {"IDR", "CRA"} \/ f.pocRandomAccess = e.pocRandomAccess
           /\ stream[n].nut = "CRA" /\ e.pocRandomAccess # Infinity =>
                f.pocRandomAccess = e.pocRandomAccess
  PROVE  PictureInv(f, n + 1)
<1>1. /\ ~e.firstInPicture =>
           stream[n].pic = e.pcPic /\ ~stream[n].first /\ ~WouldSkip(e, stream[n])
      /\ e.firstInPicture /\ ~WouldSkip(e, stream[n]) =>
           \A j \in 1..(n - 1) : ~(SliceAt(j) /\ stream[j].pic = stream[n].pic)
  BY SliceFits
<1>2. \A j : j \in 1..((n + 1) - 1) <=> j \in 1..(n - 1) \/ j = n
  OBVIOUS
<1>3. stream[n].pic \in Nat
  BY PicOfUnit
<1>4. \A k \in (n + 1)..Len(stream), j \in 1..((n + 1) - 1) :
        SliceAt(j) /\ SliceAt(k) /\ stream[j].pic = stream[k].pic =>
          stream[n].pic = stream[k].pic /\ (WouldSkip(f, stream[k]) <=> WouldSkip(e, stream[n]))
  <2> SUFFICES ASSUME NEW k \in (n + 1)..Len(stream), NEW j \in 1..((n + 1) - 1),
                      SliceAt(j), SliceAt(k), stream[j].pic = stream[k].pic
               PROVE  stream[n].pic = stream[k].pic /\ (WouldSkip(f, stream[k]) <=> WouldSkip(e, stream[n]))
    OBVIOUS
  <2>1. j \in 1..n
    OBVIOUS
  <2>2. stream[n].pic = stream[k].pic /\ stream[n].nut = stream[k].nut /\ stream[n].lsb = stream[k].lsb
    BY <2>1, PictureConvex
  <2> DEFINE m == stream[n]
             l == stream[k]
  <2>3. /\ m.nut = l.nut /\ m.lsb = l.lsb
        /\ m.nut = "RASL" => f.prevTid0 = e.prevTid0
        /\ WouldSkip(e, m) => f.pocRandomAccess = e.pocRandomAccess
        /\ ~WouldSkip(e, m) =>
             /\ m.nut \in {"IDR", "CRA"} \/ f.pocRandomAccess = e.pocRandomAccess
             /\ m.nut = "CRA" /\ e.pocRandomAccess # Infinity => f.pocRandomAccess = e.pocRandomAccess
    BY <2>2
  <2> HIDE DEF m, l
  <2>4. WouldSkip(f, l) <=> WouldSkip(e, m)
    BY <2>3, SkippedAlike
  <2> QED BY <2>2, <2>4 DEF m, l
<1>5. CASE WouldSkip(e, stream[n])
  <2>1. e.firstInPicture /\ ~InProgress(e) /\ ~InProgress(f)
    BY <1>1, <1>5 DEF InProgress
  <2>2. Gathering(f, n + 1) /\ Complete(f)
    BY <1>5, <2>1 DEF PictureInv, Gathering, Complete
  <2>3. Known(f, n + 1)
    BY <1>2, <1>5 DEF PictureInv, Known
  <2>4. Alike(f, n + 1)
    BY <1>4, <1>5, <2>1 DEF Alike
  <2> QED BY <1>5, <2>2, <2>3, <2>4 DEF PictureInv
<1>6. CASE ~WouldSkip(e, stream[n])
  <2>1. InProgress(f) /\ f.pcPic = stream[n].pic
    BY <1>1, <1>6 DEF InProgress
  <2>2. EndedWhole(f.ended, f.pcPic)
    <3>1. CASE ~e.firstInPicture
      BY <1>1, <2>1, <3>1 DEF PictureInv
    <3>2. CASE e.firstInPicture /\ e.ended = <<>>
      BY <3>2 DEF PictureInv, EndedWhole
    <3>3. CASE e.ended # <<>>
      <4>1. PICK j \in 1..(n - 1) : SliceAt(j) /\ stream[j].pic = e.pcPic
        BY <3>3 DEF PictureInv, Known
      <4>2. e.pcPic <= f.pcPic
        BY <2>1, <4>1, InPicturesAt
      <4>3. e.pcPic \in Nat /\ f.pcPic \in Nat /\ EndedWhole(e.ended, e.pcPic)
        BY <1>3, <2>1 DEF PictureInv
      <4> QED BY <4>2, <4>3 DEF EndedWhole
    <3> QED BY <3>1, <3>2, <3>3
  <2>3. f.slices = Gathered(f.pcPic, n + 1)
    <3> DEFINE p == stream[n].pic
               c == Cardinality(ReadOf(p, n))
    <3>1. c \in Nat /\ Cardinality(ReadOf(p, n + 1)) = c + 1
      BY ReadMore
    <3>2. Gathered(p, n + 1) = [k \in 1..(c + 1) |-> p]
      BY <3>1 DEF Gathered
    <3>3. CASE e.firstInPicture
      <4>1. ReadOf(p, n) = {}
        BY <1>1, <1>6, <3>3 DEF ReadOf
      <4>2. c = 0
        BY <4>1, FS_EmptySet
      <4>3. f.slices = <<p>>
        BY <1>6, <3>3
      <4> HIDE DEF p, c
      <4>4. Gathered(p, n + 1) = [k \in 1..1 |-> p]
        BY <3>2, <4>2
      <4>5. <<p>> = [k \in 1..1 |-> p]
        OBVIOUS
      <4> QED BY <2>1, <4>3, <4>4, <4>5 DEF p
    <3>4. CASE ~e.firstInPicture
      <4>1. e.slices = [k \in 1..c |-> p]
        BY <1>1, <3>4 DEF PictureInv, Gathering, InProgress, Gathered
      <4>2. f.slices = Append(e.slices, p)
        BY <1>6, <3>4
      <4> HIDE DEF p, c
      <4>3. Append([k \in 1..c |-> p], p) = [k \in 1..(c + 1) |-> p]
        BY <3>1
      <4> QED BY <2>1, <3>2, <4>1, <4>2, <4>3 DEF p
    <3> QED BY <3>3, <3>4
  <2>4. Gathering(f, n + 1)
    <3>1. n \in 1..((n + 1) - 1) /\ (n + 1)..((n + 1) - 1) = {}
      OBVIOUS
    <3> QED BY <2>1, <2>3, <3>1 DEF Gathering
  <2>5. Complete(f)
    BY <1>6 DEF Complete
  <2>6. Known(f, n + 1)
    BY <1>2, <2>1 DEF Known
  <2>7. Alike(f, n + 1)
    BY <1>4, <1>6, <2>1 DEF Alike
  <2> QED BY <1>3, <1>6, <2>1, <2>2, <2>4, <2>5, <2>6, <2>7 DEF PictureInv
<1> QED BY <1>5, <1>6

\* The end of the sequence or of the file may finish the picture behind the unit.
LEMMA ClosedPictures ==
  ASSUME Typed(d), TurnRead
  PROVE  LET r == Received.e
         IN /\ d'.ended = r.ended \/ (~r.firstInSequence /\ d'.ended = Append(r.ended, Ended(r)))
            /\ ~Eos /\ ~Eof => d' = r
            /\ Eos /\ ~Eof => d'.pcPic = r.pcPic /\ d'.slices = r.slices
<1> DEFINE w == Received
           v == MarkEos(w)
<1>1. IsState(w)
  BY ReceivedFlags
<1> HIDE DEF w
<1>2. IsState(v) /\ v.e.firstInSequence = w.e.firstInSequence /\ v.e.pcPic = w.e.pcPic
      /\ v.e.slices = w.e.slices /\ v.e.ended = w.e.ended /\ Ended(v.e) = Ended(w.e)
  <2>1. DOMAIN v = {"e", "b"} /\ v.e = [w.e EXCEPT !.eosInPu = TRUE, !.newClvs = TRUE]
    BY <1>1 DEF MarkEos, IsState
  <2> HIDE DEF v
  <2>2. /\ DOMAIN v.e = LoopFields /\ v.e.eosInPu = TRUE
        /\ v.e.firstInPicture = w.e.firstInPicture /\ v.e.skipped = w.e.skipped
        /\ v.e.listed = w.e.listed /\ v.e.firstInSequence = w.e.firstInSequence
        /\ v.e.pcPic = w.e.pcPic /\ v.e.slices = w.e.slices /\ v.e.ended = w.e.ended
    BY <1>1, <2>1 DEF IsState, Typed, LoopFields
  <2> QED BY <1>1, <2>1, <2>2 DEF IsState, Typed, Ended
<1> HIDE DEF v
<1>3. /\ Eos \in BOOLEAN /\ Eof \in BOOLEAN /\ TRUE \in BOOLEAN /\ FALSE \in BOOLEAN
      /\ w = Received /\ v = MarkEos(Received)
  BY DEF Eos, Eof, w, v
<1>4. /\ IsState(Closed)
      /\ \/ Closed.e.ended = w.e.ended
         \/ ~w.e.firstInSequence /\ Closed.e.ended = Append(w.e.ended, Ended(w.e))
      /\ ~Eos /\ ~Eof => Closed = w
      /\ Eos /\ ~Eof => Closed.e.pcPic = w.e.pcPic /\ Closed.e.slices = w.e.slices
  <2>1. CASE Eos /\ ~Eof
    <3> DEFINE y == EndPicture(v, TRUE, FALSE)
    <3>1. Closed = y
      <4>1. Eof = FALSE
        BY <2>1 DEF Eof
      <4> QED BY <1>3, <2>1, <4>1 DEF Closed
    <3>2. /\ IsState(y)
          /\ \/ y.e.ended = v.e.ended
             \/ ~v.e.firstInSequence /\ y.e.ended = Append(v.e.ended, Ended(v.e))
          /\ y.e.pcPic = v.e.pcPic /\ y.e.slices = v.e.slices
      <4>1. TRUE \in BOOLEAN /\ FALSE \in BOOLEAN /\ IsState(v)
        BY <1>2
      <4> QED BY <4>1, PictureEnds
    <3> HIDE DEF y
    <3> QED BY <1>2, <2>1, <3>1, <3>2
  <2>2. CASE Eos /\ Eof
    <3> DEFINE y == EndPicture(v, TRUE, TRUE)
    <3>1. Closed = y
      <4>1. Eof = TRUE
        BY <2>2 DEF Eof
      <4> QED BY <1>3, <2>2, <4>1 DEF Closed
    <3>2. /\ IsState(y)
          /\ \/ y.e.ended = v.e.ended
             \/ ~v.e.firstInSequence /\ y.e.ended = Append(v.e.ended, Ended(v.e))
      <4>1. TRUE \in BOOLEAN /\ FALSE \in BOOLEAN /\ IsState(v)
        BY <1>2
      <4> QED BY <4>1, PictureEnds
    <3> HIDE DEF y
    <3> QED BY <1>2, <2>2, <3>1, <3>2
  <2>3. CASE ~Eos /\ Eof
    <3> DEFINE y == EndPicture(w, FALSE, TRUE)
    <3>1. Closed = y
      BY <1>3, <2>3 DEF Closed
    <3>2. /\ IsState(y)
          /\ \/ y.e.ended = w.e.ended
             \/ ~w.e.firstInSequence /\ y.e.ended = Append(w.e.ended, Ended(w.e))
      BY <1>1, <1>3, PictureEnds
    <3> HIDE DEF y
    <3> QED BY <2>3, <3>1, <3>2
  <2>4. CASE ~Eos /\ ~Eof
    BY <1>1, <1>3, <2>4 DEF Closed
  <2> QED BY <2>1, <2>2, <2>3, <2>4
<1> DEFINE c == Closed
<1> HIDE DEF c
<1>5. /\ DOMAIN c.e = LoopFields
      /\ d' = IF Eos /\ c.e.listed THEN [c.e EXCEPT !.firstInPicture = FALSE] ELSE c.e
  BY <1>4, ReadSteps DEF c, IsState, Typed
<1>6. /\ d'.ended = c.e.ended /\ d'.pcPic = c.e.pcPic /\ d'.slices = c.e.slices
      /\ ~Eos => d' = c.e
  BY <1>5 DEF LoopFields
<1> QED BY <1>3, <1>4, <1>6 DEF c

\* While the loop reads, the pictures are whole; an EOS is noted until the next picture.
PicturesInv ==
  /\ LoopInv /\ InPictures(stream)
  /\ \E last : EndedWhole(d.ended, last)
  /\ next <= Len(stream) =>
       /\ PictureInv(d, next)
       /\ ~d.firstInPicture /\ d.firstInSequence => d.eosInPu

\* The look-ahead and the streams do not depend on the state of the decoder.
LEMMA SameStream ==
  ASSUME stream' = stream, limits' = limits
  PROVE  /\ InPictures(stream)' <=> InPictures(stream)
         /\ \A s, last : EndedWhole(s, last)' <=> EndedWhole(s, last)
         /\ \A e, n : PictureInv(e, n)' <=> PictureInv(e, n)
<1>1. InPictures(stream)' <=> InPictures(stream)
  BY DEF InPictures, TellsNewPicture
<1>2. \A k : (SliceAt(k)' <=> SliceAt(k)) /\ (WantedAt(k)' <=> WantedAt(k))
             /\ (AtNewPicture(k)' <=> AtNewPicture(k))
  BY DEF SliceAt, WantedAt, Wanted, AtNewPicture, TellsNewPicture
<1>3. \A p, n : ReadOf(p, n)' = ReadOf(p, n)
  BY <1>2 DEF ReadOf
<1>4. \A p, n : Gathered(p, n)' = Gathered(p, n)
  BY <1>3 DEF Gathered
<1>5. \A p, s : Whole(p, s)' <=> Whole(p, s)
  BY <1>4 DEF Whole
<1>6. \A s, last : EndedWhole(s, last)' <=> EndedWhole(s, last)
  BY <1>5 DEF EndedWhole, IsSequence
<1>7. \A e, k : WouldSkip(e, stream[k])' <=> WouldSkip(e, stream[k])
  BY DEF WouldSkip, PocFrom
<1>8. \A e, n : PictureInv(e, n)' <=> PictureInv(e, n)
  <2> SUFFICES ASSUME NEW e, NEW n PROVE PictureInv(e, n)' <=> PictureInv(e, n)
    OBVIOUS
  <2>1. Gathering(e, n)' <=> Gathering(e, n)
    BY <1>2, <1>4 DEF Gathering, InProgress
  <2>2. Complete(e)' <=> Complete(e)
    BY <1>5 DEF Complete
  <2>3. Known(e, n)' <=> Known(e, n)
    BY <1>2 DEF Known
  <2>4. Alike(e, n)' <=> Alike(e, n)
    BY <1>2, <1>7 DEF Alike, InProgress
  <2> QED BY <1>6, <2>1, <2>2, <2>3, <2>4 DEF PictureInv
<1> QED BY <1>1, <1>6, <1>8

\* Before the first unit there is no picture.
LEMMA PicturesStart ==
  ASSUME DecoderInit
  PROVE  PicturesInv
<1> PICK j \in Jobs : stream = j.units /\ limits = j.limits
  BY DEF DecoderInit
<1>1. InPictures(stream)
  BY StreamAssumption
<1>2. /\ next = 1 /\ d.ended = <<>> /\ d.pcPic = 0
      /\ d.firstInPicture = TRUE /\ d.firstInSequence = TRUE
  BY DEF DecoderInit, DecoderStart
<1>3. LoopInv
  BY LoopStart
<1>4. EndedWhole(d.ended, d.pcPic)
  <2>1. \A i : i \notin 1..Len(<<>>)
    OBVIOUS
  <2>2. IsSequence(<<>>)
    BY DEF IsSequence
  <2> QED BY <1>2, <2>1, <2>2 DEF EndedWhole
<1>5. Gathering(d, next) /\ Complete(d) /\ Known(d, next) /\ Alike(d, next)
  BY <1>2 DEF Gathering, InProgress, Complete, Known, Alike
<1>6. PictureInv(d, next)
  <2>1. d.firstInPicture \in BOOLEAN /\ d.firstInSequence \in BOOLEAN
    BY <1>2
  <2>2. d.pcPic \in Nat
    BY <1>2
  <2> QED BY <1>4, <1>5, <2>1, <2>2 DEF PictureInv
<1> QED BY <1>1, <1>2, <1>3, <1>4, <1>6 DEF PicturesInv

\* A new picture is seen, so the one before has all its slices.
LEMMA NewPictureKeepsPictures ==
  ASSUME PicturesInv, TurnNewPicture
  PROVE  PicturesInv'
<1>1. /\ LoopInv /\ InPictures(stream) /\ Len(stream) \in Nat
      /\ next \in 1..(Len(stream) + 1) /\ AtNewPicture(next)
      /\ stream' = stream /\ limits' = limits /\ next' = next /\ PictureInv(d, next)
  BY DEF PicturesInv, LoopInv, Sequential, TurnNewPicture, NewPicture
<1>2. /\ Typed(d') /\ d'.firstInPicture = TRUE /\ d'.firstInSequence = d.firstInSequence
      /\ d'.pcPic = d.pcPic /\ d'.slices = d.slices
      /\ d'.ended = d.ended \/ (~d.firstInSequence /\ d'.ended = Append(d.ended, Ended(d)))
  BY <1>1, NewPictureFlags
<1>3. LoopInv'
  BY <1>1, NewPictureInvariant
<1>4. Boundary(next)
  BY <1>1, BoundaryAt
<1>5. PictureInv(d', next)
  BY <1>1, <1>2, <1>4, EndKeepsPictures DEF Typed
<1>6. EndedWhole(d'.ended, d'.pcPic)
  BY <1>5 DEF PictureInv
<1>7. PictureInv(d, next)'
  BY <1>1, <1>5, SameStream
<1>8. InPictures(stream)' /\ \E last : EndedWhole(d.ended, last)'
  BY <1>1, <1>6, SameStream
<1> QED BY <1>2, <1>3, <1>7, <1>8 DEF PicturesInv

\* A unit that is read keeps what is gathered whole.
LEMMA ReceivedKeepsPictures ==
  ASSUME PicturesInv, TurnRead
  PROVE  PictureInv(Received.e, next + 1)
<1> DEFINE n == stream[next]
           r == Received.e
<1>1. /\ LoopInv /\ InPictures(stream) /\ Len(stream) \in Nat /\ next \in 1..Len(stream)
      /\ PictureInv(d, next) /\ (~d.firstInPicture /\ d.firstInSequence => d.eosInPu)
      /\ ~(~d.firstInPicture /\ AtNewPicture(next))
      /\ Typed(d) /\ Steady /\ Ending /\ Sequential(stream, limits.target)
  BY DEF PicturesInv, LoopInv, Sequential, TurnRead, NewPicture
<1>2. /\ IsState(Received)
      /\ n.type # "SLICE" \/ ~Wanted(n) =>
           /\ r.firstInPicture = d.firstInPicture /\ r.firstInSequence = d.firstInSequence
           /\ n.type # "EOS" => r.pocRandomAccess = d.pocRandomAccess
  BY <1>1, ReceivedFlags
<1>3. /\ r.ended = d.ended
      /\ n.type # "SLICE" \/ ~Wanted(n) =>
           r.pcPic = d.pcPic /\ r.slices = d.slices /\ r.prevTid0 = d.prevTid0
      /\ n.type = "SLICE" /\ Wanted(n) /\ (d.firstInPicture \/ ~n.first) =>
           /\ n.nut = "RASL" => r.prevTid0 = d.prevTid0
           /\ WouldSkip(d, n) =>
                /\ r.pcPic = d.pcPic /\ r.slices = d.slices
                /\ r.firstInPicture = d.firstInPicture /\ r.firstInSequence = d.firstInSequence
                /\ r.pocRandomAccess = d.pocRandomAccess
           /\ ~WouldSkip(d, n) =>
                /\ r.firstInPicture = FALSE /\ r.firstInSequence = FALSE
                /\ r.pcPic = (IF d.firstInPicture THEN n.pic ELSE d.pcPic)
                /\ r.slices = IF d.firstInPicture THEN <<n.pic>> ELSE Append(d.slices, n.pic)
                /\ n.nut \in {"IDR", "CRA"} \/ r.pocRandomAccess = d.pocRandomAccess
                /\ n.nut = "CRA" /\ d.pocRandomAccess # Infinity =>
                     r.pocRandomAccess = d.pocRandomAccess
  BY <1>1, ReceivedPicture
<1>4. (SliceAt(next) <=> n.type = "SLICE") /\ (WantedAt(next) <=> Wanted(n))
  BY DEF SliceAt, WantedAt
<1> HIDE DEF r
<1>5. CASE SliceAt(next) /\ WantedAt(next)
  <2>1. ~d.firstInPicture => ~d.firstInSequence /\ ~AtNewPicture(next)
    BY <1>1, <1>5 DEF Ending, EndsAt, SliceAt
  <2>2. d.firstInPicture \/ ~n.first
    BY <1>1, <1>5, <2>1, SliceFits
  <2> QED BY <1>1, <1>3, <1>4, <1>5, <2>1, <2>2, SliceKeepsPictures DEF r
<1>6. CASE ~(SliceAt(next) /\ WantedAt(next))
  <2>1. InProgress(d) => ~AtNewPicture(next) /\ WantedAt(next)
    BY <1>1, SequentialAt DEF InProgress, Steady
  <2>2. n.type = "EOS" => Boundary(next + 1)
    <3>1. next + 1 \in 1..(Len(stream) + 1) /\ (next + 1) - 1 = next /\ next + 1 > 1
      BY <1>1
    <3> QED BY <1>1, <3>1, BoundaryAt
  <2> QED BY <1>1, <1>2, <1>3, <1>4, <1>6, <2>1, <2>2, OtherKeepsPictures DEF r
<1> QED BY <1>5, <1>6

\* A unit is read, and the picture behind it may end with the sequence or the file.
LEMMA ReadKeepsPictures ==
  ASSUME PicturesInv, TurnRead
  PROVE  PicturesInv'
<1> DEFINE r == Received.e
<1>1. /\ LoopInv /\ InPictures(stream) /\ Len(stream) \in Nat /\ next \in 1..Len(stream)
      /\ stream' = stream /\ limits' = limits /\ next' = next + 1 /\ Typed(d)
      /\ next + 1 \in 1..(Len(stream) + 1) /\ (next + 1) - 1 = next /\ next + 1 > 1
      /\ ~d.firstInPicture /\ d.firstInSequence => d.eosInPu
  BY DEF PicturesInv, LoopInv, Sequential, TurnRead
<1>2. PictureInv(r, next + 1)
  BY ReceivedKeepsPictures
<1>3. /\ d'.ended = r.ended \/ (~r.firstInSequence /\ d'.ended = Append(r.ended, Ended(r)))
      /\ ~Eos /\ ~Eof => d' = r
      /\ Eos /\ ~Eof => d'.pcPic = r.pcPic /\ d'.slices = r.slices
  BY <1>1, ClosedPictures
<1> HIDE DEF r
<1>4. Eos \/ Eof => Boundary(next + 1)
  <2>1. CASE Eos
    BY <1>1, <2>1, BoundaryAt DEF Eos
  <2>2. CASE Eof
    BY <1>1, <2>2, BoundaryAt DEF Eof
  <2> QED BY <2>1, <2>2
<1>5. \E last : EndedWhole(d'.ended, last)
  <2>1. EndedWhole(r.ended, r.pcPic)
    BY <1>2 DEF PictureInv
  <2>2. CASE ~Eos /\ ~Eof
    BY <1>3, <2>1, <2>2
  <2>3. CASE Eos \/ Eof
    BY <1>1, <1>2, <1>3, <1>4, <2>1, <2>3, EndsWhole
  <2> QED BY <2>2, <2>3
<1>6. ASSUME next + 1 <= Len(stream)
      PROVE  /\ PictureInv(d', next + 1)
             /\ ~d'.firstInPicture /\ d'.firstInSequence => d'.eosInPu
  <2> DEFINE n == stream[next]
  <2>1. /\ Typed(d')
        /\ n.type # "EOS" =>
             /\ d'.eosInPu = d.eosInPu
             /\ \/ d'.firstInPicture = d.firstInPicture /\ d'.firstInSequence = d.firstInSequence
                \/ d'.firstInPicture = FALSE /\ d'.firstInSequence = FALSE
        /\ n.type = "EOS" => d'.eosInPu = TRUE
        /\ n.type = "EOS" /\ Wanted(n) =>
             /\ ~d.skipped /\ ~d.firstInSequence => d'.firstInSequence = TRUE
             /\ d.firstInSequence => d'.firstInSequence = TRUE
    <3>1. next \in Nat
      BY <1>1
    <3> QED BY <1>1, <1>6, <3>1, ReadFlags
  <2>2. ~Eof /\ (Eos <=> n.type = "EOS")
    BY <1>1, <1>6 DEF Eof, Eos
  <2>3. CASE ~Eos
    BY <1>1, <1>2, <1>3, <2>1, <2>2, <2>3
  <2>4. CASE Eos
    <3>1. d'.firstInSequence = TRUE
      BY <1>1, <2>1, <2>2, <2>4, EosEndsPicture DEF WantedAt, Typed
    <3>2. PictureInv(d', next + 1)
      BY <1>1, <1>2, <1>3, <1>4, <2>1, <2>2, <2>4, <3>1, EndKeepsPictures DEF Typed
    <3> QED BY <2>1, <2>2, <2>4, <3>2
  <2> QED BY <2>3, <2>4
<1>7. LoopInv'
  BY <1>1, ReadInvariant
<1>8. InPictures(stream)' /\ \E last : EndedWhole(d.ended, last)'
  BY <1>1, <1>5, SameStream
<1>9. next' <= Len(stream)' => PictureInv(d, next)' /\ (~d.firstInPicture /\ d.firstInSequence => d.eosInPu)'
  BY <1>1, <1>6, SameStream
<1> QED BY <1>7, <1>8, <1>9 DEF PicturesInv

\* The inductive invariant of the pictures.
LEMMA PicturesInvariant == DecoderSpec => []PicturesInv
<1>1. DecoderInit => PicturesInv
  BY PicturesStart
<1>2. PicturesInv /\ LoopInv' /\ [DecoderNext]_decoderVars => PicturesInv'
  <2> SUFFICES ASSUME PicturesInv, LoopInv', [DecoderNext]_decoderVars PROVE PicturesInv'
    OBVIOUS
  <2>1. CASE TurnNewPicture
    BY <2>1, NewPictureKeepsPictures
  <2>2. CASE TurnRead
    BY <2>2, ReadKeepsPictures
  <2>3. CASE Finish \/ UNCHANGED decoderVars
    <3>1. /\ stream' = stream /\ limits' = limits /\ d' = d
          /\ next' = next \/ (next = Len(stream) + 1 /\ next' = next + 1)
      BY <2>3 DEF Finish, decoderVars
    <3>2. InPictures(stream)' /\ \E last : EndedWhole(d.ended, last)'
      BY <3>1, SameStream DEF PicturesInv
    <3>3. Len(stream) \in Nat
      BY DEF PicturesInv, LoopInv, Sequential
    <3>4. next' <= Len(stream)' =>
            PictureInv(d, next)' /\ (~d.firstInPicture /\ d.firstInSequence => d.eosInPu)'
      BY <3>1, <3>3, SameStream DEF PicturesInv
    <3> QED BY <3>2, <3>4 DEF PicturesInv
  <2> QED BY <2>1, <2>2, <2>3 DEF DecoderNext
<1> QED BY <1>1, <1>2, LoopInvariant, PTL DEF DecoderSpec

\* FinishedWhole: in every stream of the assumption, whatever its sequences, layers and
\* skipped pictures, each picture is finished with all its slices and no others, in order.
THEOREM FinishedWholeHolds == DecoderSpec => []FinishedWhole
<1>1. PicturesInv => FinishedWhole
  <2> SUFFICES ASSUME PicturesInv PROVE FinishedWhole
    OBVIOUS
  <2>1. PICK last : EndedWhole(d.ended, last)
    BY DEF PicturesInv
  <2>2. Len(stream) \in Nat
    BY DEF PicturesInv, LoopInv, Sequential
  <2>3. ASSUME NEW p PROVE ReadOf(p, Len(stream) + 1) = {j \in Slices : stream[j].pic = p}
    <3>1. (Len(stream) + 1) - 1 = Len(stream)
      BY <2>2
    <3> QED BY <3>1 DEF ReadOf, Slices, SliceAt
  <2>4. ASSUME NEW i \in 1..Len(d.ended)
        PROVE  d.ended[i].slices =
                 [k \in 1..Cardinality({j \in Slices : stream[j].pic = d.ended[i].pic}) |-> d.ended[i].pic]
    <3> DEFINE p == d.ended[i].pic
    <3>1. d.ended[i].slices = [k \in 1..Cardinality(ReadOf(p, Len(stream) + 1)) |-> p]
      BY <2>1 DEF EndedWhole, Whole, Gathered
    <3> HIDE DEF p
    <3>2. ReadOf(p, Len(stream) + 1) = {j \in Slices : stream[j].pic = p}
      BY <2>3
    <3> QED BY <3>1, <3>2 DEF p
  <2> QED BY <2>1, <2>4 DEF EndedWhole, FinishedWhole
<1> QED BY <1>1, PicturesInvariant, PTL

(* --------------------------- the padding of a picture -------------------------- *)

Counts == [bins : Nat, bytes : Nat]

\* What was inserted before EndOfPicture is what EndSubpic counted.
Counted == on /\ phase = "slices" => padded = 3 * sum

\* Types, the bounds that keep size_t from wrapping where it is not subtracted, and the
\* result of the last call.
PaddingInv ==
  /\ on \in BOOLEAN
  /\ pic \in Counts /\ pic.bins <= MaxBins /\ pic.bytes <= MaxBytes
  /\ sub \in Counts /\ sub.bins <= pic.bins /\ sub.bytes <= pic.bytes
  /\ sum \in Nat /\ sum + sub.bins <= pic.bins
  /\ padded \in Nat
  /\ call \in [bins : Nat, bytes : Nat, already : Nat, words : Nat]
  /\ Counted
  /\ BinsBounded /\ SubpicsBounded /\ AsRequired

\* Below 0 the remainder is one modulus higher.
LEMMA Below ==
  ASSUME NEW m \in Nat, m > 0, NEW x \in Int, x < 0, x >= -m
  PROVE  x % m = x + m
<1> DEFINE q == x \div m
           y == x % m
<1>1. q \in Int /\ y \in 0..(m - 1) /\ x = m * q + y
  OBVIOUS
<1> HIDE DEF q, y
<1>2. m * q < 0 /\ m * q > -2 * m
  BY <1>1
<1>3. ~ q >= 0
  BY <1>1, <1>2
<1>4. ~ q <= -2
  BY <1>1, <1>2
<1>5. q = -1
  BY <1>1, <1>3, <1>4
<1>6. y = x + m
  BY <1>1, <1>5
<1> QED BY <1>6 DEF y

\* Words of three bytes, counted from a number of bytes that is one or two short of
\* them: the subtraction wraps, and adding 2 wraps back.
LEMMA Wraps ==
  ASSUME NEW m \in Nat, m > 6, NEW x \in Int, x < m - 2, x > -m
  PROVE /\ x >= 0 => ((x % m) + 2) % m = x + 2
        /\ x = -1 => ((x % m) + 2) % m = 1
        /\ x = -2 => ((x % m) + 2) % m = 0
        /\ x < -2 => ((x % m) + 2) % m = x + m + 2
<1>1. CASE x >= 0
  <2>1. x % m = x
    BY <1>1
  <2>2. (x + 2) % m = x + 2
    BY <1>1
  <2> QED BY <1>1, <2>1, <2>2
<1>2. CASE x < 0
  <2>1. x % m = x + m
    BY <1>2, Below
  <2> QED BY <1>2, <2>1
<1> QED BY <1>1, <1>2

\* targetNumBytesInVclNalUnits is the least number of bytes the bins conform with.
LEMMA TargetLeast ==
  ASSUME NEW b \in Nat, NEW n \in Nat, NEW k \in Int
  PROVE  LET t == Target([bins |-> b, bytes |-> n])
         IN /\ t \in Int
            /\ Conforms(b, k) <=> t <= k
            /\ b > 0 => t <= b
<1> DEFINE y == b - RawBits
<1>1. RawBits \in Nat /\ y \in Int /\ y <= b
  BY PictureAssumption
<1> HIDE DEF y
<1>2. CASE Scale = 32
  <2> DEFINE u == (y * 3 + 31) \div 32
  <2>1. u \in Int /\ y * 3 + 31 >= 32 * u /\ y * 3 + 31 < 32 * u + 32
    BY <1>1
  <2>2. Target([bins |-> b, bytes |-> n]) = u
    BY <1>2, <1>1 DEF Target, y
  <2>3. Conforms(b, k) <=> 3 * y <= 32 * k
    BY <1>1, <1>2 DEF Conforms, y
  <2> HIDE DEF u
  <2> QED BY <1>1, <2>1, <2>2, <2>3
<1>3. CASE Scale = 36
  <2> DEFINE u == (y * 3 + 35) \div 36
  <2>1. u \in Int /\ y * 3 + 35 >= 36 * u /\ y * 3 + 35 < 36 * u + 36
    BY <1>1
  <2>2. Target([bins |-> b, bytes |-> n]) = u
    BY <1>3, <1>1 DEF Target, y
  <2>3. Conforms(b, k) <=> 3 * y <= 36 * k
    BY <1>1, <1>3 DEF Conforms, y
  <2> HIDE DEF u
  <2> QED BY <1>1, <2>1, <2>2, <2>3
<1> QED BY <1>2, <1>3, ScaleAssumption

\* Below the threshold nothing is missing.
LEMMA BelowThreshold ==
  ASSUME NEW b \in Nat, NEW n \in Nat, b < Threshold([bins |-> b, bytes |-> n])
  PROVE  Conforms(b, n)
<1>1. RawBits \in Nat
  BY PictureAssumption
<1>2. CASE Scale = 32
  BY <1>1, <1>2 DEF Threshold, Conforms
<1>3. CASE Scale = 36
  BY <1>1, <1>3 DEF Threshold, Conforms
<1> QED BY <1>2, <1>3, ScaleAssumption

\* More bytes never hurt.
LEMMA ConformsUp ==
  ASSUME NEW b \in Nat, NEW n \in Int, NEW k \in Int, n <= k, Conforms(b, n)
  PROVE  Conforms(b, k)
<1>1. LET t == Target([bins |-> b, bytes |-> 0]) IN t \in Int /\ t <= n
  BY TargetLeast, Zenon
<1>2. Target([bins |-> b, bytes |-> 0]) <= k
  BY <1>1
<1> QED BY <1>2, TargetLeast, Zenon

\* A call inserts what is needed, or so much that it cannot be allocated.
LEMMA WordsSuffice ==
  ASSUME NEW b \in Nat, b <= MaxBins, NEW n \in Nat, NEW a \in Nat, a <= MaxBins
  PROVE  LET w == ZeroWords([bins |-> b, bytes |-> n], a)
         IN /\ w \in Nat
            /\ Fits(w) => Conforms(b, n + 3 * (a + w))
            /\ w > 0 /\ Fits(w) => ~Conforms(b, n + 3 * (a + w - 1))
            /\ a = 0 => w <= b /\ Fits(w)
<1> DEFINE p == [bins |-> b, bytes |-> n]
           w == ZeroWords(p, a)
           t == Target(p)
           x == t - n - a * 3
           least(k) == Conforms(b, k) <=> t <= k
<1>0. SizeT \in Nat /\ MaxBins \in Nat /\ SizeT > 6 * MaxBins + 100
  BY SizeTAssumption, PictureAssumption
<1> DEFINE good(v) == /\ v \in Nat
                      /\ Fits(v) => Conforms(b, n + 3 * (a + v))
                      /\ v > 0 /\ Fits(v) => ~Conforms(b, n + 3 * (a + v - 1))
                      /\ a = 0 => v <= b /\ Fits(v)
<1> SUFFICES good(w)
  OBVIOUS
<1>z. 0 \in Int
  OBVIOUS
<1>a. \A k \in Int : t \in Int /\ (b > 0 => t <= b) /\ least(k)
  BY TargetLeast, Zenon
<1>1. t \in Int /\ (b > 0 => t <= b)
  BY <1>z, <1>a, Zenon
<1>2. \A k \in Int : least(k)
  BY <1>a, Zenon
<1>3. p.bins = b /\ p.bytes = n
  OBVIOUS
<1>4. CASE b < Threshold(p) \/ t <= n
  <2>1. w = 0
    <3>1. Threshold(p) \in Int
      BY <1>3, ScaleAssumption, PictureAssumption DEF Threshold
    <3> HIDE DEF t, p
    <3> QED BY <1>1, <1>3, <1>4, <3>1 DEF ZeroWords, t
  <2>2. Conforms(b, n)
    BY <1>1, <1>2, <1>4, BelowThreshold
  <2>3. Conforms(b, n + 3 * (a + 0))
    BY <2>2, ConformsUp
  <2>4. Fits(0)
    BY <1>0 DEF Fits
  <2> HIDE DEF w
  <2> QED BY <2>1, <2>3, <2>4
<1>5. CASE b >= Threshold(p) /\ t > n
  <2> DEFINE m == ((x % SizeT) + 2) % SizeT
  <2>1. w = m \div 3
    BY <1>3, <1>5 DEF ZeroWords, Needed
  <2>2. x \in Int /\ x > -SizeT /\ x < SizeT - 2 /\ x >= 1 - 3 * a /\ x <= b
    <3>1. b > 0
      BY <1>2, <1>5, <1>1, PictureAssumption, ScaleAssumption DEF Conforms
    <3> HIDE DEF t, p
    <3> QED BY <3>1, <1>0, <1>1, <1>5
  <2>3. ASSUME w \in Nat
        PROVE  least(n + 3 * (a + w)) /\ least(n + 3 * (a + w - 1))
    <3> HIDE DEF w, t
    <3> QED BY <1>2, <2>3
  <2> HIDE DEF t, w, p
  <2>4. CASE x >= 0
    <3>1. m = x + 2
      BY <1>0, <2>2, <2>4, Wraps
    <3>2. w \in Nat /\ 3 * w <= x + 2 /\ 3 * w > x - 1
      BY <2>1, <2>2, <2>4, <3>1
    <3>3. (w * 3) % SizeT = w * 3 /\ w * 3 < SizeT \div 2
      BY <1>0, <2>2, <3>2
    <3>4. Fits(w)
      BY <3>3 DEF Fits
    <3>5. t <= n + 3 * (a + w) /\ (w > 0 => ~ t <= n + 3 * (a + w - 1))
      BY <1>1, <3>2
    <3>6. a = 0 => w <= b
      BY <2>2, <2>4, <3>2
    <3> QED BY <2>3, <3>2, <3>4, <3>5, <3>6
  <2>5. CASE x = -1 \/ x = -2
    <3>1. m \in 0..1
      BY <1>0, <2>2, <2>5, Wraps
    <3>2. w = 0
      BY <2>1, <3>1
    <3>3. a > 0
      BY <2>2, <2>5
    <3>4. t <= n + 3 * (a + w)
      BY <1>1, <2>5, <3>2
    <3> QED BY <2>3, <3>2, <3>3, <3>4
  <2>6. CASE x < -2
    <3>1. m = x + SizeT + 2
      BY <1>0, <2>2, <2>6, Wraps
    <3>2. w \in Nat /\ 3 * w <= x + SizeT + 2 /\ 3 * w >= x + SizeT
      BY <2>1, <1>0, <2>2, <2>6, <3>1
    <3>3. (w * 3) % SizeT = w * 3 /\ w * 3 >= SizeT \div 2
      BY <1>0, <2>2, <2>6, <3>2
    <3>4. ~Fits(w)
      BY <1>0, <3>2, <3>3 DEF Fits
    <3>5. a > 0
      BY <2>2, <2>6
    <3> QED BY <3>2, <3>4, <3>5
  <2> QED BY <2>2, <2>4, <2>5, <2>6
<1>6. Threshold(p) \in Int
  BY <1>3, ScaleAssumption, PictureAssumption DEF Threshold
<1> HIDE DEF t, p, good, w
<1> QED BY <1>1, <1>4, <1>5, <1>6

\* Before the first slice nothing is counted.
LEMMA InitInvariant == PaddingInit => PaddingInv
<1>1. Fits(0)
  BY SizeTAssumption, PictureAssumption DEF Fits
<1>2. MaxBins \in Nat /\ MaxBytes \in Nat
  BY PictureAssumption
<1> QED BY <1>1, <1>2 DEF PaddingInit, PaddingInv, Counts, Nothing, Counted, BinsBounded, SubpicsBounded,
                          AsRequired

\* A slice adds what it has to the counts of the picture and of its sub-picture.
LEMMA EncodeSliceInvariant ==
  ASSUME PaddingInv, NEW b \in SliceBins, NEW n \in SliceBytes, EncodeSlice(b, n)
  PROVE  PaddingInv'
<1>1. b \in Nat /\ n \in Nat
  BY PictureAssumption
<1>2. /\ pic' \in Counts /\ sub' \in Counts
      /\ pic'.bins = pic.bins + b /\ pic'.bytes = pic.bytes + n
      /\ sub'.bins = sub.bins + b /\ sub'.bytes = sub.bytes + n
  BY <1>1 DEF PaddingInv, EncodeSlice, Plus, Counts
<1>3. /\ pic'.bins <= MaxBins /\ pic'.bytes <= MaxBytes
      /\ sub'.bins <= pic'.bins /\ sub'.bytes <= pic'.bytes
      /\ sum + sub'.bins <= pic'.bins
  BY <1>1, <1>2 DEF PaddingInv, EncodeSlice, Counts
<1>4. phase = "slices" /\ UNCHANGED <<on, phase, sum, padded, call>>
  BY DEF EncodeSlice
<1>5. Counted' /\ SubpicsBounded' /\ AsRequired'
  BY <1>4 DEF PaddingInv, Counted, SubpicsBounded, AsRequired, Conforms, Fits
<1>6. BinsBounded'
  BY <1>4 DEF BinsBounded
<1> QED BY <1>2, <1>3, <1>4, <1>5, <1>6 DEF PaddingInv

\* What a call leaves behind, from what it inserts.
LEMMA PadInvariant ==
  ASSUME NEW b \in Nat, b <= MaxBins, NEW n \in Nat, NEW a \in Nat, a <= MaxBins,
         NEW w, w = ZeroWords([bins |-> b, bytes |-> n], a), NEW after,
         Pad([bins |-> b, bytes |-> n], a, w, after),
         padded \in Nat
  PROVE  /\ w \in Nat
         /\ a = 0 => w <= b /\ Fits(w)
         /\ call' \in [bins : Nat, bytes : Nat, already : Nat, words : Nat]
         /\ padded' \in Nat
         /\ on /\ Fits(w) => phase' = after /\ padded' = padded + 3 * w
         /\ on /\ ~Fits(w) => phase' = "failed"
         /\ Fits(w) => Conforms(b, n + 3 * (a + w))
         /\ SubpicsBounded' /\ AsRequired'
<1>1. /\ w \in Nat
      /\ Fits(w) => Conforms(b, n + 3 * (a + w))
      /\ w > 0 /\ Fits(w) => ~Conforms(b, n + 3 * (a + w - 1))
      /\ a = 0 => w <= b /\ Fits(w)
  BY WordsSuffice
<1>2. call' = [bins |-> b, bytes |-> n, already |-> a, words |-> w]
  BY DEF Pad
<1>3. /\ padded' \in Nat
      /\ on /\ Fits(w) => phase' = after /\ padded' = padded + 3 * w
      /\ on /\ ~Fits(w) => phase' = "failed"
  BY <1>1 DEF Pad
<1>4. call'.bins = b /\ call'.bytes = n /\ call'.already = a /\ call'.words = w
  BY <1>2
<1>5. a = 0 => Conforms(b, n + 3 * w)
  BY <1>1
<1>6. SubpicsBounded'
  BY <1>4, <1>5 DEF SubpicsBounded, Conforms
<1>7. AsRequired'
  BY <1>1, <1>4 DEF AsRequired, Conforms, Fits
<1> QED BY <1>1, <1>2, <1>3, <1>6, <1>7

\* The last slice of a sub-picture, and the padding behind it, by what the sub-picture lacks.
LEMMA EndSubpicInvariant ==
  ASSUME PaddingInv, NEW b \in SliceBins, NEW n \in SliceBytes, EndSubpic(b, n)
  PROVE  PaddingInv'
<1> DEFINE bb == sub.bins + b
           nn == sub.bytes + n
           w == ZeroWords([bins |-> bb, bytes |-> nn], 0)
<1>1. b \in Nat /\ n \in Nat /\ MaxBins \in Nat
  BY PictureAssumption
<1>2. /\ pic' \in Counts /\ sub' = Nothing
      /\ pic'.bins = pic.bins + b /\ pic'.bytes = pic.bytes + n
  BY <1>1 DEF PaddingInv, EndSubpic, Plus, Counts
<1>3. /\ pic'.bins <= MaxBins /\ pic'.bytes <= MaxBytes
      /\ bb \in Nat /\ bb <= MaxBins /\ nn \in Nat
  BY <1>1, <1>2 DEF PaddingInv, EndSubpic, Counts
<1>4. Plus(sub, b, n) = [bins |-> bb, bytes |-> nn]
  BY DEF Plus
<1>5. Pad([bins |-> bb, bytes |-> nn], 0, w, "slices") /\ sum' = sum + w
  BY <1>4 DEF EndSubpic
<1>6. phase = "slices" /\ UNCHANGED on
  BY DEF EndSubpic
<1>7. padded \in Nat
  BY DEF PaddingInv
<1> HIDE DEF w
<1>8. /\ w \in Nat
      /\ w <= bb /\ Fits(w)
      /\ call' \in [bins : Nat, bytes : Nat, already : Nat, words : Nat]
      /\ padded' \in Nat
      /\ on => phase' = "slices" /\ padded' = padded + 3 * w
      /\ SubpicsBounded' /\ AsRequired'
  <2>1. w = ZeroWords([bins |-> bb, bytes |-> nn], 0) /\ 0 \in Nat /\ 0 <= MaxBins
    BY <1>1 DEF w
  <2> HIDE DEF bb, nn
  <2> QED BY <2>1, <1>3, <1>5, <1>7, PadInvariant
<1>9. sum' \in Nat /\ sum' + Nothing.bins <= pic'.bins
  BY <1>1, <1>2, <1>5, <1>8 DEF PaddingInv, Nothing, Counts
<1>10. Counted'
  BY <1>5, <1>6, <1>8 DEF PaddingInv, Counted
<1>11. BinsBounded'
  BY <1>6, <1>8 DEF BinsBounded
<1>12. /\ Nothing \in Counts /\ Nothing.bins = 0 /\ Nothing.bytes = 0
       /\ Nothing.bins <= pic'.bins /\ Nothing.bytes <= pic'.bytes
  BY <1>2 DEF Nothing, Counts
<1> QED BY <1>2, <1>3, <1>6, <1>8, <1>9, <1>10, <1>11, <1>12 DEF PaddingInv

\* The padding behind the picture takes into account what the sub-pictures were given.
LEMMA EndPictureInvariant ==
  ASSUME PaddingInv, EndOfPicture
  PROVE  PaddingInv'
<1> DEFINE b == pic.bins
           n == pic.bytes
           w == ZeroWords([bins |-> b, bytes |-> n], sum)
<1>1. /\ MaxBins \in Nat /\ b \in Nat /\ b <= MaxBins /\ n \in Nat
      /\ sum \in Nat /\ sum <= MaxBins
  BY PictureAssumption DEF PaddingInv, Counts
<1>2. pic = [bins |-> b, bytes |-> n]
  BY DEF PaddingInv, Counts
<1>3. Pad([bins |-> b, bytes |-> n], sum, w, "done")
  BY <1>2 DEF EndOfPicture
<1>4. phase = "slices" /\ UNCHANGED <<on, pic, sub, sum>>
  BY DEF EndOfPicture
<1>5. padded \in Nat /\ (on => padded = 3 * sum)
  BY <1>4 DEF PaddingInv, Counted
<1>w. w = ZeroWords([bins |-> b, bytes |-> n], sum)
  OBVIOUS
<1> HIDE DEF w, b, n
<1>6. /\ w \in Nat
      /\ call' \in [bins : Nat, bytes : Nat, already : Nat, words : Nat]
      /\ padded' \in Nat
      /\ on /\ Fits(w) => phase' = "done" /\ padded' = padded + 3 * w
      /\ on /\ ~Fits(w) => phase' = "failed"
      /\ Fits(w) => Conforms(b, n + 3 * (sum + w))
      /\ SubpicsBounded' /\ AsRequired'
  BY <1>1, <1>3, <1>5, <1>w, PadInvariant
<1>7. ASSUME phase' = "done", on
      PROVE  Conforms(pic.bins, pic.bytes + padded')
  <2>1. Fits(w) /\ padded' = 3 * (sum + w)
    BY <1>1, <1>5, <1>6, <1>7
  <2> QED BY <1>6, <2>1 DEF b, n
<1>8. BinsBounded'
  BY <1>4, <1>7 DEF BinsBounded, Conforms
<1>9. Counted'
  <2>1. on => phase' # "slices"
    BY <1>6
  <2> QED BY <1>4, <2>1 DEF Counted
<1> QED BY <1>4, <1>6, <1>8, <1>9 DEF PaddingInv

\* A stuttering step leaves the counts as they are.
LEMMA StutterInvariant ==
  ASSUME PaddingInv, UNCHANGED paddingVars
  PROVE  PaddingInv'
BY DEF PaddingInv, paddingVars, Counted, BinsBounded, SubpicsBounded, AsRequired, Conforms, Fits

\* The counts keep their bounds, and every call inserts what is needed and no more
\* (cabac_zero_word_padding).
THEOREM PaddingInvariant == PaddingSpec => []PaddingInv
<1>1. PaddingInv /\ [PaddingNext]_paddingVars => PaddingInv'
  BY EncodeSliceInvariant, EndSubpicInvariant, EndPictureInvariant, StutterInvariant DEF PaddingNext
<1> QED BY InitInvariant, <1>1, PTL DEF PaddingSpec

\* BinsBoundedHolds: a picture that ends conforms with the bound on its bins.
THEOREM BinsBoundedHolds == PaddingSpec => []BinsBounded
<1>1. PaddingInv => BinsBounded
  BY DEF PaddingInv
<1> QED BY PaddingInvariant, <1>1, PTL

\* SubpicsBoundedHolds: so does each of its sub-pictures.
THEOREM SubpicsBoundedHolds == PaddingSpec => []SubpicsBounded
<1>1. PaddingInv => SubpicsBounded
  BY DEF PaddingInv
<1> QED BY PaddingInvariant, <1>1, PTL

\* AsRequiredHolds: no word that is written could be left out.
THEOREM AsRequiredHolds == PaddingSpec => []AsRequired
<1>1. PaddingInv => AsRequired
  BY DEF PaddingInv
<1> QED BY PaddingInvariant, <1>1, PTL
=============================================================================
