# VTM 10.2 with partition prediction: a TLA+ model

The repository is the VVC reference software (encoder, decoder and bitstream
tools) with a patch that predicts the partition of a CTU by a CNN and LightGBM
models, or stores the partition an encoder run found in a `.dat` file and lets a
later run replay it. This directory models the parts whose correctness is about
order and agreement rather than about samples: the partition data of the patch, the
coding-tree recursion, the loops over CTUs, the layers that turn symbols into a file and
back, the encoder's choice of what each picture may refer to, and the loop of the decoder
that cuts the file into pictures and outputs them.

All paths below are relative to `src/VVCSoftware/source/`.

* [1 The system](#1-the-system)
* [2 The modules and the code](#2-the-modules-and-the-code)
* [3 The runs](#3-the-runs)
* [4 What is proved](#4-what-is-proved)
* [5 Where the program differs](#5-where-the-program-differs)
* [6 Not modelled](#6-not-modelled)
* [7 The plan](#7-the-plan)

## 1 The system

Everything runs in one thread. What makes the program hard is that two programs
(encoder and decoder), or two runs of one (storing and replaying), keep the same
state without exchanging it; that the decoder finds the end of a picture only by
looking at what follows; that the recursion over splits keeps several answers and
undoes steps half way; and that a crash or a cut file leaves a prefix behind.

How data flows:

```
 EncApp -> EncLib -> EncGOP -> EncSlice -> EncCu <-> EncModeCtrl
                                  |           | splits: UnitPartitioner
   .dat <- PartitionManager <-----+           | PartitionTree, PartitionPrediction
                                              v
             CABACWriter -> BinEncoder -> sub-streams
   slice header + sub-streams -> NALwrite -> AnnexBwrite -> file
                        + cabac_zero_words

   file -> AnnexBread -> NALread -> DecLib (parameter sets, slice headers)
              ^  look-ahead           |
              +--- DecApp::decode ----+-> DecSlice -> CABACReader -> BinDecoder
                        |                 DecCu, in-loop filters
                        +-> picture buffer -> output
```

The components, with their state, operations and the properties that make them
correct. "-" in the last column: not modelled (section 6 says why).

| Component | State | Operations | What is hard; what must hold | Module |
|---|---|---|---|---|
| Partition file: `Lib/EncoderLib/PartitionManager.cpp`, `EncSlice.cpp:1690`, `EncCu.cpp:376` | file, its position, matrix of one CTU | `write`, `read`, `store_ctu`, `load_ctu` | nothing in the file names a CTU; a crash leaves any prefix. Each record is loaded for the CTU and channel it was stored for | PartitionStream |
| Search and stored tree: `EncCu.cpp` `xCompressCU`, `xCheckModeSplit`; `shall_we_split` | recursion, best coding structure, one temporary tree per split, replay cursor | test a mode, try a split, use a result, transfer leaves | two answers are selected by different comparisons. The stored tree is the coded one; a replay codes the loaded one | PartitionSearch |
| Partition tree: `PartitionTree.cpp`, `split_from_depth` | heap of nodes with owners, depths, values | `split`, `transfer_leaves`, `rebuild_*`, `array_store`, destructor | owning raw pointers; values depend on the root. Nothing is freed twice or lost; the matrix decodes to the tree | PartitionTree, PartitionMatrix |
| Partitioner: `Lib/CommonLib/UnitPartitioner.cpp` | stack of levels, depth counters, quantization group | `splitCurrArea`, `nextPart`, `exitCurrSplit`, `canSplit` | driven by search, writer and reader; left half way. Counters are those of the path, each sample is coded once, flags decode | QtbtPartitioner |
| Arithmetic coder: `BinEncoder.cpp`, `BinDecoder.cpp`, `Contexts.h` | registers, held-back bytes, context models | encode and decode a bin, bypass bins, a remainder, the end | carries into bytes that are already out. What is read is what was written | Cabac, BinChannel |
| NAL unit: `NALwrite.cpp`, `NALread.cpp` | zero counters, emulation prevention locations | `writeNaluContent`, `convertPayloadToRBSP` | No start code inside; read back exactly; locations exact | NalUnit |
| Entry points: `EncSlice.cpp:1909`, `VLCWriter.cpp:2678`, `VLCReader.cpp:4205`, `DecSlice.cpp:106` | sizes of sub-streams, header end | count, write, correct, extract | encoder predicts what the decoder measures. Each sub-stream is cut where it was joined | SliceData |
| Zero words: `EncGOP.cpp:1240` | bins and bytes of picture and sub-picture | `cabac_zero_word_padding` | unsigned differences; padded for twice. Enough, and none too many | CabacZeroWords |
| Byte stream: `AnnexBwrite.h`, `AnnexBread.cpp`, `DecLib.cpp:3062` | file position, bytes held back, `eofbit` | `byteStreamNALUnit`, `isNewPicture`, `isNewAccessUnit` | look-ahead seeks back by what it guesses was held. Units read once each, in order | AnnexB |
| CTU loops: `EncSlice.cpp:1490`, `1840`, `DecSlice.cpp:95`, QP of `CABACWriter.cpp`, `CABACReader.cpp` | context models, palette predictor, motion candidates, QP predictor, each with a copy for the next row; three times | one CTU searched, written, read | nothing of it is sent, so three passes restart and take over at the same CTUs. The decoder predicts what the search predicted | SliceCtus |
| Tiles and slices: `PPS` in `Slice.cpp` | boundaries, the CTUs of each slice | `initTiles`, `initRasterSliceMap`, `initRectSliceMap`, sub-stream counts | counted by different loops | PictureLayout |
| Decoding loop: `App/DecoderApp/DecApp.cpp`, `DecLib.cpp` | a dozen flags in two objects, picture list, POCs | one turn of `decode`, `xDecodeSlice`, `finishPicture`, output | flags that must agree at EOS, skipped pictures, end of file. Each picture finished once, whole, output once and in order | DecoderLoop |
| Reference pictures and buffer: `Slice.cpp`, `DecLib.cpp:541`, `EncLib.cpp:946` | marking, list order, buffers in use | marking by lists, `xGetRefPic`, taking a buffer | a buffer is taken before the marking; the wrong picture of the same POC. What is referred to is there, and is the one that was meant | EncoderGop, DecoderLoop |
| Encoder queue and GOP: `encmain.cpp`, `EncApp.cpp`, `EncLib.cpp`, `EncGOP.cpp`, GOP checks of `EncAppCfg.cpp` | queue of frames, counts of frames received, coded, left; lists of the GOP and of its start | `encodePrep`, `encode`, `compressGOP` per picture | coding order against input order, last incomplete GOP, end of file, pictures near an IRAP. Each frame coded once, with references that are there; it ends | ReferenceStructure, EncoderGop |
| Parameter sets: `ParameterSetManager.h`, `Slice.cpp` | maps of sets, changed flags, the last active one | store, activate | a set replaced while pictures point to it | - |
| Rate control: `RateCtrl.cpp` | bits left per level | initialise and update picture, CTU | budgets below zero | - |
| Mode control: `EncModeCtrl.cpp` | a stack of modes with facts about earlier results | `tryMode`, `useModeResult` | early termination by results of other modes | - (best result: PartitionSearch) |
| Prediction of partitions: `PartitionPrediction.cpp`, `PartitionUtils.cpp` | probability vectors down the recursion | inference, thresholds | floating point in an external library | - |
| Coding structures: `CodingStructure.cpp`, `Unit.cpp`, `UnitTools.cpp` | unit lists and maps, history of motion candidates | add, copy, look up | copies between levels of the search | - |
| Quantization: `Quant.cpp`, `QuantRDOQ.cpp`, `DepQuant.cpp` | trellis states | decide levels | decoder repeats the state machine | - |
| CU syntax: `CABACWriter.cpp`, `CABACReader.cpp` | - | one pair of functions per element | mirrored conditions | - (split flags: QtbtPartitioner) |
| Header syntax and SEI: `VLCWriter.cpp`, `VLCReader.cpp`, `SEI*.cpp` | - | one pair of functions per structure | mirrored conditions | - (entry points: SliceData) |
| Prediction, transforms, distortion; in-loop filters; motion search; hash search; decoder reconstruction | samples | - | numeric | - |
| Cache model `CacheModel.cpp`; tools `App/*`; HRD, levels, MCTS; configuration, YUV files, tracing, MD5, SIMD; training scripts | - | - | - | - |

`PROJECT.json` lists the same components with their files, and the hazards of each
at its line.

## 2 The modules and the code

`PROJECT.json` maps every definition to its lines. This is how to read the models.

**PartitionStream.** Two runs over one file, stepping by `PartitionManager::write`
(one value and a flush) and by `load_ctu`. `plan` is what the configuration decides
for both: dual tree, chroma format, which CTUs are intra. `Compress` is the end of
a CTU in `encodeCtus`, which hands one record, or two for an intra CTU, to
`store_ctu`; `Stop` ends the writing run between any two values. A value that cannot
be read is 0, the `calloc` of `read`. A matrix has `NumCells` cells instead of
128x128; no cell depends on another here.

**PartitionSearch.** A frame of `stack` is one `xCompressCU`. Costs are numbers,
`Max` is `MAX_DOUBLE`; which costs a CU has and which splits are left out
(`SkipSplit`: `tryMode`, the CNN, the estimate before `splitCurrArea`) are open, in a
storing run and in a reading one. A reading run tests the split of the node under the
cursor and, at a leaf, the modes without split (`Testable`, `NoSplitCosts`), if its mode
control lets it: `tryMode` asks the partitioner (`canSplit`, under the limits of a
configuration that may not be the one that stored the tree), the fast decisions (content
based QTBT, skips by earlier results) and, at CTU level, the QP adaptation;
`xCheckModeSplit` has an estimate of its own. So it may refuse the only split the node
allows, or find no mode for a leaf; then `refused` is set and the CU, and the CU around
it, have no coding. The program then reads the first CU of an empty coding structure
(`EncCu.cpp:1184`), throws for a quad split (`EncCu.cpp:1698`), or ends in "No possible
encoding found" (`compressCtu`, `EncCu.cpp:416`); the model goes on, so that what a run
codes that gets past all this is judged too. ETM_INTRA is the exception: with the colour
transform and no dual tree (`EncCu.cpp:1046`) it is tested whatever the node says, which
`ColorTransform` switches on; `overruled` is set when that succeeds where the loaded
tree splits. The other test of intra modes outside the guard (`EncCu.cpp:1082`) is for
storing runs and for the chroma CU of a local dual tree (`get_chroma_stop`). This CU is
searched after the luma parts (`EncCu.cpp:1850`), without splits
(`UnitPartitioner.cpp:393`), and added to the split they belong to: it is no candidate
against a split of the node, and is left out. A sum of parts that exceeds `bestCS`
(`TooDear`) ends a split only in a region constrained to intra modes; the second round
is one, the first may lie in one, so there it is open.
`coded` is `bestCS`, `temp` the cost and leaves of the temporary trees, `StoredTree`
the choice at `EncCu.cpp:1209`. `loaded` is `NoFile` in a storing run. `tied` is set
when two candidates cost the same: the two answers then use different tie rules and
may differ.

**PartitionTree** and **PartitionMatrix.** The node heap for one CTU: `TrySplit` makes a
temporary root with leaves and descends, `Return` ends a CU, with any of the temporary trees
(or none) as the winner, deletes all of them, and is back in the caller, which goes to a
later leaf or leaves its split (`Resume`). `Transfer` is `transfer_leaves` with its two
rebuilds. The recursions of the code over the leaves are done a generation at a time
(`OneDown`, `Descend`), which gives what they give because each visits a node from its
parent. PartitionMatrix adds the matrix: `ArrayStore` and `Load` are `array_store` and the
recursion of `split_from_depth`; `Group` is the 3-bit field arithmetic.

**QtbtPartitioner.** `Split`, `CodeCu`, `NextPart`, `Finish` and `Abandon` are what
a user of the partitioner may do next; `Abandon` leaves a split at any part, as the
search does. `CanSplit`, `CanNo` and `Implicit` are `canSplit` and
`getImplicitSplit`, `SplitFlags` and `ReadSplit` the flags of `split_cu_mode` in
writer and reader. `saved` is a ghost: what counters, group and coverage were when
the level was entered.

**Cabac.** The registers of encoder and decoder with their widths, the two-rate
context models, bypass strings in chunks of eight, remainders with their escape, the
terminating bins and `finish`. A sub-stream is encoded symbol by symbol, ended, and
decoded. **BinChannel** is what it promises: symbols are received in order, each
once, after the sub-stream was closed. `ReadsBack` is `Channel!Spec`, the refinement
of BinChannel under `sent <- coded`, `closed <- phase # "encode"`.

**NalUnit** and **SliceData.** NalUnit writes header and RBSP bytes through the
emulation prevention of `writeNaluContent`, may append zero words, and reads back one
pass of the loop of `convertPayloadToRBSP` at a time. `place` is a ghost: where each
byte of the payload went. SliceData extends it: the payload has parts (slice header
and sub-streams), the encoder computes sizes from each part alone
(`countStartCodeEmulations`), the decoder corrects them with the locations the reader
recorded and cuts. Its next-state relation contains the steps of NalUnit, also for
units that have no parts, so one run checks both.

**CabacZeroWords.** One picture, slice by slice, with `cabac_zero_word_padding`
behind the last slice of each sub-picture and behind the picture; arithmetic modulo
`SizeT`. A padding that cannot be allocated ends in `"failed"`.

**AnnexB.** The file is written, then read by `decode`, `isNewPicture` or
`isNewAccessUnit` one byte step at a time. `in` has the file position, the bytes held
back by `peekBytes` and `eofbit`. When a look-ahead stops is open. What
`byteStreamNALUnit` returns is left out: none of these callers looks at it.

**PictureLayout** and **SliceCtus.** PictureLayout computes tile boundaries and the CTUs
of raster-scan, rectangular and subpicture slices from explicit sizes, and counts
sub-streams as the three places in the code do. SliceCtus runs three passes over one
picture, a CTU at a time: `Estimate` (`encodeCtus`), `WriteCtu` (`encodeSlice`), `ReadCtu`
(`decompressSlice`). Context models, palette and motion candidates are represented by the
sequence of CTUs that went into them since they were reset; two of them agree exactly if
those sequences do. A CTU is one coding unit and one quantization group, with a residual
and a QP or with neither. Slices use motion candidates.

**ReferenceStructure** and **EncoderGop.** ReferenceStructure is the arithmetic of
`xCheckParameter` and `xInitRPL` on a GOP: the extra entries for pictures at the start of a
sequence (`NewRefs`, `ExtraEntry`), the limits of the picture buffer, and which list a
picture takes (`ListIndex`). EncoderGop has `encmain`'s two loops: `EncodePrep` reads one
frame, `EncodePicture` is one turn of `compressGOP` (POC, type, decoding refresh, lists as
configured or from what is available, marking, coding, and the reconstruction that is
handed out), `EncodeBeyondEnd` the turn for a picture that the last GOP does not have.
`sent` has the coded pictures; its `seen` and `entries` are what each could see in the
buffer, for the properties.

**DecoderLoop.** One action per kind of turn of the loop: `TurnNewPicture` (nothing
is read, the picture ends), `TurnRead` (a unit is read, received or skipped, decoded,
and EOS or end of file end the picture), `Finish`. `d` has the flags of `DecApp` and
`DecLib`, `dpb` the picture list, `m_iPOCLastDisplay` and, as ghosts, what was
written and finished. It takes units in their order, which AnnexB shows the reader
delivers under `LookAheadFresh`, a property of this module. A slice carries the POC's low
bits, the distances its lists keep, and for the properties the picture each entry means.
One layer, frames, no `-s`.

**EncodeDecode** composes the two: when the encoder is done, a decoder is started at any
IRAP picture of what was `sent`, with any `-t`, on the NAL units and the limits that the
encoder writes.

Between the models: QtbtPartitioner's `MttFits` is the assumption
`3 * MaxMttDepth <= MttDataSize` of PartitionTree; Cabac's sub-streams are the parts
of SliceData (non-empty, ending in a stop bit); NalUnit's `NoStartCode` is the
assumption on `Units` of AnnexB; SliceCtus writes into the sub-streams that SliceData
joins and cuts, in the number PictureLayout gives.

## 3 The runs

Liveness is checked where the code could go on for ever: `Ends` of `encode_decode` says that
the encoder comes to its end. It assumes weak fairness of the encoder's steps together
(`WF_codecVars(Encode)`), which is what one thread that never waits gives: as long as some
step can be taken, one is. Which step it is the state decides, so nothing is assumed of
a choice. The decoder needs no fairness: each of its turns reads a unit or is followed by
one that does, so it ends if it never gets stuck, and that is the deadlock check of
`encode_decode`, in which the only stuttering steps are those of `Stopped`. In the other
runs a finished run (both files read, CTU done, picture written) has no next step and
their configurations set `CHECK_DEADLOCK FALSE`; `NeverStuck`, `LookAheadFresh` and the
`AtEnd`/`done` parts of the properties say what an early stop would break.

| Run | Instance | States | Shows |
|---|---|---|---|
| `partition_stream` | 2 CTUs, 2 cells with values 0 and 1, 2 motion hints, plans on which the two runs agree | 32 192 | complete records are loaded for the right CTU and channel, a cut file gives unsplit CTUs |
| `partition_stream_single_tree` | the same with a single tree in intra slices | - | violation, section 5 |
| `partition_search` | two split kinds of two parts, two nested splits, costs 1 and 4 (or no mode); one storing run, and a reading run for each of the 19 trees of these splits, with every choice of refusals and the colour transform on | 1 048 689 | what is stored is what is coded; a coded CTU has the loaded partition, and only a refusal leaves it uncoded |
| `partition_tree` | CTU of 8, parts down to 1, MTT depth 3 with the real 18-bit field, 4 splits tried | 142 182 | nothing dangles or leaks, values follow transfers, the matrix decodes to the tree |
| `qtbt_partitioner` | CTU of 128, pictures ending at 128x56 and 120x88 in it; inter, intra luma and intra chroma constraints | 145 039 | counters and group restored by every exit, MTT depth fits the file, each sample coded once, always a choice, flags decode |
| `cabac` | 2 context models of different rates, 3 bypass strings, 5 remainders, 4 symbols | 375 813 | refines BinChannel, carries fit, decoder ends on the stop bit, bit estimates exact |
| `slice_data` | 9 bytes of 0, 3 and 4 with the header, 2 headers, 2 zero words, 3 sub-streams | 3 569 730 | NAL units read back and hold no start code; sub-streams cut right |
| `annex_b` | 3 NAL units of 3 shapes, both start codes, up to 2 zero bytes before | 227 862 | units are read once each and in order with look-aheads at every place |
| `slice_ctus` | 6 layouts of 6 CTUs, one to four tiles and one to three slices, wavefronts and entry points on and off, up to 2 CTUs with a residual and QP -12, 20 or 63 | 53 592 | context models, palette, candidates and QP agree; as many sub-streams as announced |
| `decoder` | 5450 streams, see below; reorder 2, buffer of 3, 4 bits of POC | 64 469 | pictures finished whole, in decoding order and once, output once and in order, none lost, references kept |
| `encode_decode` | 184 configurations, see below; each IRAP picture, each `-t` | 41 175 | references are there when they are coded and when they are decoded; each frame coded and delivered once; the encoder ends |
| `cabac_zero_words` | slices of 5, 21, 63 bins in 1, 2, 8 bytes; 130 bins and 11 bytes in all | 240 734 | no zero word too many (that there are enough is proved) |

Why the bounds are enough:

* *Stream*: a second CTU is where a wrong number of records shows; two cells make a
  record that can be cut inside and between its values. The theorems cover the rest.
* *Search*: a losing inner split below a winning outer one, and the reverse, need two
  levels; two parts are enough for a part that fails after one that succeeded. Costs 1
  and 4 with split cost 1 make "not split", "split" and "split of split" each win.
  Two kinds are enough for a tree to win over another. More kinds only add parts. The run
  gives each split one round; that a replay of two rounds follows too is proved.
* *Tree*: four tries give a transfer into a tree that is itself transferred, with
  siblings, at all MTT depths.
* *Partitioner*: the two pictures cut the CTU at heights and widths that need quad,
  binary and repeated implicit splits; 128 is the only size at which `MAX_TB_SIZEY`
  matters. Depths are not bounded by the model.
* *Cabac*: the strings and remainders are those at which chunks, the escape and its
  limit of 32 bins change; the strings of ones drive `low` to a carry through
  held-back bytes within four symbols. The theorems cover every length.
* *NAL units and slices*: byte values matter only as 0, up to 3, and above. Five bytes
  of a sub-stream are the least in which one escaped place begins in another; two
  sub-streams before the last one give an offset that depends on a corrected one.
  Bytes 1 and 2 differ from 3 only in the check for start codes, which the theorems
  settle for all bytes. The type of NalUnit, as that of PartitionStream, is proved
  (section 4) and in no run.
* *Byte stream*: a look-ahead over two units needs three; the units end in 1 and 3, hold
  an escaped zero pair and begin with zero or not. Two zero bytes in front are the
  case of a long start code that is also a trailing zero.
* *Zero words*: the bins per byte are below and far above the threshold, sums cross it
  in both directions.

The streams of `decoder` are of four sorts (`MCDecoderLoop`, `MCDecoderOrder`). All
conforming sequences of five one-slice pictures with POCs 0..3 counted from just below a
wrap of the low bits: IDR, CRA, RASL and trailing pictures in every decoding order, every
choice of kept references; conforming means that no more pictures precede than may be
reordered and that the buffer has room for what is referenced or waits. Three pictures, in
seven patterns with EOS, EOB, CRA and RASL, each coded in four ways (AUD, parameter sets,
prefix and suffix units, picture header in the slice or in a unit of its own, one or two
slices). Four patterns with a picture of a layer above `-t 0` at each place. And sequences
that begin with a CRA picture behind an EOS, with low bits or POCs that the sequence before
has reached, and two in which a skipped RASL picture comes last, in the file or before an EOS.
Section 5 lists the patterns that are left out, or excepted in the properties
by name, because the program is wrong about them.

The configurations of `encode_decode` (`MCEncodeDecode`) are those of `cfg/`: random access
with 16 pictures and period 32 over 70 frames (two whole periods and an incomplete one),
low delay B and P with 8, intra; and GOPs of 4 in both manners, small enough for every
number of frames 1..22, which ends in each place of five GOPs, files that end before the
frames do, periods of one, two and four GOPs, CRA and IDR refresh, and
`EfficientFieldIRAPEnabled` on and off. An encoder run has no choices but the configuration; the
decoder's start and `-t` are the choices of this run.

*CTU loops*: six CTUs are enough for two rows behind the first in a tile two CTUs wide, a
slice that begins inside a tile, tiles inside a slice, and a CTU above in another slice or
tile. The QPs are the ends of the range, between which a difference goes round, and the
slice's neighbour; `DeltaReadsBack` settles the arithmetic for all.

Every property of a passing run has a mutant in `PROJECT.json`: a slip in a mapped
definition (the operators marked "A slip") under which the run finds it violated.

## 4 What is proved

| Module | Theorem | For every |
|---|---|---|
| Partition_proofs (PartitionStream) | `StreamTypeOK`, `LoadedIsStoredHolds`, `TornTailHolds` | number of CTUs and cells, point where the writer stops |
| Partition_proofs (PartitionTree) | `TreeInvariant`, `OwnedHolds`, `RebuiltHolds` | CTU size, minimal size, MTT depth, number and order of the splits tried, winners |
| PartitionSearch_proofs | `SearchTyped`, `StoredIsCodedHolds`, `ReplayFollowsHolds`, `NeverOverruled` | set of split kinds, order in which they are tried, costs, depth |
| QtbtPartitioner_proofs | `PartitionerInvariant`, `ExitRestoresHolds`, `CodedOnceHolds`, `NeverStuckHolds`, `FlagsDecodeHolds`, `MttFitsHolds` | CTU size, picture border, minimal and maximal sizes and depths, order of splits and exits |
| Cabac_proofs | `EncoderTyped`, `CarryAlwaysFits`, `EstimateAlwaysExact`, `InsideStreamHolds`, `ReadsBackHolds` | alphabet of context models, strings and remainders, length of the sub-stream |
| SliceData_proofs (NalUnit) | `NalInvariant`, `NalTyped`, `NoStartCodeHolds`, `AcceptedHolds`, `ReadsBackHolds`, `LocationsExactHolds` | set of bytes, headers, length, number of zero words |
| SliceData_proofs (SliceData) | `SlicesAreNalUnits`, `SliceInvariant`, `EntryPointsExactHolds`, `SubstreamsMatchHolds` | the same, and every cut of the payload into parts |
| AnnexB_proofs | `AnnexBInvariant`, `ReadInOrderHolds` | NAL units without a start code, number of them, zero bytes before each, look-aheads |
| Pictures_proofs (EncoderGop) | `EncoderInvariant`, `FramesCodedOnceHolds` | GOP, intra period, refresh, `FramesToBeEncoded`, length of the file |
| Pictures_proofs (DecoderLoop) | `LoopInvariant`, `LookAheadFreshHolds`, `NeverRefusedHolds`, `PicturesInvariant`, `FinishedWholeHolds` | stream that keeps `StreamAssumption`, layer up to which it is decoded |
| Pictures_proofs (CabacZeroWords) | `PaddingInvariant`, `BinsBoundedHolds`, `SubpicsBoundedHolds`, `AsRequiredHolds` | slices, sub-pictures, raw bits |
| SliceCtus_proofs | `DeltaReadsBack`, `SliceCtusInvariant`, `ContextsAgreeHolds`, `PredictorsAgreeHolds`, `QpReceivedHolds`, `SubstreamsReadHolds` | picture size, tiles, slices, wavefronts, entry points, range of QPs |

*PartitionStream.* Under `Agreement` (every intra CTU is coded with a dual tree and has
chroma, the condition whose absence is the violation of section 5). The property says
nothing of where things are in the file, so it is not inductive; the invariant adds
that records follow each other without gap in the reader's order (`Chained`,
`Disjoint`), that the writer stands at the value it is to write (`WriterAt`), that the
file holds the written values (`Written`), and that the reader is at the start of the
record with the number of records it has loaded. `LoadCtu` then reads `Written`.
For `TornTail` one more part is needed, `PastEnd`: once the reader has gone beyond the
record the writer died in, it stands behind the end of the file, for good.

*PartitionTree.* `Owned` and `Rebuilt` speak of the trees; that a transfer keeps them
depends on where the search is in them, so `TreeInv` has both. The open trees are trees
(`Forest`): each node hangs under one node, which is larger, so a way down a tree is no
longer than `MaxDepth` and everything below a node is on one of the levels that `Descend`
goes through, once (`LevelsDisjoint`). A rebuild therefore computes each node from a parent
that is rebuilt already, and nothing else changes. The quad branch of `rebuild_depths` leaves
the binary and ternary depths alone (`PartitionTree.cpp:561`), which is right only because a
part of a quad split has none, wherever it hangs (`QuadsFirst`): the partitioner allows no
quad split below a binary or ternary one. Each frame of `xCompressCU` stands at the leaf its caller has
come to, in a node without leaves, so that a transfer overwrites nothing, and no temporary
tree belongs to two frames (`StackFits`). `Delete` then removes whole trees and leaves the
others as they are. Assumed is `TreeAssumption`: sizes and depths are positive, and the MTT
depths fit the value (`MttFits` of the partitioner).

*PartitionSearch.* `StoredIsCoded` speaks of a CU that ends, so the invariant says it of
each frame that is still open (`Sound`): what is coded with the best cost so far is no
split, or the temporary tree of the only kind that has this cost; no kind has a lower one,
and those not tried yet have none. A run that is `tied` is excepted, as in the property. It needs `Rounds = {1}`: with the second round of a local dual tree it is
false, which TLC shows and section 5 explains. `ReplayFollows` is about a whole path: the
frames of the stack follow the nodes of the loaded tree from its root (`Along`), each with
its one kind left to try, being tried, or tried (`Follows`); then it is coded as its node,
or something has been refused and it has no coding (`Copied`, whose `lost` is that a refusal has
happened). A refusal may come at any time and stays, so a step keeps the invariant
with what `refused` is after it (`AlongStill`). Nothing is said of a CTU that is `overruled`,
which without the colour transform none is (`NeverOverruled`). Assumed there: the tree was
written by a run of the same depth (`TreesOf`; what a shallower search does with a deeper
tree is another question), and no sum of costs reaches `MAX_DOUBLE` (`Budget`), for a
split that costs that much is not taken. MCPartitionSearch checks on its instance that
such a budget exists. That frames are what they are takes the type, which has to be a
set: the trees found so far, which `SearchTyped` shows to be one.

*QtbtPartitioner.* The invariant is `Path`: each level of the stack is a part of the level
below, the counters follow from the saved ones, the group begins with it or is the one
saved, the samples coded are those saved plus the parts passed (`Linked`); and the
counters are the ones the split chain to this area gives (`Placed`). What makes the last
part hold is geometry: quad splits give squares on a grid of eight, as the picture's
size is (`PartitionerAssumption`); an area of a binary split that is cut by the picture's
border was reached from there by implicit binary splits (`Chain`), one of a ternary split
is never cut. `CodedOnce` and `ExitRestores` follow at the top of the path.
`MttFits` has two hypotheses, `MaxMTTHierarchyDepth` at most 3 and `MinQTSize` at most 8,
the defaults of `EncAppCfg.cpp:878`: with deeper trees the field of the `.dat` file is
too small, and the program does not check it. `FlagsDecode` and `NeverStuck` hold in each
state by itself.

*Cabac.* `CarryFits` is inductive with the types: the interval of the encoder never
reaches past the bytes that may still change. The proof bounds the multiplication
that gives the LPS range, shows that renormalisation restores 256..510, and that
`writeOut` hands at most one carry to a byte held back below 255. `EstimateExact` is the
arithmetic of the two prefixes: what `xWriteCoefRemainExGolomb` writes, escape and limit
included, has as many bins as the estimate of the search charges.

`ReadsBackHolds` is the refinement of BinChannel: what the decoder returns is what was
encoded, in order, for every sub-stream. The two sides share no state but the bytes, and a
carry may still change those when a symbol is encoded, so the invariant is about the
number that the bytes of the closed sub-stream are:

* A symbol selects an interval inside the one before (`Moves`), with the arithmetic of the
  tables in one place for both sides. What the encoder has written and holds back is the
  lower end of its interval, whatever carry is to come (`Worth`, `Codes`, `Wrote`): a
  ghost sequence of intervals, rescaled when a byte's worth of precision is added.
* `Finish` makes a number of the last interval, with the stop bit and zeros behind it, so
  it lies in every earlier one (`Message`).
* The value register of the decoder is that number, as far as it has been read, less the
  lower end of the interval of the symbols received (`Stands`). A comparison of a reader
  is then a question in which part of its interval the number lies. The chunks of a
  bypass string and the unary prefix of a remainder, each a recursive function, are
  followed bin by bin (`Reading`, `PrefixEnded`).
* `CodecInv` says the first while encoding, the others while decoding. `InsideStream`
  follows: the number ends at the stop bit, so the last refill takes the last byte
  (`StopsAtEnd`). `ChannelStep` maps each step to one of BinChannel.

Assumed of the constants is `CabacAssumption`: the second rate is at most 9 (the check in
`setLog2WindowSize`), a bypass string has no bits beyond its number of bins, a remainder is
at most two to its dynamic range, and cutoff and range leave at least one bin of 32 for the
prefix. The callers give 5 unary bins with a range of 15 to 22, or none with 17
(`CABACWriter.cpp`). That the suffix of a remainder then fits its bins, the escape at the
limit included, is proved (`RemainderPieces`).

*NalUnit.* What the writer inserts depends only on the two bytes before it.
`Chain(nal, place, rbsp)` says that each byte of the payload stands right behind the
one before, or one further behind an inserted 3, exactly when two zero bytes and a byte
up to 3 ask for it; that determines the unit. The reader follows the same chain
(`Reads`): after each pass its payload is the data of a prefix of places. No start code
(`Windows`), acceptance, the payload and the locations follow. Assumed:
`NalAssumption`, bytes are 0..255 and `nuh_temporal_id_plus1` is not 0.

*SliceData.* `SlicesAreNalUnits` is the refinement: every step of SliceData is one of
NalUnit or leaves its variables alone, so NalUnit's invariant holds here too. The rest
is that the encoder's count of escapes in a part taken alone (`countStartCodeEmulations`)
is the number of 3s inserted inside it, because a part ends in a byte that is not zero
and so no escape reaches across; and that the decoder's sum over the recorded locations
takes exactly those away again. Assumed: `PartsAssumption`, sizes are below 2^30, as
their 31 bits in the header need.

*AnnexB.* `Laid(file, units, st, en)` is the layout of the file: unit `k` in the bytes
between `st[k]` and `en[k]`, zero bytes and a one before. `Reads` says for each stage of
the reader where it is relative to that layout: before the start code of the next unit
with up to four bytes held back (`Standing`), inside it, behind it, and, for a look-ahead,
that the place it seeks back to lies before the unit read next (`Ahead`, `Behind`), which
is the delicate part: `isNewPicture` goes back three bytes by guess. Assumed of the
units, `UnitsAssumption`: they hold no start code and do not end in 0. For those of
NalUnit `NoStartCodeHolds` proves it.

*CabacZeroWords.* `Target` is the least number of bytes that conforms (`TargetLeast`,
the rounding up), an unsigned difference that is -1 or -2 comes back when 2 is added
(`Wraps`). The invariant counts: words inserted so far never exceed the bins, `sum +
sub.bins <= pic.bins`, which keeps the differences above `-SizeT`, and `padded` is
three times `sum` until the picture ends. Assumed: the scale is 32 or 36 (its two
values in the code) and `SizeT > 6 * MaxBins + 100`.

*SliceCtus.* `DeltaReadsBack`: the delta is taken the shorter way round a range whose size may
be odd and whose lower end is below zero; the remainder of a number below three ranges is
settled by cases (`RemainderInRanges`). The invariant tells of every place of every slice
what each predictor has been through there (`Carried`: nothing behind a restart, the CTU
above's where wavefronts take that over, the place before's otherwise) and says that the
pass which stands there, and the copy it keeps for the row below, hold just that (`Holds`);
with `SearchOk`, `WriteOk` and `ReadOk` for the three passes. What was written is found
again because place `i` is item `Within(i)` of sub-stream `Sub(i)` in both passes, in one
piece or cut at the entry points. The number of sub-streams (`SubsCounted`) is the count of
three loops with three conditions, which agree because a slice goes on in one of three
ways (`GoesOn`); that it does not exceed the bitstreams allocated (`SubsBounded`) is an
injection into rows and columns of tiles. Assumed of a layout, `LayoutAssumption`: the maps
of `initTiles` cover the picture (`InTiles`), `checkSliceMap` found each CTU in one slice
once, and slices are built of whole rows of a tile (`WholeRows`), as `addCtusToSlice` and
its callers do; TLC evaluates it for the layouts that the slice maps of PictureLayout give.

*EncoderGop.* `FramesCodedOnce` is about what was sent and handed out, and depends on where
the loop stands. `EncoderInv` says for each phase what there is: while frames are read, the
pictures of the GOPs before (`Preparing`); while a GOP is coded, those and, of the entries
behind which the turn stands, the ones it has frames for (`CodedOf`), with their
reconstructions at their places in the ring of the last `GOPSize` buffers (`RingHolds`); at
the end, all. `Queued` ties the frames of a GOP to those received: a full GOP, the first
picture alone, or what is left when the file or `FramesToBeEncoded` ends. The turn that
completes a GOP hands out the ring's last entries, which are then in output order. Nothing of
the lists of references is needed. Assumed, `Permutes` of `ConfigurationAssumption`: the
entries of a GOP are its pictures, each once. `xCheckParameter` (`EncAppCfg.cpp:2969`)
counts the entries it has verified and does not compare their POCs; a GOP with a POC twice
would leave a frame uncoded.

*DecoderLoop.* Whether the loop may look ahead depends on flags that were set turns before,
and whether it does on the units to come. `LoopInv` relates the two. While a picture is
decoded, the unit read last is of a layer that is decoded and nothing was skipped
(`Steady`), so the turn that ends the picture is followed by one that reads. A unit that was
skipped leaves its mark until the next slice that is not (`Skipping`). Behind an EOS the look-ahead
is armed, and what comes is another EOS, an EOB or a new picture (`Ending`), which is why the
check at `DecApp.cpp:237` does not throw. And a slice that was seen began a sequence
(`Begun`), so an EOS always has a picture to end. The proof goes through the turn in the
order of the code: sequence, skip, header, decoding, end, output, each a lemma about the
flags.

`FinishedWhole` relates what was finished to the whole stream, so it needs to be known which
slices the picture in progress has. `PicturesInv` says so at each unit: the slices noted for
it are those of its picture that were read, and no new picture was told since its first one
(`Gathering`); a picture that is finished, and may be finished again, is whole (`Complete`);
no finished picture is behind the one in `m_pcPic` (`EndedWhole`, `Known`). The look-ahead
then gives it one half: where it tells a new picture, no picture has slices on both sides
(`Boundary`), and where it does not, the next slice is of the picture in progress, so that it
is neither given up nor begun anew. The other half is skipping, which
`isRandomAccessSkipPicture` decides for each slice from the random access point and the POC
of the last picture of layer 0, both of which slices may change. `Alike` says that the
later slices of a picture are skipped exactly if it is not the one in progress;
`SkippedAlike` shows that what a slice changes never turns the decision for the next slice of its
picture: a RASL slice does not count for that POC, and only an IDR or CRA slice sets the
random access point, for which the POC is not asked.

Assumed, `StreamAssumption`, is what `Sequential` and `InPictures` say of the units. The first
slice is of an IRAP picture and decoded; where units that are decoded are followed by one
that is not, `isNewPicture` can tell; an EOS ends a picture that is decoded, with none of its
units skipped, and behind it or an EOB comes another one or a new picture. The slices of a
picture have one type, layer and POC, come with nothing between them that tells a new picture
or ends the sequence, and something does tell between two pictures. A conforming stream
keeps this but for one case, the EOS behind a skipped picture (section 5). TLC evaluates it
for all streams of the run. The streams of EncodeDecode come from the encoder, not from
`Jobs`, so these theorems are not about them.

Statements about all sequences or all sums are proved by induction through the least
element of a set of numbers (`LeastNumber`, `SetInduction`), since the induction theorems
of the library cannot be instantiated here.

Only model-checked, and why:

* `RoundTrip` of PartitionMatrix: `ValueAt`, `Load` and `Shape` go down the tree from
  several arguments and return trees; what such a recursion computes for every tree would
  take an induction over data.
* `RefsCoded`, `NeverFails` and `BufferBounded` of EncoderGop, `Delivered` and
  `ReferencesArrive` of EncodeDecode: whether the references of a GOP are there depends on
  the numbers in it. `xCheckParameter` decides that by running through the GOP again
  and again until it is verified, and the start-up entries it adds keep a number of pictures that no line
  bounds. A GOP it accepts can still fail (section 5, POC 0), so for every accepted GOP
  `RefsCoded` is false.
* `FinishedOnce`, `OutputInOrder`, `NoneLost` and `KeepsReferences` of DecoderLoop: they
  hold for streams that conform, which speaks of POCs (also of those by which RASL pictures
  are skipped), reordering and room in the buffer, and that is given by enumeration
  (`MCDecoderOrder`), not as an assumption on the constants.
* `Ends` is liveness.

## 5 Where the program differs

One run shows a violation. `partition_stream_single_tree`: `encodeCtus` stores a chroma
record for each CTU of an intra slice, `compressCtu` loads one only under a dual tree with
chroma. With `DualITree 0` the replay takes the chroma record of one CTU for the luma
partition of the next.

Behaviours that a property of a passing run names as its exception (the exception is the
exact condition, unless said otherwise: without it TLC finds the property violated in the same instance):

* `overruled` of `ReplayFollows`: with the colour transform and no dual tree, ETM_INTRA is
  tested (`EncCu.cpp:1049`, `1056`) without looking at the node, as the other branch
  (`EncCu.cpp:1078`) and the other modes do. An unsplit CU that is cheaper than the loaded
  split replaces it, or its cost makes the estimate of `xCheckModeSplit` refuse the split; the
  CTU is then not coded as `PartitionParam.h:26` says ("True : load dat file to reinject best
  partition"). The exception is a little wider than the violation: it also takes in a CTU
  where the split wins all the same.
* `FinishedAgain`: a sequence or a stream that ends with a skipped RASL picture. At the EOS
  or the end of the file the loop finishes the last decoded picture again (`DecApp.cpp:244`),
  with the output flag of the header that was parsed last; a CRA picture that waits is not
  written. An ordinary random access stream meets this when decoding starts at its last CRA
  picture, or the last one before an EOS, and only leading pictures follow.
* `Outlived`: a CRA picture behind an EOS starts with POCs of its own, but
  `m_iPOCLastDisplay` is not reset (`DecApp.cpp:485`, `609`); pictures up to the old value
  are held back until the list is flushed.
* `DropsItself`: such a CRA picture is to drop all pictures but itself, by the POC kept at
  `DecLib.cpp:2154`, which is taken before the high bits of its POC are reset
  (`DecLib.cpp:2202`): with other high bits it drops itself too.
* `Namesake`: `xGetRefPic` takes the first picture of a POC in the list; a picture of an
  earlier sequence that is still there may be in front.
* `AboveTarget`: with `-t` below the highest layer, `constructRefPicList`
  (`Slice.cpp:427`) writes to the null picture of an entry that the lists keep for later
  pictures of a higher layer. `encoder_randomaccess_vtm.cfg` has such entries (POC 32 keeps
  POC 8, of layer 1), so its streams end the decoder under `-t 0`.
* `EndsBetweenGops`: a file that ends just before a GOP and before `FramesToBeEncoded`.
  The flush of the empty queue (`EncLib.cpp:745`) reports that it needs more input, the
  application has none, and the loop at `encmain.cpp:320` never ends.
* `KeepsOldPalette`: `encodeCtus` does not reset the palette predictor for a slice that
  begins inside a tile without wavefronts; `decompressSlice` does (`DecSlice.cpp:97`).
* `FirstTile` of `QpReceived`: `encodeSlice` does not reset `m_prevQP` at a tile that begins
  inside a slice (`EncSlice.cpp:1847`); search and decoder do.

Further behaviours met while modelling, which the instances leave out or which no property
names:

* In a local dual tree a split is tried twice, inter and intra, with one temporary tree
  (`EncCu.cpp:1128`, `1949`); cost and leaves of the second round replace those of the
  first. When the first wins, the stored tree is another than the coded one. PartitionSearch has
  both rounds (`Rounds`), the run one: with `{1, 2}` TLC finds `StoredIsCoded` violated.
  `split` replaces `m_leaves` without freeing it (`PartitionTree.cpp:405`), so the leaves of
  the first round are lost; PartitionTree leaves the second round out.
* `checkThatAllRefPicsAreAvailable` (`Slice.cpp:1713`) returns the POC of a missing picture
  and 0 for none, so a missing POC 0 reads as available. A low delay GOP of 4 with
  `IntraPeriod 4` and CRA refresh, accepted by the configuration, violates `RefsCoded`.
* The only picture of a sequence behind an EOS is lost at the end of the file:
  `loopFiltered` is still TRUE (`DecApp.cpp:246`).
* A CRA picture behind an EOS is not taken for a CLVSS as the comment at `DecApp.cpp:188`
  says: `isEosPresentInPu` is reset one turn before the slice is read (`DecApp.cpp:329`).
* With `-t`, an EOS behind a skipped picture makes the loop look ahead twice without
  reading (`DecApp.cpp:261`); `isNewPicture` would then seek back too far. `StreamAssumption`
  excludes this case; it is the only legal one we know of that it excludes.
* The picture buffer grows for a stream its size is enough for, since the buffer is
  taken before the marking (`DecLib.cpp:575`, `1521`); the comment at `DecLib.cpp:578`
  blames the encoder.
* `xWriteOutput` takes its limits from the parameter set of the first picture in the list
  (`DecApp.cpp:467`), which may be of an earlier sequence.
* `byteStreamNALUnit` returns TRUE at the end of the file; its comment
  (`AnnexBread.cpp:193`) says the opposite.
* `cabac_zero_word_padding` takes the maximum of 0 and a `size_t` (`EncGOP.cpp:1261`).
  If one sub-picture was padded and the others have bytes to spare, the difference is
  below zero and a vector of nearly 2^64 bytes is asked for. The run contains these
  pictures as phase `"failed"`; the properties speak of the others.

## 6 Not modelled

* Inference and thresholds of the prediction: floating point, and the network is in an
  external library. For the search it is one more reason to skip a split, which
  `SkipSplit` covers.
* The rules by which `tryMode` leaves a mode or a split out: any may be left out at any CU,
  in a storing run and in a replay. Whether the configuration of a replay makes them refuse
  what an earlier run stored is not said; `ReplayFollows` says what a refusal leads to.
* Rate control, the mode stack of `EncModeCtrl`, the state machine of dependent quantization:
  their integers could be modelled; the decisions they make are floating point.
* Sample arithmetic (prediction, transforms, filters, reconstruction), motion search
  and distortion: no control state; correctness is numeric over large blocks.
* Syntax of headers, SEI and coding units: long pairs of mirrored functions without
  state between elements. Split flags and entry points, which depend on state, are
  modelled.
* Transform, ISP and SBT partitions, `modeType` and `TREE_C` of the partitioner; they
  only remove alternatives.
* Parameter sets as objects: `storePS` with its changed flag and the swap at
  `ParameterSetManager.h:118`. Every stream here has one content per set.
* Several layers, field pictures, `-s`, long-term and composite references, DRAP and GDR
  pictures, lost references (`xCreateLostPicture`), resolution changes, output of a forced
  picture, conformance checks that only report (`isNewAccessUnit` state, SEI MD5).
* The header of the `.dat` file and the byte order of its values; motion hints beyond
  one value.
* Tools, HRD tables, configuration, YUV input and output, tracing, MD5, SIMD, and the
  training scripts: pure input and output, or copies through the modelled readers and
  writers.

## 7 The plan

Done: the partition data of the patch (file, tree, search), the partitioner, the CTU loops
with their predictors, the path symbols -> sub-stream -> NAL unit -> file and back,
padding, the encoder's queue, GOP and lists, the loop of the decoder, and encoder and
decoder one behind the other; the theorems of section 4.

Left, in this order:

1. *ParameterSets*: `ParameterSetManager::storePS` with its changed flag and the swap
   at `ParameterSetManager.h:118`, activation in `DecLib::xActivateParameterSets`.
   Property: the sets pictures in the buffer point to stay alive, and a picture is
   output with its own. Composed with DecoderLoop's buffer.
2. Fields, long-term pictures and lost pictures in EncoderGop and DecoderLoop.
3. Dependent quantization's state machine, Exp-Golomb codes, the mode stack of EncModeCtrl
   over PartitionSearch, the budgets of rate control, parcat's POC rewriting.

Proofs to add: `FinishedOnce` of DecoderLoop, for which `PicturesInv` needs an assumption on
the POCs of RASL pictures, that says which of them are skipped; and that the slice maps of
PictureLayout are built of whole rows (`WholeRows`), which SliceCtus assumes.
