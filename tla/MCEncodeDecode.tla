--------------------------- MODULE MCEncodeDecode ---------------------------
(* Configurations for EncodeDecode: the random access, low delay and intra     *)
(* configurations of cfg/, the first two also with a GOP of 4 pictures.        *)
EXTENDS EncodeDecode

E(poc, tid, type, l0, a0, l1, a1) ==
  [poc |-> poc, tid |-> tid, type |-> type, l0 |-> l0, a0 |-> a0, l1 |-> l1, a1 |-> a1]

\* The lowest layer keeps a picture of the layer above, or it does not.
RandomAccess4(l0, second) ==
  <<E(4, 0, "B", l0, 2, <<4, 8>>, 2), E(2, 1, "B", <<2, second>>, 2, <<-2, 2>>, 2),
    E(1, 2, "B", <<1, -1>>, 2, <<-1, -3>>, 2), E(3, 2, "B", <<1, 3>>, 2, <<-1, 1>>, 2)>>

\* cfg/encoder_randomaccess_vtm.cfg
RandomAccess16 ==
  <<E(16, 0, "B", <<16, 32, 24>>, 2, <<16, 32>>, 2), E(8, 1, "B", <<8, 16>>, 2, <<-8, 8>>, 2),
    E(4, 2, "B", <<4, 12>>, 2, <<-4, -12>>, 2), E(2, 3, "B", <<2, 10>>, 2, <<-2, -6, -14>>, 2),
    E(1, 4, "B", <<1, -1>>, 2, <<-1, -3, -7, -15>>, 2), E(3, 4, "B", <<1, 3>>, 2, <<-1, -5, -13>>, 2),
    E(6, 3, "B", <<2, 6>>, 2, <<-2, -10>>, 2), E(5, 4, "B", <<1, 5>>, 2, <<-1, -3, -11>>, 2),
    E(7, 4, "B", <<1, 3, 7>>, 2, <<-1, -9>>, 2), E(12, 2, "B", <<4, 12>>, 2, <<-4, 4>>, 2),
    E(10, 3, "B", <<2, 10>>, 2, <<-2, -6>>, 2), E(9, 4, "B", <<1, 9>>, 2, <<-1, -3, -7>>, 2),
    E(11, 4, "B", <<1, 3, 11>>, 2, <<-1, -5>>, 2), E(14, 3, "B", <<2, 6, 14>>, 2, <<-2, 2>>, 2),
    E(13, 4, "B", <<1, 5, 13>>, 2, <<-1, -3>>, 2), E(15, 4, "B", <<1, 3, 7, 15>>, 2, <<-1, 1>>, 2)>>

\* cfg/encoder_lowdelay_vtm.cfg and cfg/encoder_lowdelay_P_vtm.cfg, whose GOP is 8.
LowDelay(size, type) ==
  LET refs(i) == <<1, IF i = 1 THEN size + 1 ELSE i, size + IF i = 1 THEN size + 1 ELSE i,
                   2 * size + IF i = 1 THEN size + 1 ELSE i>>
  IN [i \in 1..size |-> E(i, 0, type, refs(i), 4, IF type = "B" THEN refs(i) ELSE <<>>,
                          IF type = "B" THEN 4 ELSE 0)]

\* cfg/encoder_intra_vtm.cfg
AllIntra == <<E(1, 0, "B", <<>>, 4, <<>>, 0)>>

Config(gop, period, refresh, frames, file, early) ==
  [gop |-> gop, period |-> period, refresh |-> refresh, frames |-> frames, file |-> file,
   early |-> early]

Configs ==
  {Config(RandomAccess4(<<4, 8, 6>>, 4), -1, 0, f, n, TRUE) : f \in {1, 2, 7, 13, 20}, n \in {1, 3, 7, 12, 20}}
    \cup {Config(RandomAccess4(<<4, 8>>, 6), p, 1, f, 30, e) : p \in {4, 8, 16}, f \in 1..22, e \in BOOLEAN}
    \cup {Config(RandomAccess4(<<4, 8, 6>>, 4), p, 1, 22, 30, e) : p \in {4, 8}, e \in BOOLEAN}
    \cup {Config(RandomAccess4(<<4, 8, 6>>, 4), 8, 2, f, 30, e) : f \in {5, 14}, e \in BOOLEAN}
    \cup {Config(LowDelay(n, y), -1, 0, f, 60, TRUE) : n \in {4, 8}, y \in {"B", "P"}, f \in {6, 40}}
    \cup {Config(LowDelay(4, y), 8, 1, 22, 30, TRUE) : y \in {"B", "P"}}
    \cup {Config(LowDelay(4, y), 8, 2, 22, 30, e) : y \in {"B", "P"}, e \in BOOLEAN}
    \cup {Config(AllIntra, 1, 1, 5, 5, e) : e \in BOOLEAN}
    \cup {Config(RandomAccess16, 32, 1, 70, 80, e) : e \in BOOLEAN}
    \cup {Config(RandomAccess16, 32, 2, 70, 80, TRUE)}
=============================================================================
