------------------------------- MODULE MCCabac -------------------------------
EXTENDS Cabac, TLC
CONSTANTS c1, c2
MCInitProb == c1 :> 1 @@ c2 :> 80
MCWindow == c1 :> 0 @@ c2 :> 5
MCStrings == {<<255, 8>>, <<1, 8>>, <<131071, 17>>}
MCRemainders == {<<4, 0, 5, 15>>, <<5, 0, 5, 15>>, <<32768, 0, 5, 15>>, <<29, 2, 5, 15>>,
                 <<131069, 1, 0, 17>>}
=============================================================================
