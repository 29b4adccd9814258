-------------------------- MODULE MCCabacZeroWords --------------------------
EXTENDS CabacZeroWords

\* few and many bins for one, two and eight bytes: below and far above the threshold
SomeBins == {5, 21, 63}
SomeBytes == {1, 2, 8}

TwoTo10 == 2^10
=============================================================================
