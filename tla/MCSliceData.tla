---------------------------- MODULE MCSliceData ----------------------------
EXTENDS SliceData

\* nuh_layer_id 0, where the header may begin a run of zero bytes up to its second
\* byte 1, and nuh_layer_id 4 with a second byte above 3
SomeHeaders == {<<0, 1>>, <<4, 129>>}
=============================================================================
