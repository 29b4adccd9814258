------------------------------ MODULE MCAnnexB ------------------------------
EXTENDS AnnexB
MCUnits == {<<0, 1>>, <<0, 9, 0, 0, 3>>, <<1, 1, 0, 3>>}
=============================================================================
