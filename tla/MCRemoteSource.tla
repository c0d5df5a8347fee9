--------------------------- MODULE MCRemoteSource ---------------------------
\* Files from empty to several blocks, and ranges inside, across and past their end.
EXTENDS RemoteSource

MCRanges == {<<0, -1>>, <<0, 0>>, <<1, 2>>, <<3, 4>>, <<7, 1>>, <<2, -1>>}
=============================================================================
