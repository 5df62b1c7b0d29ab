--------------------------- MODULE MCReviewWriting --------------------------
EXTENDS ReviewWriting

CONSTANTS c1, c2, c3, unknown

MCClusterMaps == {<<c1, c2, c3>>}
MCNamed == {{}, {c1, unknown}}

\* 4 is no reference of the project.
MCTexts == {<<>>, <<2>>, <<1, 2>>, <<3, 2>>, <<2, 4>>}
MCTitles == {<<>>, <<3>>, <<4>>}
=============================================================================
