----------------------------- MODULE MCFileDump -----------------------------
EXTENDS FileDump, SequencesExt

\* A whole dump of an earlier writer, whose pieces are numbered from 100
OldDump(sizes) ==
  <<2 + Len(sizes), 2>> \o sizes \o [k \in 1 .. FoldLeft(+, 0, sizes) |-> 100 + k]

\* No file, a smaller dump, and larger ones with the same count of chunks and another
MCOldFiles == {<<>>, OldDump(<<2>>), OldDump(<<2, 2, 2>>), OldDump(<<2, 1, 2, 2>>)}
=============================================================================
