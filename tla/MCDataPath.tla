------------------------------- MODULE MCDataPath -------------------------------
\* A chunk is two doubles of two bytes; the decision tree uses every feature, and
\* one of its decisions is not in the compressor's table.
EXTENDS FPCRequests

Ask(mode, compressor, level) ==
  [mode |-> mode, compressor |-> compressor, level |-> level]

\* Every mode; levels by default, ignored, at the end of a range and out of it.
MCRequests ==
  {Ask("copy", "COPY", -1), Ask("auto", "COPY", -1), Ask("round robin", "COPY", -1),
   Ask("compress", "ZLIB", -1), Ask("compress", "FPC", 2),
   Ask("compress", "LZO", 0), Ask("compress", "SNAPPY", 40),
   Ask("train", "BZIP2", 9)}

Node(left, right, feature, threshold, value) ==
  [left |-> left, right |-> right, feature |-> feature, threshold |-> threshold,
   value |-> value]

MCTree ==
  <<Node(2, 5, 2, 1, 0), Node(3, 4, 1, 5, 0), Node(0, 0, 0, 0, 1),
    Node(0, 0, 0, 0, 2), Node(6, 7, 3, 5, 0), Node(0, 0, 0, 0, 3),
    Node(0, 0, 0, 0, 4)>>

MCLabels == <<<<"BZIP2", 9>>, <<"SNAPPY", -1>>, <<"COPY", -1>>, <<"LZMA", 12>>>>
===============================================================================
