------------------------------- MODULE FPCRequests -------------------------------
(***************************************************************************)
(* FPC at the level that a request configures.                             *)
(***************************************************************************)
EXTENDS DataPath, FPCCompressor

\* FPC gives back the doubles of a chunk, at the level that was configured and
\* whatever the buffers held before: the predictors of the two sides stay in step
\* over odd blocks, the codes' lengths and the lookahead at the next header.
FPCRestores ==
  stage = "file" /\ file = 0 /\ request.compressor = "FPC" =>
    \A input \in Inputs, dummy \in Doubles, garbage \in Doubles :
      LET stream == FPCCompressed(request.level, input, dummy)
      IN  IF FPCAccepts(stream) THEN FPCDecompressed(stream, garbage) = input
          ELSE input = <<>>
===============================================================================
