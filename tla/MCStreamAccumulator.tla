------------------------- MODULE MCStreamAccumulator -------------------------
(* Small instances of StreamAccumulator for TLC.                            *)
EXTENDS StreamAccumulator

CONSTANTS k1, k2

MCCalls == {k1, k2}
MCNames == {"search"}
\* No arguments, an opening brace, a closing brace.
MCChunks == {<<>>, <<"{">>, <<"}">>}
MCConformantModes == {"indexed", "idOnly"}
MCStableIdModes == {"stableId"}
=============================================================================
