---------------------------- MODULE MCPublishedRun ----------------------------
(* One mirror, a window shorter than the stream, a mirror that may fall    *)
(* behind and be retired within it.                                        *)
EXTENDS PublishedRun
MCModes == {"run", "settled", "alone"}
=============================================================================
