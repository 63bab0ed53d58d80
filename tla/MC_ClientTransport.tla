------------------------- MODULE MC_ClientTransport -------------------------
(* Model values for the frames of ClientTransport.                          *)
EXTENDS ClientTransport

CONSTANTS f1, f2, bad

MCFrames == {f1, f2, bad}
MCBadFrames == {bad}

(* A constructor timeout that disables the stale signal and one of two   *)
(* ticks; timeout(-1) is ignored, timeout(1) shortens it.                   *)
MCTimeoutInit == {0, 2}
MCTimeoutSet == {-1, 1}

=============================================================================
