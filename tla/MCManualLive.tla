----------------------------- MODULE MCManualLive -----------------------------
(* Two schemas with a transition from the first to the second; the way back  *)
(* has none.                                                                 *)
EXTENDS ManualLive

MCTransitions == {<<1, 2>>}
=============================================================================
