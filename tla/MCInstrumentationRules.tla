------------------------ MODULE MCInstrumentationRules ------------------------
(***************************************************************************)
(* A small instance of InstrumentationRules for TLC.                         *)
(***************************************************************************)
EXTENDS InstrumentationRules, TLC

CONSTANTS a1, u1, r1

=============================================================================
