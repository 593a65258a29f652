----------------------------- MODULE MCPipeline -----------------------------
(***************************************************************************)
(* The pipeline with one source for every way a make can end, and two that *)
(* get through.                                                            *)
(***************************************************************************)
EXTENDS Pipeline

CONSTANTS sound, other, refused, tooMuch, mainless, broken

MCSources    == {sound, other, refused, tooMuch, mainless, broken}
MCWithTree   == MCSources \ {broken}
MCWithMain   == MCWithTree \ {mainless}
MCTranslated == MCWithMain \ {tooMuch}
MCAssembling == MCTranslated \ {refused}
=============================================================================
