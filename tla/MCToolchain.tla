---------------------------- MODULE MCToolchain -----------------------------
(***************************************************************************)
(* The tool chain on whole programs.  The words have eight bits and the    *)
(* tables are shorter than in the build; everything else is as there.      *)
(***************************************************************************)
EXTENDS Toolchain

L == INSTANCE LazyCPrograms

MCMeant   == L!Meant \cup L!Limits
MCInputs  == {-1, 0, 2, 4}
MCAlloc   == {TRUE}
=============================================================================
