--------------------------- MODULE MCCorePipeline ---------------------------
(***************************************************************************)
(* Constants for model-checking CorePipeline, whose runs also evaluate     *)
(* what MCEventContents assumes of tags, attributes and contexts.          *)
(***************************************************************************)
EXTENDS CorePipeline, MCEventContents

\* The crash report is processed before Rum has its scope: the order in which a
\* handler that runs too early would do harm.
CrashFirst == <<"crash", "logging", "rum">>
=============================================================================
