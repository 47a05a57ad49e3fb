---------------------------- MODULE MCRumScopes -----------------------------
(***************************************************************************)
(* Instances of RumScopes and RumCrashes for TLC.                          *)
(***************************************************************************)
EXTENDS RumCrashes, TLC

\* Keys of views and of resources are only compared, so they are symmetric.
Keys == Permutations(ViewKeys) \union Permutations(ResourceKeys)

\* The last command and its events say how a state was reached, and nothing
\* that follows depends on them: states that differ in them only are the same.
Scopes == << app, uptime, once, heard, told, here, used >>
=============================================================================
