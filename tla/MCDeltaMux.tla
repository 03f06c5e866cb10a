---------------------------- MODULE MCDeltaMux ----------------------------
(* Instances of the delta xDS client for model checking. *)
EXTENDS DeltaMux, TLC

CONSTANTS x, all, named

\* A watch for everything, as of CDS, and one by name, as of on-demand CDS
MCInterests == all :> {{}, {Wildcard}} @@ named :> {{x}}

\* A watch by name only, as of EDS
MCNamedInterests == named :> {{x}}
=============================================================================
