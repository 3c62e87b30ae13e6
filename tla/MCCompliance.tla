----------------------------- MODULE MCCompliance -----------------------------
(* Compliance with one requirement. *)
EXTENDS Compliance

MCVersion == {<<10>>, <<9, 9>>}
MCForm == {[type |-> "COMPLIANCE", needs |-> {"os"}, minOs |-> <<10, 0>>],
           [type |-> "CONFIGURATION", needs |-> {}, minOs |-> None]}
=============================================================================
