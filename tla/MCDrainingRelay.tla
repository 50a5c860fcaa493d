-------------------------- MODULE MCDrainingRelay --------------------------
(* TLC instances of DrainingRelay. *)
EXTENDS DrainingRelay

=============================================================================
