------------------------ MODULE MCSocksElectrumRelay ------------------------
(* SocksElectrumRelay on small instances. *)
EXTENDS SocksElectrumRelay

=============================================================================
