------------------------ MODULE MCCommunicationDelivery ------------------------
(* CommunicationDelivery on small instances. *)
EXTENDS CommunicationDelivery, TLC

Symmetry == Permutations(Recipients) \cup Permutations(Calls) \cup Permutations(Workers)
=============================================================================
