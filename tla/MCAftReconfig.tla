--------------------------- MODULE MCAftReconfig ---------------------------
(* Aft in a service that grows from one node to two, or replaces it. *)
EXTENDS Aft

CONSTANTS a, b

\* Bound: the service writes signatures and reconfigurations only.
NoTx ==
  \A n \in Node : \A i \in DOMAIN node[n].ledger : node[n].ledger[i].type # "tx"

=============================================================================
