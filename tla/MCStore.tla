------------------------------ MODULE MCStore ------------------------------
(***************************************************************************)
(* Two workers and the signature timer on a store of two maps.             *)
(***************************************************************************)
EXTENDS Store

CONSTANTS m1, m2, k1, t1, t2

Op(m, get, foreach, put, remove) ==
  [map |-> m, get |-> get, foreach |-> foreach, put |-> put, remove |-> remove]

\* One worker updates a key, or iterates over the map and removes the key.  The
\* other updates the key and puts a copy into the second map, or reads both.
MCRequests ==
  [t \in {t1, t2} |->
    IF t = t1 THEN { <<Op(m1, {k1}, FALSE, {k1}, {})>>, <<Op(m1, {}, TRUE, {}, {k1})>> }
    ELSE { <<Op(m1, {k1}, FALSE, {k1}, {}), Op(m2, {}, FALSE, {k1}, {})>>,
           <<Op(m1, {k1}, FALSE, {}, {}), Op(m2, {k1}, FALSE, {}, {})>> }]

MCReceived == { [m \in {m1} |-> [k \in {k1} |-> "put"]] }

=============================================================================
