------------------------ MODULE MCConcurrentInserts ------------------------
(***************************************************************************)
(* Two replicas, one configured with a filter and one added at run time;   *)
(* entries with one exact match field.                                     *)
(***************************************************************************)
EXTENDS ConcurrentInserts, TLC

CONSTANTS t1, t2, e1, e2, e3, v, tab, addr, a, b, c1, c2, none, noEntry

MCNames == [t \in {t1, t2} |-> {tab}]
MCTableOf == [e \in {e1, e2, e3} |-> tab]
MCMatch2 == (e1 :> (addr :> a)) @@ (e2 :> (addr :> b))
MCMatch3 == MCMatch2 @@ (e3 :> (addr :> b))
MCInitFilter == (t1 :> (addr :> {a, b})) @@ (t2 :> (addr :> {a}))
Symmetry == Permutations({c1, c2})
MCTableOf2 == [e \in {e1, e2} |-> tab]
=============================================================================
