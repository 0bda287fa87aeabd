-------------------------- MODULE MCSerialUpdates --------------------------
(***************************************************************************)
(* Entries e1, e2 in tables tabA, tabB, matching on one field; two values. *)
(* t1 is named for tabA, t2 for tabB, neither has a filter;                *)
(* t3 is named for both, leaves and comes back, and its filter widens.     *)
(***************************************************************************)
EXTENDS SerialUpdates, TLC

CONSTANTS t1, t2, t3, e1, e2, v, w, tabA, tabB, addr, a, b, c1, none, noEntry

MCTableOf == (e1 :> tabA) @@ (e2 :> tabB)
MCMatch == (e1 :> (addr :> a)) @@ (e2 :> (addr :> b))
MCInitFilter == (t1 :> NoFilter) @@ (t2 :> NoFilter) @@ (t3 :> (addr :> {a}))
MCNames == (t1 :> {tabA}) @@ (t2 :> {tabB}) @@ (t3 :> {tabA, tabB})

ASSUME Lasting
=============================================================================
