--------------------------- MODULE MCProxyTables ---------------------------
(***************************************************************************)
(* ProxyTables under any use: two targets and one entry, with the match    *)
(* field that filters restrict, inserted, modified and deleted at any      *)
(* time.  Also: one target whose names are empty.                          *)
(***************************************************************************)
EXTENDS ProxyTables, TLC

CONSTANTS t1, t2, e1, e2, v, tab, addr, a, c1, none, noEntry

TableOfOne == [e \in {e1} |-> tab]
MatchOfOne == [e \in {e1} |-> (addr :> a)]
MCNames == [t \in {t1, t2} |-> {tab}]
MCInitFilter == (t1 :> NoFilter) @@ (t2 :> (addr :> {a}))
NoNames == [t \in {t1} |-> {}]
InitFilterOfOne == [t \in {t1} |-> NoFilter]
=============================================================================
