--------------------------- MODULE VirtualDevice ---------------------------
(***************************************************************************)
(* What the proxy promises for table entries.  Controllers see one virtual *)
(* device with one set of entries; every member target holds the part of   *)
(* it that the target's filter allows, and a step only ever brings one     *)
(* entry of one member to where it has to be.  There is no log, no RPC, no *)
(* snapshot and no call in progress here: ProxyTables has to hide them.    *)
(***************************************************************************)
CONSTANTS Targets, Configured, Entries

VARIABLES
  members,  \* the targets that make up the virtual device
  allowed,  \* the entries each member is to have, once they are inserted
  table,    \* the entries the controllers have inserted
  device    \* the entries each member has

vars == <<members, allowed, table, device>>

Wanted(t) == table \cap allowed[t]

Init ==
  /\ members = {}
  /\ allowed = [t \in Targets |-> {}]
  /\ table = {}
  /\ device = [t \in Targets |-> {}]

\* Controllers insert entries, all at once for every member.
Insert ==
  /\ \E es \in SUBSET (Entries \ table) : es # {} /\ table' = table \cup es
  /\ UNCHANGED <<members, allowed, device>>

\* A target joins with an empty table; a target leaves.
Join(t) ==
  /\ t \notin members
  /\ members' = members \cup {t}
  /\ \E es \in SUBSET Entries : allowed' = [allowed EXCEPT ![t] = es]
  /\ UNCHANGED <<table, device>>

Leave(t) ==
  /\ t \in members
  /\ members' = members \ {t}
  /\ allowed' = [allowed EXCEPT ![t] = {}]
  /\ device' = [device EXCEPT ![t] = {}]
  /\ UNCHANGED table

\* The operator widens or narrows what a member is to have.
Refilter(t) ==
  /\ t \in members
  /\ \E es \in SUBSET Entries :
       /\ allowed[t] \subseteq es \/ es \subseteq allowed[t]
       /\ allowed' = [allowed EXCEPT ![t] = es]
  /\ UNCHANGED <<members, table, device>>

Install(t, e) ==
  /\ t \in members /\ e \in Wanted(t) \ device[t]
  /\ device' = [device EXCEPT ![t] = @ \cup {e}]
  /\ UNCHANGED <<members, allowed, table>>

Withdraw(t, e) ==
  /\ t \in members /\ e \in device[t] \ Wanted(t)
  /\ device' = [device EXCEPT ![t] = @ \ {e}]
  /\ UNCHANGED <<members, allowed, table>>

\* The proxy stops, and starts over with its configured targets empty; the
\* virtual device keeps its entries.
Stop ==
  /\ members' = {}
  /\ allowed' = [t \in Targets |-> {}]
  /\ device' = [t \in Targets |-> {}]
  /\ UNCHANGED table

Begin ==
  /\ members = {} /\ members' = Configured
  /\ \E f \in [Configured -> SUBSET Entries] :
       allowed' = [t \in Targets |-> IF t \in Configured THEN f[t] ELSE {}]
  /\ UNCHANGED <<table, device>>

Next ==
  \/ Insert \/ Stop \/ Begin
  \/ \E t \in Targets : Join(t) \/ Leave(t) \/ Refilter(t)
  \/ \E t \in Targets, e \in Entries : Install(t, e) \/ Withdraw(t, e)

Spec == Init /\ [][Next]_vars

\* Nothing a member is to have is put off for ever, nor anything it is not.
FairSpec ==
  Spec /\ \A t \in Targets, e \in Entries :
            WF_vars(Install(t, e)) /\ WF_vars(Withdraw(t, e))
=============================================================================
