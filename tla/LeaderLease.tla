----------------------------- MODULE LeaderLease -----------------------------
(***************************************************************************)
(* What the leadership election promises to the tasks that are gated by it *)
(* (src/leadership.rs): a lease which at most one instance owns, which     *)
(* changes hands only through vacancy, and which does not end while its    *)
(* owner still believes to lead.                                           *)
(***************************************************************************)
CONSTANTS Instance,  \* the instance ids that compete for one election key
          Nobody     \* the owner of a vacant lease

VARIABLES owner,     \* the instance named by the election key, or Nobody
          believers  \* the instances that take themselves for the leader

leaseVars == <<owner, believers>>

Init ==
    /\ owner = Nobody
    /\ believers = {}

\* A vacant lease is granted to one instance.
Grant(i) ==
    /\ owner = Nobody
    /\ owner' = i
    /\ UNCHANGED believers

\* The owner of the lease learns that it leads.
StepUp(i) ==
    /\ owner = i
    /\ believers' = believers \cup {i}
    /\ UNCHANGED owner

\* An instance stops leading; it may keep the lease for a while.
StepDown(i) ==
    /\ believers' = believers \ {i}
    /\ UNCHANGED owner

\* The lease ends, by expiry or by release, when nobody leads under it.
Vacate ==
    /\ believers = {}
    /\ owner' = Nobody
    /\ UNCHANGED believers

Next ==
    \/ Vacate
    \/ \E i \in Instance : Grant(i) \/ StepUp(i) \/ StepDown(i)

Spec == Init /\ [][Next]_leaseVars
==============================================================================
