----------------------------- MODULE LeaseQueue -----------------------------
(* What the job store promises to the processes around it: a queue whose   *)
(* jobs are handed out under leases.  A job is leased to one holder at a   *)
(* time, each lease is a number never used before, a job is leased at most *)
(* `limit' times, and once done it never comes back.                       *)
EXTENDS Integers, FiniteSets

CONSTANTS Jobs, MaxRank, None

VARIABLES
  life,    \* where the job is in its life
  limit,   \* how many leases it may get
  tries,   \* how many it got
  lease,   \* the lease it is held under
  issued   \* leases issued so far

leaseVars == <<life, limit, tries, lease, issued>>

Lives == {"absent", "waiting", "leased", "blocked", "done"}

LeaseInit ==
  /\ life = [j \in Jobs |-> "absent"]
  /\ limit = [j \in Jobs |-> 0]
  /\ tries = [j \in Jobs |-> 0]
  /\ lease = [j \in Jobs |-> None]
  /\ issued = 0

(* Jobs enter together or not at all, each with its own limit.             *)
Enter ==
  \E S \in SUBSET {j \in Jobs : life[j] = "absent"}, l \in [Jobs -> 0..MaxRank] :
    /\ \A j \in S : l[j] > 0
    /\ \A j \in Jobs \ S : l[j] = limit[j]
    /\ limit' = l
    /\ life' = [j \in Jobs |-> IF j \in S THEN "waiting" ELSE life[j]]
    /\ UNCHANGED <<tries, lease, issued>>

Grant(j) ==
  /\ life[j] = "waiting"
  /\ tries[j] < limit[j]
  /\ life' = [life EXCEPT ![j] = "leased"]
  /\ tries' = [tries EXCEPT ![j] = tries[j] + 1]
  /\ lease' = [lease EXCEPT ![j] = issued + 1]
  /\ issued' = issued + 1
  /\ UNCHANGED limit

(* A leased job is done, or set aside, or put back while it may be tried.  *)
GiveUp(j, to) ==
  /\ life[j] = "leased"
  /\ to \in {"done", "blocked"} \cup
            (IF tries[j] < limit[j] THEN {"waiting"} ELSE {})
  /\ life' = [life EXCEPT ![j] = to]
  /\ lease' = [lease EXCEPT ![j] = None]
  /\ UNCHANGED <<limit, tries, issued>>

Withdraw(j) ==
  /\ life[j] \in {"waiting", "blocked"}
  /\ life' = [life EXCEPT ![j] = "done"]
  /\ UNCHANGED <<limit, tries, lease, issued>>

LeaseNext ==
  \/ Enter
  \/ \E j \in Jobs : \/ Grant(j)
                     \/ \E to \in Lives : GiveUp(j, to)
                     \/ Withdraw(j)

LeaseSpec == LeaseInit /\ [][LeaseNext]_leaseVars

-----------------------------------------------------------------------------
(* A job has a lease exactly while it is leased, two jobs never share one, *)
(* and the limit on leases holds.                                          *)
LeaseSafe ==
  /\ \A j \in Jobs : (lease[j] # None) <=> (life[j] = "leased")
  /\ \A j, k \in Jobs : lease[j] # None /\ lease[j] = lease[k] => j = k
  /\ \A j \in Jobs : tries[j] <= limit[j]
=============================================================================
