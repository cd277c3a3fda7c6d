-------------------------- MODULE LeaseQueue_proofs -------------------------
(* What the lease queue guarantees, for every set of jobs and every bound. *)
EXTENDS LeaseQueue, TLAPS

LeaseTypeOK ==
  /\ life \in [Jobs -> Lives]
  /\ limit \in [Jobs -> 0..MaxRank]
  /\ tries \in [Jobs -> Nat]
  /\ lease \in [Jobs -> Nat \cup {None}]
  /\ issued \in Nat

(* A lease was issued, so the next one is new; a job that never entered    *)
(* was never leased.                                                       *)
LeaseIInv ==
  /\ LeaseTypeOK
  /\ LeaseSafe
  /\ \A j \in Jobs : lease[j] # None => lease[j] <= issued
  /\ \A j \in Jobs : life[j] = "absent" => tries[j] = 0

(* No two holders, no lease used twice, no job leased beyond its limit.    *)
THEOREM LeaseQueueSafe ==
  ASSUME MaxRank \in Nat, None \notin Nat
  PROVE  LeaseSpec => []LeaseSafe
  <1>1. LeaseInit => LeaseIInv
    BY DEF LeaseInit, LeaseIInv, LeaseTypeOK, LeaseSafe, Lives
  <1>2. LeaseIInv /\ [LeaseNext]_leaseVars => LeaseIInv'
    <2> SUFFICES ASSUME LeaseIInv, [LeaseNext]_leaseVars PROVE LeaseIInv'
      OBVIOUS
    <2> USE DEF LeaseIInv, LeaseTypeOK, LeaseSafe, Lives
    <2>1. CASE Enter
      <3>1. PICK S \in SUBSET {j \in Jobs : life[j] = "absent"},
                 l \in [Jobs -> 0..MaxRank] :
              /\ \A j \in Jobs \ S : l[j] = limit[j]
              /\ limit' = l
              /\ life' = [j \in Jobs |-> IF j \in S THEN "waiting" ELSE life[j]]
              /\ UNCHANGED <<tries, lease, issued>>
        BY <2>1 DEF Enter
      <3>2. \A j \in Jobs : tries[j] <= limit'[j]
        <4>1. ASSUME NEW j \in Jobs PROVE tries[j] <= l[j]
          <5>1. CASE j \in S
            <6>1. tries[j] = 0 /\ l[j] \in 0..MaxRank
              BY <5>1
            <6> QED
              BY <6>1
          <5>2. CASE j \notin S
            BY <5>2, <3>1
          <5> QED
            BY <5>1, <5>2
        <4> QED
          BY <4>1, <3>1
      <3> QED
        BY <3>1, <3>2
    <2>2. ASSUME NEW j \in Jobs, Grant(j) PROVE LeaseIInv'
      <3>1. tries[j] + 1 <= limit[j]
        BY <2>2 DEF Grant
      <3>2. LeaseTypeOK'
        BY <2>2 DEF Grant
      <3>3. LeaseSafe'
        BY <2>2, <3>1 DEF Grant
      <3> QED
        BY <2>2, <3>2, <3>3 DEF Grant
    <2>3. ASSUME NEW j \in Jobs, NEW to \in Lives, GiveUp(j, to) PROVE LeaseIInv'
      <3>1. to \in {"done", "blocked", "waiting"}
        BY <2>3 DEF GiveUp
      <3> QED
        BY <2>3, <3>1 DEF GiveUp
    <2>4. ASSUME NEW j \in Jobs, Withdraw(j) PROVE LeaseIInv'
      BY <2>4 DEF Withdraw
    <2>5. CASE UNCHANGED leaseVars
      BY <2>5 DEF leaseVars
    <2> QED
      BY <2>1, <2>2, <2>3, <2>4, <2>5 DEF LeaseNext
  <1>3. LeaseIInv => LeaseSafe
    BY DEF LeaseIInv
  <1> QED
    BY <1>1, <1>2, <1>3, PTL DEF LeaseSpec
=============================================================================
