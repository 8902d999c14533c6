--------------------------- MODULE RateLimitProofs ---------------------------
(***************************************************************************)
(* The budget of an address, for all addresses and uploads, and any size   *)
(* and refill of the buckets.                                              *)
(***************************************************************************)
EXTENDS RateLimit, FiniteSetTheorems, TLAPS

\* The buckets: one for each address that was seen, and the one that a request
\* has in its hand is its address's.
Buckets ==
  /\ host \in [Uploads -> Hosts]
  /\ limiters \in [Hosts -> Uploads \cup {NoBucket}]
  /\ level \in [Uploads -> 0 .. Capacity]
  /\ DOMAIN upload = Uploads
  /\ \A h \in Hosts : limiters[h] # NoBucket => host[limiters[h]] = h
  /\ \A u \in Uploads : upload[u].pc = "ask" =>
       upload[u].bucket = limiters[host[u]] /\ limiters[host[u]] # NoBucket

\* What is left in an address's bucket.
Left(h) == IF limiters[h] = NoBucket THEN Capacity ELSE level[limiters[h]]

\* What was let through and what is left is what there was and what came.
Windows == [pc : {"shut", "open", "over"}, ticks : Nat, passed : [Hosts -> Nat]]

Accounts ==
  /\ window \in Windows
  /\ window.pc = "shut" => window.ticks = 0 /\ \A h \in Hosts : window.passed[h] = 0
  /\ window.pc = "open" =>
       \A h \in Hosts : window.passed[h] * Every + Left(h) <= Capacity + window.ticks

Budget == Buckets /\ Accounts

LEMMA CapacityIsNat == Capacity \in Nat /\ Every \in Nat /\ Every <= Capacity
  BY LimitAssumption, SMT DEF Capacity

LEMMA LeftInRange ==
  ASSUME Buckets, NEW h \in Hosts
  PROVE  Left(h) \in 0 .. Capacity
  BY CapacityIsNat DEF Buckets, Left

-----------------------------------------------------------------------------
\* A request finds its address's bucket, which it made if it was the first.
LEMMA FindKeepsBudget ==
  ASSUME Budget, NEW u \in Uploads, Find(u)
  PROVE  Budget'
<1> USE CapacityIsNat, LimitAssumption
<1> DEFINE seen == host[u]
<1>1. host' = host /\ seen \in Hosts /\ window' = window
  BY DEF Find, Budget, Buckets
<1>2. CASE limiters[seen] = NoBucket
  <2>1. limiters' = [limiters EXCEPT ![seen] = u] /\ level' = [level EXCEPT ![u] = Capacity]
    BY <1>2 DEF Find, FirstSeen, Full
  <2>2. /\ limiters'[seen] = u /\ level'[u] = Capacity
        /\ \A h \in Hosts \ {seen} : limiters'[h] = limiters[h] /\ limiters[h] # u
    BY <1>1, <2>1 DEF Budget, Buckets
  <2>3. Buckets'
    BY <1>1, <1>2, <2>1, <2>2 DEF Find, Budget, Buckets
  <2>4. \A h \in Hosts : Left(h)' = Left(h)
    BY <1>1, <1>2, <2>1, <2>2 DEF Left, Budget, Buckets
  <2> QED
    BY <1>1, <2>3, <2>4 DEF Budget, Accounts
<1>3. CASE limiters[seen] # NoBucket
  <2>1. limiters' = limiters /\ level' = level
    BY <1>3 DEF Find, FirstSeen
  <2>2. Buckets'
    BY <1>1, <1>3, <2>1 DEF Find, Budget, Buckets
  <2> QED
    BY <1>1, <2>1, <2>2 DEF Budget, Accounts, Left
<1> QED
  BY <1>2, <1>3

\* One that is let through moves a token from what is left to what is passed.
LEMMA AllowKeepsBudget ==
  ASSUME Budget, NEW u \in Uploads, Allow(u)
  PROVE  Budget'
<1> USE CapacityIsNat
<1> DEFINE b == limiters[host[u]]
<1>1. /\ upload[u].bucket = b /\ b # NoBucket /\ b \in Uploads /\ host[u] \in Hosts
      /\ host[b] = host[u]
      /\ host' = host /\ limiters' = limiters
      /\ level[b] \in 0 .. Capacity /\ level[b] >= Every
  BY DEF Allow, Budget, Buckets
<1>2. level' = [level EXCEPT ![b] = @ - Every]
  BY <1>1 DEF Allow
<1>3. Buckets'
  <2>1. level' \in [Uploads -> 0 .. Capacity]
    BY <1>1, <1>2 DEF Budget, Buckets
  <2> QED
    BY <1>1, <2>1 DEF Allow, Budget, Buckets
<1>4. \A h \in Hosts : Left(h)' = IF h = host[u] THEN Left(h) - Every ELSE Left(h)
  BY <1>1, <1>2 DEF Left, Budget, Buckets
<1>5. \A h \in Hosts : Left(h) \in Nat
  BY LeftInRange DEF Budget
<1>6. Accounts'
  <2>1. CASE ~Open
    BY <2>1 DEF Open, Allow, Budget, Accounts
  <2>2. CASE Open
    <3>1. window' = [window EXCEPT !.passed[host[u]] = @ + 1]
      BY <2>2 DEF Open, Allow
    <3>2. /\ window'.pc = window.pc /\ window'.ticks = window.ticks
          /\ window'.passed = [window.passed EXCEPT ![host[u]] = @ + 1]
      BY <3>1 DEF Budget, Accounts, Windows
    <3>3. /\ window' \in Windows
          /\ window'.passed[host[u]] = window.passed[host[u]] + 1
          /\ \A h \in Hosts \ {host[u]} : window'.passed[h] = window.passed[h]
      BY <1>1, <3>1, <3>2 DEF Budget, Accounts, Windows
    <3>4. (window.passed[host[u]] + 1) * Every = window.passed[host[u]] * Every + Every
      BY <1>1 DEF Budget, Accounts, Windows
    <3>5. ASSUME NEW h \in Hosts
          PROVE  window'.passed[h] * Every + Left(h)' <= Capacity + window'.ticks
      <4>1. window.passed[h] * Every + Left(h) <= Capacity + window.ticks
        BY <2>2 DEF Open, Budget, Accounts
      <4>2. CASE h # host[u]
        <5>1. window'.passed[h] = window.passed[h] /\ Left(h)' = Left(h)
          BY <1>4, <3>3, <4>2
        <5> QED
          BY <3>2, <4>1, <5>1
      <4>3. CASE h = host[u]
        <5>1. /\ window.passed[h] * Every \in Nat /\ Left(h) \in Nat /\ window.ticks \in Nat
          BY <1>5 DEF Budget, Accounts, Windows
        <5>2. window'.passed[h] * Every = window.passed[h] * Every + Every
          BY <3>3, <3>4, <4>3
        <5>3. Left(h)' = Left(h) - Every
          BY <1>4, <4>3
        <5> QED
          BY <3>2, <4>1, <5>1, <5>2, <5>3
      <4> QED
        BY <4>2, <4>3
    <3> QED
      BY <2>2, <3>2, <3>3, <3>5 DEF Open, Accounts
  <2> QED
    BY <2>1, <2>2
<1> QED
  BY <1>3, <1>6 DEF Budget

\* A tick adds one to what is left, at most, and one to what came.
LEMMA TickKeepsBudget ==
  ASSUME Budget, Tick
  PROVE  Budget'
<1> USE CapacityIsNat
<1>1. Buckets'
  BY DEF Tick, Budget, Buckets
<1>2. ASSUME NEW h \in Hosts
      PROVE  Left(h)' \in Nat /\ Left(h)' <= Left(h) + 1 /\ Left(h) \in Nat
  BY LeftInRange DEF Tick, Left, Budget, Buckets
<1>3. Accounts'
  <2>1. CASE ~Open
    BY <2>1 DEF Open, Tick, Budget, Accounts
  <2>2. CASE Open /\ ~(window.ticks < Window)
    <3>1. window' \in Windows /\ window'.pc = "over"
      BY <2>2 DEF Open, Tick, Budget, Accounts, Windows
    <3> QED
      BY <3>1 DEF Accounts
  <2>3. CASE Open /\ window.ticks < Window
    <3>1. /\ window' \in Windows
          /\ window'.pc = "open" /\ window'.ticks = window.ticks + 1
          /\ window'.passed = window.passed
      BY <2>3 DEF Open, Tick, Budget, Accounts, Windows
    <3>2. ASSUME NEW h \in Hosts
          PROVE  window'.passed[h] * Every + Left(h)' <= Capacity + window'.ticks
      <4>1. /\ window.passed[h] * Every + Left(h) <= Capacity + window.ticks
            /\ window.passed[h] * Every \in Nat /\ window.ticks \in Nat
        BY <2>3 DEF Open, Budget, Accounts, Windows
      <4> QED
        BY <1>2, <3>1, <4>1
    <3> QED
      BY <3>1, <3>2 DEF Accounts
  <2> QED
    BY <2>1, <2>2, <2>3
<1> QED
  BY <1>1, <1>3 DEF Budget

LEMMA NextBudget ==
  ASSUME Budget, [Next]_vars
  PROVE  Budget'
<1>1. CASE UNCHANGED vars
  BY <1>1 DEF vars, Budget, Buckets, Accounts, Left
<1>2. ASSUME NEW u \in Uploads, Refuse(u)
      PROVE  Budget'
  BY <1>2 DEF Refuse, Budget, Buckets, Accounts, Left
<1>3. CASE OpenWindow
  <2>1. /\ window' \in Windows
        /\ window'.pc = "open" /\ window'.ticks = 0 /\ window'.passed = window.passed
        /\ \A h \in Hosts : window.passed[h] = 0
    BY <1>3 DEF OpenWindow, Budget, Accounts, Windows
  <2>2. \A h \in Hosts : Left(h)' = Left(h) /\ Left(h) \in 0 .. Capacity
    BY <1>3, LeftInRange DEF OpenWindow, Budget, Left
  <2>3. Accounts'
    BY <2>1, <2>2, CapacityIsNat DEF Accounts
  <2>4. Buckets'
    BY <1>3 DEF OpenWindow, Budget, Buckets
  <2> QED
    BY <2>3, <2>4 DEF Budget
<1> QED
  BY <1>1, <1>2, <1>3, FindKeepsBudget, AllowKeepsBudget, TickKeepsBudget DEF Next

LEMMA InitBudget == Init => Budget
  BY CapacityIsNat, LimitAssumption DEF Init, Budget, Buckets, Accounts, Windows

\* No address gets more than a burst and the refill, over any stretch of time,
\* however many requests it makes at once and whichever was the first.
THEOREM WithinBudgetCorrect == Spec => []WithinBudget
<1>1. Init => Budget
  BY InitBudget
<1>2. Budget /\ [Next]_vars => Budget'
  BY NextBudget
<1>3. Budget => WithinBudget
  <2> SUFFICES ASSUME Budget, Open, NEW h \in Hosts
               PROVE  window.passed[h] * Every <= Capacity + window.ticks
    BY DEF WithinBudget
  <2>1. /\ window.passed[h] * Every + Left(h) <= Capacity + window.ticks
        /\ window.passed[h] * Every \in Nat /\ window.ticks \in Nat
    BY CapacityIsNat DEF Open, Budget, Accounts, Windows
  <2>2. Left(h) \in Nat
    BY LeftInRange, CapacityIsNat DEF Budget
  <2> QED
    BY <2>1, <2>2, CapacityIsNat
<1> QED
  BY <1>1, <1>2, <1>3, PTL DEF Spec

-----------------------------------------------------------------------------
(* The burst: what an address was let through and what its bucket holds    *)
(* never come to less than a full bucket, so an empty one was used.        *)

Calls ==
  /\ upload \in [Uploads -> [call : {"create", "complete", "none"}, pc : {"ready", "ask"},
                             bucket : Uploads \cup {NoBucket}]]
  /\ \A u \in Uploads : upload[u].pc = "ask" => upload[u].call # "none"

Spent == \A h \in Hosts : Capacity <= Passed(h) * Every + Left(h)

Burstful == Budget /\ Calls /\ refused \subseteq Uploads /\ Spent /\ BurstKept

LEMMA PassedIsNat ==
  ASSUME NEW h
  PROVE  /\ IsFiniteSet(Created(h)) /\ IsFiniteSet(Completed(h))
         /\ Passed(h) \in Nat
<1>1. Created(h) \in SUBSET Uploads /\ Completed(h) \in SUBSET Uploads
  BY DEF Created, Completed
<1>2. IsFiniteSet(Created(h)) /\ IsFiniteSet(Completed(h))
  BY <1>1, LimitAssumption, FS_Subset
<1>3. Cardinality(Created(h)) \in Nat /\ Cardinality(Completed(h)) \in Nat
  BY <1>2, FS_CardinalityType
<1> QED
  BY <1>2, <1>3 DEF Passed

\* Steps that let nobody through leave the count.
LEMMA PassedStays ==
  ASSUME UNCHANGED host, \A u \in Uploads : upload'[u].call = upload[u].call, NEW h
  PROVE  Passed(h)' = Passed(h)
<1>1. Created(h)' = Created(h) /\ Completed(h)' = Completed(h)
  BY DEF Created, Completed
<1> QED
  BY <1>1 DEF Passed

\* A call that is let through counts one for its address.
LEMMA AllowCounts ==
  ASSUME Calls, NEW u \in Uploads, Allow(u), NEW h
  PROVE  Passed(h)' = IF h = host[u] THEN Passed(h) + 1 ELSE Passed(h)
<1>1. /\ host' = host
      /\ upload[u].call \in {"create", "complete"}
      /\ upload'[u].call = NextCall[upload[u].call]
      /\ \A v \in Uploads \ {u} : upload'[v] = upload[v]
  BY DEF Allow, Calls
<1>2. CASE h # host[u]
  <2>1. Created(h)' = Created(h) /\ Completed(h)' = Completed(h)
    BY <1>1, <1>2 DEF Created, Completed
  <2> QED
    BY <1>2, <2>1 DEF Passed
<1>3. CASE h = host[u] /\ upload[u].call = "create"
  <2>1. upload'[u].call = "complete"
    BY <1>1, <1>3 DEF NextCall
  <2>2. Created(h)' = Created(h) \cup {u} /\ u \notin Created(h)
    BY <1>1, <1>3, <2>1 DEF Created
  <2>3. Completed(h)' = Completed(h)
    BY <1>1, <1>3, <2>1 DEF Completed
  <2>4. Cardinality(Created(h)') = Cardinality(Created(h)) + 1
    BY <2>2, PassedIsNat, FS_AddElement
  <2> QED
    BY <1>3, <2>3, <2>4, PassedIsNat, FS_CardinalityType DEF Passed
<1>4. CASE h = host[u] /\ upload[u].call = "complete"
  <2>1. upload'[u].call = "none"
    BY <1>1, <1>4 DEF NextCall
  <2>2. Completed(h)' = Completed(h) \cup {u} /\ u \notin Completed(h)
    BY <1>1, <1>4, <2>1 DEF Completed
  <2>3. Created(h)' = Created(h)
    BY <1>1, <1>4, <2>1 DEF Created
  <2>4. Cardinality(Completed(h)') = Cardinality(Completed(h)) + 1
    BY <2>2, PassedIsNat, FS_AddElement
  <2> QED
    BY <1>4, <2>3, <2>4, PassedIsNat, FS_CardinalityType DEF Passed
<1> QED
  BY <1>1, <1>2, <1>3, <1>4

LEMMA NextCalls ==
  ASSUME Budget, Calls, [Next]_vars
  PROVE  Calls'
<1>1. ASSUME NEW u \in Uploads, Find(u) PROVE Calls'
  <2>1. limiters'[host[u]] \in Uploads \cup {NoBucket}
    BY <1>1 DEF Find, FirstSeen, Budget, Buckets
  <2> QED
    BY <1>1, <2>1 DEF Find, Calls
<1>2. ASSUME NEW u \in Uploads, Allow(u) PROVE Calls'
  <2>1. NextCall[upload[u].call] \in {"complete", "none"}
    BY <1>2 DEF Allow, Calls, NextCall
  <2> QED
    BY <1>2, <2>1 DEF Allow, Calls
<1>3. ASSUME NEW u \in Uploads, Refuse(u) PROVE Calls'
  BY <1>3 DEF Refuse, Calls
<1>4. CASE OpenWindow \/ Tick \/ UNCHANGED vars
  BY <1>4 DEF OpenWindow, Tick, vars, Calls
<1> QED
  BY <1>1, <1>2, <1>3, <1>4 DEF Next

\* A request that is let through takes a token from its address's bucket.
LEMMA AllowTakes ==
  ASSUME Buckets, NEW u \in Uploads, Allow(u), NEW h \in Hosts
  PROVE  Left(h)' = IF h = host[u] THEN Left(h) - Every ELSE Left(h)
<1>1. /\ upload[u].bucket = limiters[host[u]] /\ limiters[host[u]] # NoBucket
      /\ host[u] \in Hosts /\ limiters[host[u]] \in Uploads
      /\ limiters' = limiters
  BY DEF Allow, Buckets
<1>2. level' = [level EXCEPT ![limiters[host[u]]] = @ - Every]
  BY <1>1 DEF Allow
<1> QED
  BY <1>1, <1>2 DEF Left, Buckets

\* No other step takes from a bucket.
LEMMA OthersLeave ==
  ASSUME Buckets, [Next]_vars, ~\E u \in Uploads : Allow(u), NEW h \in Hosts
  PROVE  Left(h) <= Left(h)'
<1> USE CapacityIsNat
<1>0. Left(h) \in 0 .. Capacity
  BY LeftInRange
<1>1. ASSUME NEW u \in Uploads, Find(u) PROVE Left(h)' = Left(h)
  <2>1. CASE limiters[host[u]] = NoBucket
    <3>1. limiters' = [limiters EXCEPT ![host[u]] = u] /\ level' = [level EXCEPT ![u] = Capacity]
      BY <1>1, <2>1 DEF Find, FirstSeen, Full
    <3>2. host[u] \in Hosts /\ \A k \in Hosts : limiters[k] = u => k = host[u]
      BY <1>1, LimitAssumption DEF Find, Buckets
    <3> QED
      BY <2>1, <3>1, <3>2, LimitAssumption DEF Left, Buckets
  <2>2. CASE limiters[host[u]] # NoBucket
    BY <1>1, <2>2 DEF Find, FirstSeen, Left
  <2> QED
    BY <2>1, <2>2
<1>2. CASE Tick
  BY <1>0, <1>2 DEF Tick, Left, Buckets
<1>3. CASE OpenWindow \/ UNCHANGED vars \/ \E u \in Uploads : Refuse(u)
  <2>1. UNCHANGED <<limiters, level>>
    BY <1>3 DEF OpenWindow, vars, Refuse
  <2>2. Left(h)' = Left(h)
    BY <2>1 DEF Left
  <2> QED
    BY <1>0, <2>2
<1> QED
  BY <1>0, <1>1, <1>2, <1>3 DEF Next

LEMMA KeepsSpent ==
  ASSUME Burstful, [Next]_vars, NEW h \in Hosts
  PROVE  /\ Passed(h)' \in Nat /\ Passed(h) <= Passed(h)'
         /\ Capacity <= Passed(h)' * Every + Left(h)'
<1> USE CapacityIsNat
<1>1. /\ Buckets /\ Calls /\ Passed(h) \in Nat /\ Left(h) \in Nat
      /\ Capacity <= Passed(h) * Every + Left(h)
  BY LeftInRange, PassedIsNat DEF Burstful, Budget, Spent
<1>2. CASE ~\E u \in Uploads : Allow(u)
  <2>1. host' = host /\ \A u \in Uploads : upload'[u].call = upload[u].call
    <3>1. ASSUME NEW v \in Uploads, Find(v) \/ Refuse(v)
          PROVE  host' = host /\ \A u \in Uploads : upload'[u].call = upload[u].call
      BY <1>1, <3>1 DEF Find, Refuse, Calls
    <3>2. CASE OpenWindow \/ Tick \/ UNCHANGED vars
      BY <3>2 DEF vars, OpenWindow, Tick
    <3> QED
      BY <1>2, <3>1, <3>2 DEF Next
  <2>2. Passed(h)' = Passed(h)
    BY <2>1, PassedStays
  <2>3. Left(h) <= Left(h)'
    BY <1>1, <1>2, OthersLeave
  <2>4. Left(h)' \in Nat
    BY NextBudget DEF Burstful, Budget, Buckets, Left
  <2> QED
    BY <1>1, <2>2, <2>3, <2>4
<1>3. ASSUME NEW u \in Uploads, Allow(u)
      PROVE  /\ Passed(h)' \in Nat /\ Passed(h) <= Passed(h)'
             /\ Capacity <= Passed(h)' * Every + Left(h)'
  <2>1. Passed(h)' = IF h = host[u] THEN Passed(h) + 1 ELSE Passed(h)
    BY <1>1, <1>3, AllowCounts
  <2>2. Left(h)' = IF h = host[u] THEN Left(h) - Every ELSE Left(h)
    BY <1>1, <1>3, AllowTakes
  <2>3. (Passed(h) + 1) * Every = Passed(h) * Every + Every
    BY <1>1
  <2>4. CASE h = host[u]
    <3>1. Passed(h)' * Every = Passed(h) * Every + Every
      BY <2>1, <2>3, <2>4
    <3>2. Passed(h) * Every \in Nat
      BY <1>1
    <3> QED
      BY <1>1, <2>1, <2>2, <2>4, <3>1, <3>2
  <2>5. CASE h # host[u]
    BY <1>1, <2>1, <2>2, <2>5
  <2> QED
    BY <2>4, <2>5
<1> QED
  BY <1>2, <1>3

\* Who is refused found less than a token, so all the others were used.
LEMMA EmptyMeansUsed ==
  ASSUME Burstful, NEW u \in Uploads, Refuse(u)
  PROVE  Burst <= Passed(host[u])
<1> DEFINE p == Passed(host[u])
<1>1. /\ host[u] \in Hosts /\ p \in Nat /\ Left(host[u]) \in Nat
      /\ Capacity <= p * Every + Left(host[u])
  BY LeftInRange, CapacityIsNat, PassedIsNat DEF Burstful, Budget, Buckets, Spent
<1>2. Left(host[u]) < Every
  BY DEF Refuse, Left, Burstful, Budget, Buckets
<1> HIDE DEF p
<1>3. Burst * Every < p * Every + Every
  BY <1>1, <1>2, CapacityIsNat, LimitAssumption DEF Capacity
<1>4. ASSUME Burst > p PROVE FALSE
  <2>1. PICK z \in Nat : Burst = p + 1 + z
    BY <1>1, <1>4, LimitAssumption
  <2>2. Burst * Every = p * Every + Every + z * Every /\ z * Every \in Nat
    BY <1>1, <2>1, LimitAssumption
  <2>3. p * Every \in Nat
    BY <1>1, LimitAssumption
  <2> QED
    BY <1>3, <2>2, <2>3, LimitAssumption
<1>5. Burst <= p
  BY <1>1, <1>4, LimitAssumption
<1> QED
  BY <1>5 DEF p

LEMMA NextBurst ==
  ASSUME Burstful, [Next]_vars
  PROVE  Burstful'
<1>1. Budget' /\ Calls'
  BY NextBudget, NextCalls DEF Burstful
<1>2. host' = host /\ \A u \in Uploads : host[u] \in Hosts
  BY DEF Burstful, Budget, Buckets, Next, vars, Find, Allow, Refuse, OpenWindow, Tick
<1>3. Spent'
  BY KeepsSpent DEF Spent
<1>4. \A u \in refused' : u \in Uploads /\ (u \in refused \/ Refuse(u))
  BY DEF Burstful, Next, vars, Find, Allow, Refuse, OpenWindow, Tick
<1>5. ASSUME NEW u \in refused'
      PROVE  Burst <= Passed(host[u])'
  <2>1. Burst <= Passed(host[u])
    BY <1>4, <1>5, EmptyMeansUsed, PassedIsNat, LimitAssumption DEF Burstful, BurstKept
  <2>2. /\ Passed(host[u])' \in Nat /\ Passed(host[u]) \in Nat
        /\ Passed(host[u]) <= Passed(host[u])'
    BY <1>2, <1>4, <1>5, KeepsSpent, PassedIsNat
  <2> QED
    BY <2>1, <2>2, LimitAssumption
<1>6. BurstKept'
  BY <1>2, <1>5 DEF BurstKept
<1>7. refused' \subseteq Uploads
  BY <1>4
<1> QED
  BY <1>1, <1>3, <1>6, <1>7 DEF Burstful

\* No address is refused before it was let through a burst of requests, for
\* any number of addresses and uploads, and however they meet.
THEOREM BurstKeptCorrect == Spec => []BurstKept
<1>1. Init => Burstful
  <2> SUFFICES ASSUME Init PROVE Burstful
    OBVIOUS
  <2>1. Budget
    BY InitBudget
  <2>2. Calls
    BY DEF Init, Calls
  <2>3. Spent
    BY PassedIsNat, CapacityIsNat DEF Init, Spent, Left
  <2> QED
    BY <2>1, <2>2, <2>3 DEF Init, Burstful, BurstKept
<1>2. Burstful /\ [Next]_vars => Burstful'
  BY NextBurst
<1>3. Burstful => BurstKept
  BY DEF Burstful
<1> QED
  BY <1>1, <1>2, <1>3, PTL DEF Spec

=============================================================================
