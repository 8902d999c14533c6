------------------------------ MODULE RateLimit ------------------------------
(***************************************************************************)
(* The limit on uploads (internal/httpserver/rateLimit.go, routes.go): one *)
(* bucket of tokens for each client address, made at its first request.    *)
(* The create call and the complete call of an upload take from it both.   *)
(*                                                                         *)
(* The bucket itself (golang.org/x/time/rate) is external.  Time goes in   *)
(* ticks, and a bucket's level is counted in them: a tick adds one, a      *)
(* request that is let through takes Every.                                *)
(***************************************************************************)
EXTENDS Naturals, FiniteSets

CONSTANTS
  Hosts,     \* client addresses
  Uploads,   \* uploads that clients make
  NoBucket,  \* an address that was never seen
  Burst,     \* requests a full bucket lets through (3)
  Every,     \* ticks for one token (ten seconds)
  Window     \* bound: the ticks over which requests are counted

ASSUME LimitAssumption ==
  /\ IsFiniteSet(Uploads) /\ NoBucket \notin Uploads
  /\ Burst \in Nat \ {0} /\ Every \in Nat \ {0} /\ Window \in Nat

VARIABLES
  host,      \* the address each upload is made from
  limiters,  \* the map: the bucket of each address, named for the upload
             \* whose request made it
  level,     \* level of each bucket
  upload,    \* the call an upload is at, its step, the bucket in its hand
  refused,   \* uploads that were answered 429
  window     \* a stretch of time, and the requests of each address let
             \* through in it

Open == window.pc = "open"

vars == <<host, limiters, level, upload, refused, window>>

Capacity == Burst * Every

Init ==
  /\ host \in [Uploads -> Hosts]
  /\ limiters = [h \in Hosts |-> NoBucket]
  /\ level = [u \in Uploads |-> 0]
  /\ upload = [u \in Uploads |-> [call |-> "create", pc |-> "ready", bucket |-> NoBucket]]
  /\ refused = {}
  /\ window = [pc |-> "shut", ticks |-> 0, passed |-> [h \in Hosts |-> 0]]

-----------------------------------------------------------------------------
\* Mutant: the bucket of an address is not put back into the map, or not
\* looked for.
AlwaysNew(h) == TRUE

FirstSeen(h) == limiters[h] = NoBucket

\* Mutant: a new bucket with one token.
OneToken == Every

Full == Capacity

\* allow, under the mutex: the address's bucket, a new and full one at first.
Find(u) ==
  /\ upload[u].call # "none" /\ upload[u].pc = "ready"
  /\ IF FirstSeen(host[u])
       THEN /\ limiters' = [limiters EXCEPT ![host[u]] = u]
            /\ level' = [level EXCEPT ![u] = Full]
       ELSE UNCHANGED <<limiters, level>>
  /\ upload' = [upload EXCEPT ![u].pc = "ask", ![u].bucket = limiters'[host[u]]]
  /\ UNCHANGED <<host, refused, window>>

NextCall == [create |-> "complete", complete |-> "none"]

\* lim.Allow, without the mutex, and the handler.
Allow(u) ==
  /\ upload[u].pc = "ask"
  /\ level[upload[u].bucket] >= Every
  /\ level' = [level EXCEPT ![upload[u].bucket] = @ - Every]
  /\ upload' = [upload EXCEPT ![u] = [call   |-> NextCall[@.call],
                                      pc     |-> "ready",
                                      bucket |-> NoBucket]]
  /\ window' = IF Open THEN [window EXCEPT !.passed[host[u]] = @ + 1] ELSE window
  /\ UNCHANGED <<host, limiters, refused>>

\* Or 429; the client may call again.
Refuse(u) ==
  /\ upload[u].pc = "ask"
  /\ level[upload[u].bucket] < Every
  /\ upload' = [upload EXCEPT ![u].pc = "ready", ![u].bucket = NoBucket]
  /\ refused' = refused \cup {u}
  /\ UNCHANGED <<host, limiters, level, window>>

-----------------------------------------------------------------------------
(* Time.  The window opens at any moment, once.                            *)

OpenWindow ==
  /\ window.pc = "shut"
  /\ window' = [window EXCEPT !.pc = "open"]
  /\ UNCHANGED <<host, limiters, level, upload, refused>>

Tick ==
  /\ level' = [u \in Uploads |-> IF level[u] < Capacity THEN level[u] + 1 ELSE Capacity]
  /\ window' = IF Open /\ window.ticks < Window THEN [window EXCEPT !.ticks = @ + 1]
               ELSE IF Open THEN [window EXCEPT !.pc = "over"]
               ELSE window
  /\ UNCHANGED <<host, limiters, upload, refused>>

Next ==
  \/ \E u \in Uploads : Find(u) \/ Allow(u) \/ Refuse(u)
  \/ OpenWindow \/ Tick

Spec == Init /\ [][Next]_vars

-----------------------------------------------------------------------------
\* An address gets "short bursts up to its capacity", and beyond that what the
\* bucket was refilled with (rateLimit.go:12-15), over any stretch of time and
\* however its requests meet.
WithinBudget ==
  Open => \A h \in Hosts : window.passed[h] * Every <= Capacity + window.ticks

\* And it does get its burst: none of its requests is refused before that many
\* were let through (rateLimit.go:13-14).  It is a burst of requests.  An upload
\* is two of them, so of three uploads begun at once, "bursts of 3" to the
\* comment of routes.go:21, the first complete call may be refused.
Created(h)   == {u \in Uploads : host[u] = h /\ upload[u].call # "create"}
Completed(h) == {u \in Uploads : host[u] = h /\ upload[u].call = "none"}
Passed(h)    == Cardinality(Created(h)) + Cardinality(Completed(h))

BurstKept == \A u \in refused : Passed(host[u]) >= Burst

=============================================================================
