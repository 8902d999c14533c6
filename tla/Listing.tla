------------------------------- MODULE Listing -------------------------------
(***************************************************************************)
(* The listings of the job store (internal/job/sqlite.go) and who uses     *)
(* them: the reapers, each of which deletes what one listing gave it       *)
(* (internal/retention), and the shelf of recent videos (handleListVideos, *)
(* internal/httpserver/handerStatus.go).                                   *)
(*                                                                         *)
(* Times are stored and compared as text in RFC3339Nano, which drops the   *)
(* zeros at the end of a fraction: "...:00Z", "...:00.5Z", "...:00.55Z".   *)
(* A time is a number of hundredths of a second here.                      *)
(***************************************************************************)
EXTENDS Naturals, FiniteSets

CONSTANTS
  Jobs,
  Instants,   \* the times at which something happens
  StaleTtl, OldTtl,  \* one hour, 48 hours
  Limit,      \* ?limit= of the shelf
  Oversample  \* what the handler multiplies it with (5)

\* Time begins late enough for every cutoff to be a time.
ASSUME ListingAssumption ==
  /\ Instants \subseteq Nat
  /\ StaleTtl \in Nat /\ OldTtl \in Nat
  /\ \A t \in Instants : t >= StaleTtl /\ t >= OldTtl
  /\ Limit \in Nat \ {0} /\ Oversample \in Nat \ {0}

VARIABLES
  clock,   \* now
  row,     \* the status and creation time of each job; "none" before it is
           \* created, "gone" after it is deleted
  doomed,  \* the list each reaper is working through
  shelf    \* the last answer of handleListVideos

vars == <<clock, row, doomed, shelf>>

Reapers == {"stale", "expired"}
NoRow   == [status |-> "none", created |-> 0]
Rows    == {j \in Jobs : row[j].status \notin {"none", "gone"}}

Init ==
  /\ clock \in Instants
  /\ row = [j \in Jobs |-> NoRow]
  /\ doomed = [s \in Reapers |-> {}]
  /\ shelf = {}

-----------------------------------------------------------------------------
(* Text.  Up to the second it is of one width, and sorts as time does.     *)
(* Then come ".", digits and "Z", which the database compares one by one.  *)

Second == 100
Dot    == 0
Digit(d) == 1 + d
Zed    == 11

\* What Format writes after the second.
Suffix(t) ==
  LET tenths == (t % Second) \div 10
      rest   == t % 10 IN
  CASE t % Second = 0             -> <<Zed>>
    [] t % Second # 0 /\ rest = 0 -> <<Dot, Digit(tenths), Zed>>
    [] rest # 0                   -> <<Dot, Digit(tenths), Digit(rest), Zed>>

SuffixBefore(a, b) ==
  \E i \in DOMAIN Suffix(a) \cap DOMAIN Suffix(b) :
    /\ Suffix(a)[i] < Suffix(b)[i]
    /\ \A k \in 1 .. i - 1 : Suffix(a)[k] = Suffix(b)[k]

\* created_at < ?
TextBefore(a, b) ==
  \/ a \div Second < b \div Second
  \/ a \div Second = b \div Second /\ SuffixBefore(a, b)

-----------------------------------------------------------------------------
(* The life of a record, as far as listings tell it.                       *)

Advance ==
  /\ \E t \in Instants : t > clock /\ clock' = t
  /\ UNCHANGED <<row, doomed, shelf>>

Create(j) ==
  /\ row[j].status = "none"
  /\ row' = [row EXCEPT ![j] = [status |-> "uploading", created |-> clock]]
  /\ UNCHANGED <<clock, doomed, shelf>>

NextStatus ==
  [none |-> {}, uploading |-> {"active"}, active |-> {"completed", "failed"},
   completed |-> {}, failed |-> {}, gone |-> {}]

Update(j) ==
  /\ \E s \in NextStatus[row[j].status] : row' = [row EXCEPT ![j].status = s]
  /\ UNCHANGED <<clock, doomed, shelf>>

-----------------------------------------------------------------------------
(* ListStaleUploads and ListOlderThan, and what the reapers make of them.  *)

Ttl(s) == IF s = "stale" THEN StaleTtl ELSE OldTtl

Listed(s) == IF s = "stale" THEN {"uploading"} ELSE {"completed", "failed"}

\* Mutant: the cutoff is now.
EligibleNow(s, j) ==
  row[j].status \in Listed(s) /\ TextBefore(row[j].created, clock)

Eligible(s, j) ==
  /\ row[j].status \in Listed(s)
  /\ TextBefore(row[j].created, clock - Ttl(s))

List(s) ==
  /\ doomed[s] = {}
  /\ doomed' = [doomed EXCEPT ![s] = {j \in Jobs : Eligible(s, j)}]
  /\ UNCHANGED <<clock, row, shelf>>

\* One job of the list: its record goes, or some call failed.
Delete(s, j) ==
  /\ j \in doomed[s]
  /\ doomed' = [doomed EXCEPT ![s] = @ \ {j}]
  /\ row' \in {row, [row EXCEPT ![j].status = "gone"]}
  /\ UNCHANGED <<clock, shelf>>

-----------------------------------------------------------------------------
(* ListRecent and the shelf.                                               *)

\* ORDER BY created_at DESC LIMIT n: rows of one text come in any order.
Newest(rows, n) ==
  { some \in SUBSET rows :
      /\ Cardinality(some) = IF Cardinality(rows) < n THEN Cardinality(rows) ELSE n
      /\ \A a \in rows \ some, b \in some : ~TextBefore(row[b].created, row[a].created) }

\* Mutant: as many rows as videos are wanted.
NoOversample == Limit

Asked == Limit * Oversample

Completed(jobs) == {j \in jobs : row[j].status = "completed"}

\* The first Limit completed ones of what the store listed.
ListVideos ==
  /\ \E recent \in Newest(Rows, Asked) : shelf' \in Newest(Completed(recent), Limit)
  /\ UNCHANGED <<clock, row, doomed>>

-----------------------------------------------------------------------------
Next ==
  \/ Advance \/ ListVideos
  \/ \E j \in Jobs : Create(j) \/ Update(j)
  \/ \E s \in Reapers : List(s) \/ \E j \in Jobs : Delete(s, j)

Spec == Init /\ [][Next]_vars

-----------------------------------------------------------------------------
\* A reaper is given the jobs "created before cutoff" (store.go:26-35), of the
\* right status, to the second that comparing text may cost: none that is a
\* second too young, and every one that is a second past its time.
OnTime(s) ==
  \A j \in Jobs :
    LET due == row[j].created + Ttl(s) IN
    /\ j \in doomed'[s] => due < clock + Second
    /\ row[j].status \in Listed(s) /\ due + Second <= clock => j \in doomed'[s]

ReapsOnTime == [][\A s \in Reapers : List(s) => OnTime(s)]_vars

\* "Recently *completed* jobs, newest first" (handerStatus.go:37): one that is
\* not on the shelf is no newer than those that are, to the second that
\* comparing text may cost; or the shelf is short because as many rows as were asked for
\* are newer: "filtering to completed may drop entries" (handerStatus.go:57).
Crowded(j) ==
  Cardinality({k \in Rows : row[k].created + Second > row[j].created})
    > Limit * Oversample

ShelfFair ==
  [][ListVideos =>
       /\ shelf' \subseteq Completed(Rows)
       /\ \A j \in Completed(Rows) \ shelf' :
            /\ \A k \in shelf' : row[j].created < row[k].created + Second
            /\ Cardinality(shelf') = Limit \/ Crowded(j)]_vars

=============================================================================
