----------------------------- MODULE JobListing -----------------------------
(***************************************************************************)
(* GET /processing-jobs, page by page, while the jobs it lists live on.    *)
(* A request counts the matching rows and then reads a page of them,       *)
(* newest first, in two SELECTs that each see what is committed by then.   *)
(* The client, who filters by status, goes on from offset to offset until  *)
(* a page comes back short.                                                *)
(*                                                                         *)
(* One of the jobs is followed through its transitions; of the others only *)
(* that they enter and leave the filter.  A job's place in the order is    *)
(* its created_at, the time its transaction began: one that commits late   *)
(* may appear at any place.  list_documents is built alike, documents      *)
(* leaving the list when they are deleted or moved.                        *)
(***************************************************************************)
EXTENDS JobEntity, Sequences, FiniteSets, SequencesExt

CONSTANTS
  Filter,      \* the status asked for
  Followed,    \* the name of the job followed
  Others,      \* names of other jobs
  Limits,      \* page sizes a client asks for
  MaxEvents    \* bound: times other jobs enter or leave the filter

ASSUME FilterAssumption == Filter \in Statuses
ASSUME LimitsAssumption == Limits \subseteq 1 .. 200
ASSUME OthersAssumption == Followed \notin Others

VARIABLES
  listed,    \* the matching rows, newest first
  request,   \* the client: what it does next, its page size and offset
  total,     \* total of the last response
  seen,      \* jobs the client has been shown
  repeats,   \* how often it was shown one again
  stayed,    \* jobs listed since the client began
  entered,   \* how many have entered since then
  left       \* how many have left since then

client  == <<request, total, seen, repeats>>
listing == <<listed, request, total, seen, repeats, stayed, entered, left>>

Listed == ToSet(listed)

Reading == request.next \in {"count", "page"}

ListingInit ==
  /\ EntityInit
  /\ listed  = IF Filter = job.status THEN <<Followed>> ELSE <<>>
  /\ request = [next |-> "begin", limit |-> 1, offset |-> 0]
  /\ total = 0 /\ seen = {} /\ repeats = 0
  /\ stayed = {} /\ entered = 0 /\ left = 0

-----------------------------------------------------------------------------
(* The jobs *)

Enter(j) ==
  /\ j \notin Listed
  /\ \E place \in 1 .. Len(listed) + 1 : listed' = InsertAt(listed, place, j)
  /\ entered' = IF Reading THEN entered + 1 ELSE entered
  /\ UNCHANGED <<client, stayed, left>>

Leave(j) ==
  /\ \E place \in DOMAIN listed :
       listed[place] = j /\ listed' = RemoveAt(listed, place)
  /\ stayed' = stayed \ {j}
  /\ left'   = IF Reading THEN left + 1 ELSE left
  /\ UNCHANGED <<client, entered>>

(* A call of the followed job's methods, committed. *)
FollowedCall ==
  /\ EntityNext
  /\ CASE job'.status = Filter /\ job.status # Filter -> Enter(Followed)
       [] job'.status # Filter /\ job.status = Filter -> Leave(Followed)
       [] OTHER -> UNCHANGED listing

OtherCall ==
  /\ entered + left < MaxEvents
  /\ \E j \in Others : Enter(j) \/ Leave(j)
  /\ UNCHANGED job

-----------------------------------------------------------------------------
(* The requests *)

(* limit: Query(gt=0, le=200), offset: Query(ge=0) *)
BeginReading ==
  /\ request.next = "begin"
  /\ \E limit \in Limits : request' = [next |-> "count", limit |-> limit, offset |-> 0]
  /\ stayed' = Listed
  /\ UNCHANGED <<job, listed, total, seen, repeats, entered, left>>

(* SELECT count( * ) with the filters of the list *)
CountRows ==
  /\ request.next = "count"
  /\ total'   = Len(listed)
  /\ request' = [request EXCEPT !.next = "page"]
  /\ UNCHANGED <<job, listed, seen, repeats, stayed, entered, left>>

\* mutant: the offset is one too far
PageFromNext(offset, limit) ==
  SubSeq(listed, offset + 2, IF offset + limit + 1 < Len(listed) THEN offset + limit + 1
                             ELSE Len(listed))

(* ORDER BY created_at DESC LIMIT limit OFFSET offset *)
Page(offset, limit) ==
  SubSeq(listed, offset + 1, IF offset + limit < Len(listed) THEN offset + limit
                             ELSE Len(listed))

ReadPage ==
  /\ request.next = "page"
  /\ LET items == Page(request.offset, request.limit)
     IN  /\ seen'    = seen \cup ToSet(items)
         /\ repeats' = repeats + Cardinality(ToSet(items) \cap seen)
         /\ request' = IF Len(items) < request.limit
                         THEN [request EXCEPT !.next = "done", !.offset = @ + Len(items)]
                         ELSE [request EXCEPT !.next = "count", !.offset = @ + Len(items)]
  /\ UNCHANGED <<job, listed, total, stayed, entered, left>>

ListingNext ==
  \/ FollowedCall
  \/ OtherCall
  \/ BeginReading
  \/ CountRows
  \/ ReadPage

ListingSpec == ListingInit /\ [][ListingNext]_<<job, listing>>

-----------------------------------------------------------------------------
(* Properties *)

(* Paging by offset passes over a job only when another has left the list  *)
(* behind the client's back, and shows one twice only when one has entered *)
(* it: at most one for each.  When none has left, every job that was       *)
(* listed all along has been shown.  The total of the last response is off *)
(* by no more than what entered or left while the client read.             *)
PagingDrift ==
  /\ repeats <= entered
  /\ request.next = "done" =>
       /\ Cardinality(stayed \ seen) <= left
       /\ total <= request.offset + left
       /\ request.offset <= total + entered + left
=============================================================================
