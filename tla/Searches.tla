------------------------------ MODULE Searches ------------------------------
(***************************************************************************)
(* How a listing is got from Immich (immich/client.go and onThisDaySearch  *)
(* in dlna/extrafolders.go): page by page, while the library may change,   *)
(* and for "On this day" by one search per earlier year, a few at a time.  *)
(* One listing is being loaded at a time.                                  *)
(*                                                                         *)
(* A listing is named by what is asked for: <<"albums">>, <<"people">>,    *)
(* <<"getalbum", a>>, <<"getperson", p>>, <<"getasset", x>>, <<"album", a>>,*)
(* <<"person", p>>, <<"timeline">>, <<"favorites">>, or                    *)
(* <<"onthisday", year, day>>.                                             *)
(***************************************************************************)
EXTENDS PhotoLibrary

CONSTANTS
    Albums, People,  \* the albums and people, in Immich's order
    Members,         \* per album, person and "favorites", its assets
    Concurrency,     \* onThisDayConcurrency
    MinYear,         \* onThisDayMinYear
    Comers,          \* bound: the assets that come and go
    MaxChanges,      \* bound on the changes of the library
    None

ASSUME SearchBounds == Concurrency \in Nat \ {0} /\ MinYear \in Nat \ {0} /\ MaxChanges \in Nat
ASSUME ComersAreAssets == Comers \subseteq Assets
ASSUME AlbumsAndPeople == Albums \in Seq(ToSet(Albums)) /\ People \in Seq(ToSet(People))

VARIABLES
    library,   \* the assets in Immich
    changes,
    job        \* the load in progress

searchVars == <<library, changes, job>>

\* No load.  steady: the library has not changed since it began; cut: Immich named a next page
\* that is not a number (history).
Idle == [key |-> None, phase |-> "idle", searches |-> <<>>, steady |-> TRUE, cut |-> FALSE]

\* One call of searchMetadataAssets; year is 0 outside "On this day".
Search(year, want, place) ==
    [year |-> year, want |-> want, pc |-> place, page |-> 1, items |-> <<>>]

IsOnThisDay(key) == key[1] = "onthisday"
IsGet(key)       == key[1] \in {"albums", "people", "getalbum", "getperson", "getasset"}

\* What a single GET answers, if it does not fail.
Get(key) == CASE key[1] = "albums" -> Albums
              [] key[1] = "people" -> People
              [] OTHER             -> <<key[2]>>

\* What the search endpoint is asked to match.
Filter(key) == CASE key[1] = "timeline"  -> Assets
                 [] key[1] = "favorites" -> Members["favorites"]
                 [] OTHER                -> Members[key[2]]

-----------------------------------------------------------------------------
(* Steps of the environment. *)

Change ==
    /\ changes < MaxChanges
    /\ changes' = changes + 1
    /\ \E a \in Comers : library' = IF a \in library THEN library \ {a} ELSE library \cup {a}
    /\ job' = IF job = Idle THEN Idle ELSE [job EXCEPT !.steady = FALSE]

-----------------------------------------------------------------------------
(* A load. *)

StartLoad(key) ==
    /\ job = Idle
    /\ job' = [Idle EXCEPT
                 !.key = key,
                 !.phase = IF IsOnThisDay(key) THEN "oldest" ELSE IF IsGet(key) THEN "get" ELSE "search",
                 !.searches = IF IsOnThisDay(key) \/ IsGet(key) THEN <<>>
                              ELSE <<Search(0, Filter(key), "asking")>>]
    /\ UNCHANGED <<library, changes>>

\* getJSON: albums, people, or one of them.
GetAnswers ==
    /\ job.phase = "get"
    /\ job' = [job EXCEPT !.phase = "search",
                          !.searches = <<[Search(0, {}, "ended") EXCEPT !.items = Get(job.key)]>>]
    /\ UNCHANGED <<library, changes>>

\* The first call of a load fails: a GET, or OldestAssetTime.
FirstFails ==
    /\ job.phase \in {"get", "oldest"}
    /\ job' = [job EXCEPT !.phase = "failed"]
    /\ UNCHANGED <<library, changes>>

\* OldestAssetTime, in a library that is not empty.
Oldest == LET a == CHOOSE x \in library : \A z \in library : Captured[x] <= Captured[z]
          IN  CapturedAt(a)

\* A mutant: searching back to the oldest asset's year only, by UTC.
SearchYearsByUTC(key) ==
    LET last  == IF YearOf(Oldest) > MinYear THEN YearOf(Oldest) ELSE MinYear
        years == [i \in 1..key[2] - last |-> key[2] - i]
    IN  Where(years, {y \in ToSet(years) : key[3] <= DaysIn(y)})

\* The earlier years to search, latest first: back to the year before the oldest asset's,
\* whose local date may be in the year before, and only years that have the day.
SearchYears(key) ==
    LET last  == IF YearOf(Oldest) - 1 > MinYear THEN YearOf(Oldest) - 1 ELSE MinYear
        years == [i \in 1..key[2] - last |-> key[2] - i]
    IN  Where(years, {y \in ToSet(years) : key[3] <= DaysIn(y)})

\* The assets captured on the day in any time zone, UTC-12 to UTC+14.
Window(y, d) == {a \in Assets : /\ Midnight(y, d) - 14 <= Captured[a]
                                /\ Captured[a] < Midnight(y, d) + 36}

\* Start one goroutine per year; none in an empty library, or one without dates.
SpawnSearches ==
    /\ job.phase = "oldest"
    /\ LET years == IF library = {} \/ Oldest = Zero THEN <<>> ELSE SearchYears(job.key)
       IN  job' = [job EXCEPT
                     !.phase = "search",
                     !.searches = [i \in DOMAIN years |->
                                     Search(years[i], Window(years[i], job.key[3]), "queued")]]
    /\ UNCHANGED <<library, changes>>

At(i, place) == job.phase = "search" /\ job.searches[i].pc = place

\* A mutant: a search that fails keeps its slot.
RunningLeaked == {i \in DOMAIN job.searches : job.searches[i].pc \in {"asking", "failed"}}

\* The goroutines that hold a slot of the semaphore.
Running == {i \in DOMAIN job.searches : job.searches[i].pc = "asking"}

\* A mutant: a search does not wait for a slot.
AcquireAnyway(i) ==
    /\ At(i, "queued")
    /\ job' = [job EXCEPT !.searches[i].pc = "asking"]
    /\ UNCHANGED <<library, changes>>

Acquire(i) ==
    /\ At(i, "queued")
    /\ Cardinality(Running) < Concurrency
    /\ job' = [job EXCEPT !.searches[i].pc = "asking"]
    /\ UNCHANGED <<library, changes>>

\* One page, and on to the next one unless there is none or it cannot be parsed.
AskPage(i) ==
    /\ At(i, "asking")
    /\ LET s == job.searches[i]
           next(p, pc, page, cut) ==
               job' = [job EXCEPT !.searches[i] = [s EXCEPT !.items = @ \o p.items, !.pc = pc, !.page = page],
                                  !.cut = @ \/ cut]
       IN  \E p \in {PageOf(s.want \cap library, s.page)} :
              \/ p.more  /\ next(p, "asking", s.page + 1, FALSE)
              \/ p.more  /\ next(p, "ended", s.page, TRUE)
              \/ ~p.more /\ next(p, "ended", s.page, FALSE)
    /\ UNCHANGED <<library, changes>>

AskFails(i) ==
    /\ At(i, "asking")
    /\ job' = [job EXCEPT !.searches[i].pc = "failed", !.searches[i].items = <<>>]
    /\ UNCHANGED <<library, changes>>

\* wg.Wait is over.
Settled == \/ job.phase = "failed"
           \/ /\ job.phase = "search"
              /\ \A i \in DOMAIN job.searches : job.searches[i].pc \in {"ended", "failed"}

\* The first error is the load's.
LoadFails == \/ job.phase = "failed"
             \/ \E i \in DOMAIN job.searches : job.searches[i].pc = "failed"

\* The assets of one search that are of the day by their own calendar.
Kept(s) == IF s.year = 0 THEN s.items
           ELSE Where(s.items, {a \in ToSet(s.items) : LocalCaptureDate(a) = <<s.year, job.key[3]>>})

\* What the load returns: the searches' assets, latest year first.
Loaded == FlattenSeq([i \in DOMAIN job.searches |-> Kept(job.searches[i])])

EndLoad == /\ Settled
           /\ job' = Idle
           /\ UNCHANGED <<library, changes>>

LoadSteps ==
    \/ GetAnswers \/ FirstFails \/ SpawnSearches
    \/ \E i \in DOMAIN job.searches : Acquire(i) \/ AskPage(i) \/ AskFails(i)
=============================================================================
