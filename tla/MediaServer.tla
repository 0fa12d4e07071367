---------------------------- MODULE MediaServer ----------------------------
(***************************************************************************)
(* Server.serveMedia (dlna/server.go): how concurrent /media/* and         *)
(* /thumbnail/* requests share the disk cache, the flights table and the   *)
(* Immich-fetch slots.                                                     *)
(*                                                                         *)
(* A process is one HTTP request goroutine, or the background goroutine    *)
(* that carries on filling the cache with a video after the request that   *)
(* started it has moved on.  A request leads at most one flight, so a      *)
(* flight is named by the request that registered it.  The disk cache is   *)
(* the set of keys a Get would hit; its own steps are module DiskCache.    *)
(***************************************************************************)
EXTENDS Integers, FiniteSets

CONSTANTS
    Requests,    \* HTTP requests, each served once
    Keys,        \* cache keys
    VideoKeys,   \* keys that Immich answers with video/* and that have an openRange
    StreamKeys,  \* keys answered with video/* from a source without openRange
    Slots,       \* MEDIA_FETCH_CONCURRENCY
    None

ASSUME RequestsFinite == IsFiniteSet(Requests)
ASSUME KindsOfKeys == /\ VideoKeys \subseteq Keys
                      /\ StreamKeys \subseteq Keys \ VideoKeys
ASSUME SlotsPositive == Slots \in Nat \ {0}
ASSUME NoneIsNothing == None \notin Requests /\ None \notin Keys

VARIABLES
    cacheOn,      \* is Server.cache non-nil?  Fixed when the server starts
    cached,       \* keys the disk cache would hit
    flights,      \* Server.flights: per key, the flight in progress
    doneClosed,   \* flights whose done channel is closed
    videoClosed,  \* flights whose video channel is closed
    sem,          \* number of values in the fetchSem channel
    pc,           \* where each request is in serveMedia
    key,          \* the key each request asked for
    fl,           \* serveMedia's local fl: the flight joined or led
    holding,      \* requests whose local slotHeld is true
    gone,         \* requests whose client has hung up (r.Context() is done)
    follow,       \* the AfterFunc that makes the download follow the request
    fill          \* where the background fill of each flight is

shared  == <<cacheOn, cached, flights, doneClosed, videoClosed, sem>>
local   == <<pc, key, fl, holding, gone, follow, fill>>
vars    == <<cacheOn, cached, flights, doneClosed, videoClosed, sem,
             pc, key, fl, holding, gone, follow, fill>>

\* Where a request runs on its client's time: it is sending the body.
Sending == {"serve", "proxy", "streamserve"}

\* Where a request holds its own flight on the way to finishFlight's delete.
Leading == {"queue", "fetch", "read", "put", "detach", "streamput",
            "streamserve", "proxy", "unwind", "finish", "abandon"}

\* Between the two halves of finishFlight.
Closing == {"finished", "abandoned"}

Places == {"idle", "lookup", "join", "wait", "serve", "done"} \cup Leading \cup Closing

TypeOK ==
    /\ cacheOn \in BOOLEAN
    /\ cached \in SUBSET Keys
    /\ flights \in [Keys -> Requests \cup {None}]
    /\ doneClosed \in SUBSET Requests
    /\ videoClosed \in SUBSET Requests
    /\ sem \in 0..Slots
    /\ pc \in [Requests -> Places]
    /\ key \in [Requests -> Keys \cup {None}]
    /\ fl \in [Requests -> Requests \cup {None}]
    /\ holding \in SUBSET Requests
    /\ gone \in SUBSET Requests
    /\ follow \in [Requests -> {"off", "armed", "fired", "stopped"}]
    /\ fill \in [Requests -> {"none", "put", "delete", "close", "done"}]

Init ==
    /\ cacheOn \in BOOLEAN
    /\ cached \in IF cacheOn THEN SUBSET Keys ELSE {{}}
    /\ flights = [k \in Keys |-> None]
    /\ doneClosed = {}
    /\ videoClosed = {}
    /\ sem = 0
    /\ pc = [r \in Requests |-> "idle"]
    /\ key = [r \in Requests |-> None]
    /\ fl = [r \in Requests |-> None]
    /\ holding = {}
    /\ gone = {}
    /\ follow = [r \in Requests |-> "off"]
    /\ fill = [r \in Requests |-> "none"]

At(r, place)     == pc[r] = place
Goto(r, place)   == pc' = [pc EXCEPT ![r] = place]
SetFollow(r, st) == follow' = [follow EXCEPT ![r] = st]

\* Mutant: the slot is given back without looking at slotHeld.
ReleaseSlotTwice(r) ==
    /\ sem' = sem - 1
    /\ holding' = holding \ {r}

\* releaseSlot: gives the slot back unless this request already has.
ReleaseSlot(r) ==
    /\ sem' = IF r \in holding THEN sem - 1 ELSE sem
    /\ holding' = holding \ {r}

-----------------------------------------------------------------------------
(* The environment: clients, and the cache's eviction sweep. *)

\* A request for some key arrives.  Without a cache serveMedia goes straight
\* to queueing and fl stays nil.
Arrive(r) ==
    /\ At(r, "idle")
    /\ \E k \in Keys : key' = [key EXCEPT ![r] = k]
    /\ Goto(r, IF cacheOn THEN "lookup" ELSE "queue")
    /\ UNCHANGED <<shared, fl, holding, gone, follow, fill>>

\* The client closes its connection.
HangUp(r) ==
    /\ pc[r] \notin {"idle", "done"}
    /\ r \notin gone
    /\ gone' = gone \cup {r}
    /\ UNCHANGED <<shared, pc, key, fl, holding, follow, fill>>

\* A sweep of some Put deletes an entry.
Evict ==
    /\ \E k \in cached : cached' = cached \ {k}
    /\ UNCHANGED <<cacheOn, flights, doneClosed, videoClosed, sem, local>>

\* The client has read the whole body, or hung up: the handler returns.
Answer(r) ==
    /\ pc[r] \in Sending
    /\ Goto(r, "unwind")
    /\ UNCHANGED <<shared, key, fl, holding, gone, follow, fill>>

-----------------------------------------------------------------------------
(* The cache-and-flight loop. *)

\* serveFromCache.
LookupHit(r) ==
    /\ At(r, "lookup")
    /\ key[r] \in cached
    /\ Goto(r, "serve")
    /\ UNCHANGED <<shared, key, fl, holding, gone, follow, fill>>

LookupMiss(r) ==
    /\ At(r, "lookup")
    /\ key[r] \notin cached
    /\ Goto(r, "join")
    /\ UNCHANGED <<shared, key, fl, holding, gone, follow, fill>>

\* joinFlight, under flightsMu: register a new flight and lead it ...
JoinAsLeader(r) ==
    /\ At(r, "join")
    /\ flights[key[r]] = None
    /\ flights' = [flights EXCEPT ![key[r]] = r]
    /\ fl' = [fl EXCEPT ![r] = r]
    /\ Goto(r, "queue")
    /\ UNCHANGED <<cacheOn, cached, doneClosed, videoClosed, sem,
                   key, holding, gone, follow, fill>>

\* ... or follow the one in progress.
JoinAsFollower(r) ==
    /\ At(r, "join")
    /\ flights[key[r]] # None
    /\ fl' = [fl EXCEPT ![r] = flights[key[r]]]
    /\ Goto(r, "wait")
    /\ UNCHANGED <<shared, key, holding, gone, follow, fill>>

\* The follower's select.  It never finishes the flight: that defer is only
\* registered by a leader.
StopWaiting(r, place) ==
    /\ At(r, "wait")
    /\ fl' = [fl EXCEPT ![r] = None]
    /\ Goto(r, place)
    /\ UNCHANGED <<shared, key, holding, gone, follow, fill>>

WaitDone(r)  == fl[r] \in doneClosed  /\ StopWaiting(r, "lookup")
\* Mutant: the deferred finish is registered before the loop, so a follower
\* that turns to proxying finishes the flight it only waited for.
WaitVideoFinishes(r) ==
    /\ At(r, "wait")
    /\ fl[r] \in videoClosed
    /\ Goto(r, "abandon")
    /\ UNCHANGED <<shared, key, fl, holding, gone, follow, fill>>

WaitVideo(r) == fl[r] \in videoClosed /\ StopWaiting(r, "proxy")

\* Mutant: a follower does not notice that its client is gone.
WaitGoneMissing(r) == FALSE

WaitGone(r)  == r \in gone            /\ StopWaiting(r, "done")

-----------------------------------------------------------------------------
(* The download. *)

\* Mutant: one slot too many.
AcquireExtraSlot(r) ==
    /\ At(r, "queue")
    /\ sem <= Slots
    /\ sem' = sem + 1
    /\ holding' = holding \cup {r}
    /\ SetFollow(r, "armed")
    /\ Goto(r, "fetch")
    /\ UNCHANGED <<cacheOn, cached, flights, doneClosed, videoClosed, key, fl, gone, fill>>

\* A free slot: the download starts, under a context that follows r's own.
AcquireSlot(r) ==
    /\ At(r, "queue")
    /\ sem < Slots
    /\ sem' = sem + 1
    /\ holding' = holding \cup {r}
    /\ SetFollow(r, "armed")
    /\ Goto(r, "fetch")
    /\ UNCHANGED <<cacheOn, cached, flights, doneClosed, videoClosed, key, fl, gone, fill>>

\* Mutant: a request that leaves the queue forgets its flight.
LeaveQueueAtOnce(r) ==
    /\ At(r, "queue")
    /\ sem = Slots \/ r \in gone
    /\ fl' = [fl EXCEPT ![r] = None]
    /\ Goto(r, "done")
    /\ UNCHANGED <<shared, key, holding, gone, follow, fill>>

\* No slot within fetchQueueTimeout (503), or the client leaves the queue.
\* A blocked send is served before the channel has room again, so the timer
\* only ends the wait while every slot is taken.
LeaveQueue(r) ==
    /\ At(r, "queue")
    /\ sem = Slots \/ r \in gone
    /\ Goto(r, "unwind")
    /\ UNCHANGED <<shared, key, fl, holding, gone, follow, fill>>

\* The AfterFunc runs cancelFetch once the request's context is done: its
\* client hung up, or its handler returned without stopping it.
CancelFetch(r) ==
    /\ r \in gone \/ At(r, "done")
    /\ follow[r] = "armed"
    /\ SetFollow(r, "fired")
    /\ UNCHANGED <<shared, pc, key, fl, holding, gone, fill>>

\* src.fetch answers with a photo (to be read into memory) or, from a source
\* that cannot be proxied, a video that is streamed through the cache.
FetchPhoto(r) ==
    /\ At(r, "fetch")
    /\ follow[r] # "fired"
    /\ key[r] \notin VideoKeys \cup StreamKeys
    /\ Goto(r, "read")
    /\ UNCHANGED <<shared, key, fl, holding, gone, follow, fill>>

FetchStream(r) ==
    /\ At(r, "fetch")
    /\ follow[r] # "fired"
    /\ key[r] \in StreamKeys
    /\ Goto(r, IF cacheOn THEN "streamput" ELSE "streamserve")
    /\ UNCHANGED <<shared, key, fl, holding, gone, follow, fill>>

\* Mutant: a video keeps its slot while it is played.
FetchVideoKeepsSlot(r) ==
    /\ At(r, "fetch")
    /\ follow[r] # "fired"
    /\ key[r] \in VideoKeys
    /\ Goto(r, "detach")
    /\ UNCHANGED <<shared, key, fl, holding, gone, follow, fill>>

\* A video: the slot goes back before anything is played.
FetchVideo(r) ==
    /\ At(r, "fetch")
    /\ follow[r] # "fired"
    /\ key[r] \in VideoKeys
    /\ ReleaseSlot(r)
    /\ Goto(r, "detach")
    /\ UNCHANGED <<cacheOn, cached, flights, doneClosed, videoClosed,
                   key, fl, gone, follow, fill>>

\* src.fetch or reading the photo fails: an error response, then the deferred
\* calls.
DownloadFails(r) ==
    /\ pc[r] \in {"fetch", "read"}
    /\ Goto(r, "unwind")
    /\ UNCHANGED <<shared, key, fl, holding, gone, follow, fill>>

\* io.ReadAll succeeds; transforming the bytes needs no slot.
ReadPhoto(r) ==
    /\ At(r, "read")
    /\ follow[r] # "fired"
    /\ ReleaseSlot(r)
    /\ Goto(r, IF cacheOn THEN "put" ELSE "serve")
    /\ UNCHANGED <<cacheOn, cached, flights, doneClosed, videoClosed,
                   key, fl, gone, follow, fill>>

\* Mutant: the photo is served before the flight is finished.
PutThenServe(r) ==
    /\ \/ At(r, "put") /\ Goto(r, "serve")
       \/ At(r, "streamput") /\ follow[r] # "fired" /\ Goto(r, "streamserve")
    /\ cached' = cached \cup {key[r]}
    /\ UNCHANGED <<cacheOn, flights, doneClosed, videoClosed, sem,
                   key, fl, holding, gone, follow, fill>>

\* cache.Put of a photo, or of a stream (served with slot and flight held).
PutSucceeds(r) ==
    /\ \/ At(r, "put") /\ Goto(r, "finish")
       \/ At(r, "streamput") /\ follow[r] # "fired" /\ Goto(r, "streamserve")
    /\ cached' = cached \cup {key[r]}
    /\ UNCHANGED <<cacheOn, flights, doneClosed, videoClosed, sem,
                   key, fl, holding, gone, follow, fill>>

\* cache.Put fails: before the entry is in place, or opening it.
PutFails(r) ==
    /\ pc[r] \in {"put", "streamput"}
    /\ cached' \in {cached, cached \cup {key[r]}}
    /\ Goto(r, "unwind")
    /\ UNCHANGED <<cacheOn, flights, doneClosed, videoClosed, sem,
                   key, fl, holding, gone, follow, fill>>

-----------------------------------------------------------------------------
(* A video with a flight: hand the download over to the background, unless *)
(* the client hung up first (stopFollowingRequest reports false).          *)


\* Mutant: the request keeps its flight although the background owns it now.
DetachKeepsFlight(r) ==
    /\ At(r, "detach")
    /\ fl[r] # None
    /\ follow[r] = "armed"
    /\ SetFollow(r, "stopped")
    /\ videoClosed' = videoClosed \cup {r}
    /\ fill' = [fill EXCEPT ![r] = "put"]
    /\ Goto(r, "proxy")
    /\ UNCHANGED <<cacheOn, cached, flights, doneClosed, sem, key, fl, holding, gone>>

\* Mutant: the download still follows the request that started it.
DetachStillFollowing(r) ==
    /\ At(r, "detach")
    /\ fl[r] # None
    /\ follow[r] = "armed"
    /\ videoClosed' = videoClosed \cup {r}
    /\ fl' = [fl EXCEPT ![r] = None]
    /\ fill' = [fill EXCEPT ![r] = "put"]
    /\ Goto(r, "proxy")
    /\ UNCHANGED <<cacheOn, cached, flights, doneClosed, sem, key, holding, gone, follow>>

Detach(r) ==
    /\ At(r, "detach")
    /\ fl[r] # None
    /\ follow[r] = "armed"
    /\ SetFollow(r, "stopped")
    /\ videoClosed' = videoClosed \cup {r}
    /\ fl' = [fl EXCEPT ![r] = None]
    /\ fill' = [fill EXCEPT ![r] = "put"]
    /\ Goto(r, "proxy")
    /\ UNCHANGED <<cacheOn, cached, flights, doneClosed, sem, key, holding, gone>>

CloseBody(r) ==
    /\ At(r, "detach")
    /\ fl[r] = None \/ follow[r] # "armed"
    /\ Goto(r, "proxy")
    /\ UNCHANGED <<shared, key, fl, holding, gone, follow, fill>>

-----------------------------------------------------------------------------
(* Leaving: the deferred calls, and finishFlight in its two halves. *)

\* Stop and cancel the download, give the slot back, and finish the flight
\* unless finish() ran already or the background owns it now.
Unwind(r) ==
    /\ At(r, "unwind")
    /\ SetFollow(r, IF follow[r] = "stopped" THEN "stopped" ELSE "off")
    /\ ReleaseSlot(r)
    /\ Goto(r, IF fl[r] # None THEN "abandon" ELSE "done")
    /\ UNCHANGED <<cacheOn, cached, flights, doneClosed, videoClosed, key, fl, gone, fill>>

\* Deletes whatever flight is registered for the key.
DeleteFlight(r) ==
    /\ pc[r] \in {"finish", "abandon"}
    /\ flights' = [flights EXCEPT ![key[r]] = None]
    /\ Goto(r, IF At(r, "finish") THEN "finished" ELSE "abandoned")
    /\ UNCHANGED <<cacheOn, cached, doneClosed, videoClosed, sem,
                   key, fl, holding, gone, follow, fill>>

\* Mutant: a flight that ends in an error is never announced.
CloseDoneNotUnwinding(r) ==
    /\ pc[r] \in Closing
    /\ doneClosed' = IF At(r, "finished") THEN doneClosed \cup {fl[r]} ELSE doneClosed
    /\ fl' = [fl EXCEPT ![r] = None]
    /\ Goto(r, IF At(r, "finished") THEN "serve" ELSE "done")
    /\ UNCHANGED <<cacheOn, cached, flights, videoClosed, sem,
                   key, holding, gone, follow, fill>>

CloseDone(r) ==
    /\ pc[r] \in Closing
    /\ doneClosed' = doneClosed \cup {fl[r]}
    /\ fl' = [fl EXCEPT ![r] = None]
    /\ Goto(r, IF At(r, "finished") THEN "serve" ELSE "done")
    /\ UNCHANGED <<cacheOn, cached, flights, videoClosed, sem,
                   key, holding, gone, follow, fill>>

-----------------------------------------------------------------------------
(* fillCacheInBackground, for the flight r led. *)

FillGoto(r, from, to) == fill[r] = from /\ fill' = [fill EXCEPT ![r] = to]

\* Put succeeds, or fails with or without an entry in place; it cannot
\* succeed once the download is cancelled.
FillPut(r) ==
    /\ FillGoto(r, "put", "delete")
    /\ cached' \in {cached} \cup {c \in {cached \cup {key[r]}} : follow[r] # "fired"}
    /\ UNCHANGED <<cacheOn, flights, doneClosed, videoClosed, sem,
                   pc, key, fl, holding, gone, follow>>

FillDeleteFlight(r) ==
    /\ FillGoto(r, "delete", "close")
    /\ flights' = [flights EXCEPT ![key[r]] = None]
    /\ UNCHANGED <<cacheOn, cached, doneClosed, videoClosed, sem,
                   pc, key, fl, holding, gone, follow>>

FillCloseDone(r) ==
    /\ FillGoto(r, "close", "done")
    /\ doneClosed' = doneClosed \cup {r}
    /\ UNCHANGED <<cacheOn, cached, flights, videoClosed, sem,
                   pc, key, fl, holding, gone, follow>>

-----------------------------------------------------------------------------
Loop(r)     == \/ LookupHit(r) \/ LookupMiss(r) \/ JoinAsLeader(r) \/ JoinAsFollower(r)
               \/ WaitDone(r) \/ WaitVideo(r) \/ WaitGone(r)
Download(r) == \/ AcquireSlot(r) \/ LeaveQueue(r)
               \/ FetchPhoto(r) \/ FetchStream(r) \/ FetchVideo(r) \/ DownloadFails(r)
               \/ ReadPhoto(r) \/ PutSucceeds(r) \/ PutFails(r)
               \/ Detach(r) \/ CloseBody(r)
Leave(r)    == Unwind(r) \/ DeleteFlight(r) \/ CloseDone(r)
Fill(r)     == FillPut(r) \/ FillDeleteFlight(r) \/ FillCloseDone(r)

\* What the proxy does by itself, given that Immich and the disk answer.
Step(r) == Loop(r) \/ Download(r) \/ Leave(r)

\* Every request may have been answered: nothing is left to do.
AllServed == /\ \A r \in Requests : At(r, "done") /\ fill[r] \in {"none", "done"}
             /\ UNCHANGED vars

Next ==
    \/ \E r \in Requests : Arrive(r) \/ HangUp(r) \/ Answer(r) \/ CancelFetch(r)
                           \/ Step(r) \/ Fill(r)
    \/ Evict
    \/ AllServed

Spec == Init /\ [][Next]_vars

\* Goroutines run, Immich's headers and bodies arrive or time out (immich
\* streamTimeout), and writing to a closed connection fails.  Nothing is
\* assumed of a client that stays connected: it may read as slowly as it
\* likes, for ever.
Fairness ==
    \A r \in Requests :
        /\ WF_vars(Step(r))
        /\ WF_vars(Fill(r))
        /\ WF_vars(r \in gone /\ Answer(r))

FairSpec == Spec /\ Fairness

-----------------------------------------------------------------------------
(* Safety. *)

\* The request goroutine, or its background fill, is responsible for ending
\* the flight that r registered.
RequestOwns(r) == fl[r] = r /\ pc[r] \in Leading
FillOwns(r)    == fill[r] \in {"put", "delete"}
Landing(r)     == pc[r] \in Closing \/ fill[r] = "close"

\* Every exit of serveMedia, and the hand-over to the background fill, leaves
\* a registered flight with exactly one goroutine that will finish it, under
\* the key it is registered for; and nobody else will delete that entry
\* (finishFlight deletes by key, whatever is registered there).
FlightOwned ==
    \A r \in Requests, k \in Keys :
        /\ flights[k] = r <=> key[r] = k /\ (RequestOwns(r) \/ FillOwns(r))
        /\ ~(RequestOwns(r) /\ FillOwns(r))

\* No channel is closed twice (which would panic): whoever is about to close
\* a flight's done or video channel is the first to.
ClosedOnce ==
    \A r \in Requests :
        /\ RequestOwns(r) \/ FillOwns(r) \/ Landing(r) => r \notin doneClosed
        /\ At(r, "detach") => r \notin videoClosed
        /\ pc[r] \in Closing => fl[r] = r /\ fill[r] = "none"

\* A follower waits for a flight whose channels are closed, or that some
\* goroutine is still going to finish.
WaiterNotStranded ==
    \A r \in Requests :
        At(r, "wait") => /\ fl[r] # None
                         /\ \/ fl[r] \in doneClosed
                            \/ RequestOwns(fl[r]) \/ FillOwns(fl[r]) \/ Landing(fl[r])

\* The slots: the channel holds one value per request that still has to take
\* one out, and whoever downloads a photo holds one of MEDIA_FETCH_CONCURRENCY.
SlotAccounting ==
    /\ sem = Cardinality(holding)
    /\ {r \in Requests : pc[r] \in {"fetch", "read"}} \subseteq holding
    /\ \A r \in holding : pc[r] \in {"fetch", "read", "streamput", "streamserve", "unwind"}

\* The complete download of a key, from queueing for it to storing it.
Downloading(r) == \/ pc[r] \in {"queue", "fetch", "detach", "read", "put", "streamput"}
                  \/ fill[r] = "put"

\* dlna/server.go:51-55: with a cache, no two downloads of one key at a time.
OneDownloadPerKey ==
    cacheOn => \A r, s \in Requests :
                   Downloading(r) /\ Downloading(s) /\ key[r] = key[s] => r = s

\* While a request sends a body to its client, at whatever pace the client
\* reads, it keeps no slot from others and no follower waiting, unless that
\* client has already gone.  (A video that cannot be proxied is the exception
\* the code makes.)
SlowClientHoldsNothing ==
    \A r \in Requests :
        pc[r] \in Sending /\ key[r] \notin StreamKeys =>
            /\ r \notin holding
            /\ RequestOwns(r) => r \in gone

\* A background fill is out of reach of the request that started it: its
\* client hanging up, or that request returning, cannot cancel the download.
FillSurvivesRequest ==
    \A r \in Requests : fill[r] # "none" => follow[r] = "stopped"

-----------------------------------------------------------------------------
(* Liveness. *)

\* No request depends on another one's client: whatever the others' clients
\* do, it starts answering its own client or ends.  (Except a follower of the
\* flight of a video that cannot be proxied, which its leader's client holds.)
EveryRequestAnswered ==
    \A r \in Requests :
        pc[r] # "idle" /\ key[r] \notin StreamKeys ~> pc[r] \in Sending \cup {"done"}

\* A client that hangs up frees its request wherever it is: waiting for a
\* flight, queueing for a slot, downloading or sending.
HangUpEnds == \A r \in Requests : r \in gone ~> At(r, "done")

-----------------------------------------------------------------------------
(* Refinement. *)

\* How far the flight that r leads has come.
Phase(r) == IF r \in doneClosed THEN "announced"
            ELSE IF Landing(r) THEN "landed"
            ELSE IF RequestOwns(r) \/ FillOwns(r) THEN "filling"
            ELSE "none"

\* The flight that r waits for.
Waits(r) == IF At(r, "wait") THEN fl[r] ELSE None

Flights == INSTANCE SingleFlight WITH
               PromptKeys <- Keys \ StreamKeys,
               Callers   <- Requests,
               filling   <- flights,
               phase     <- [r \in Requests |-> Phase(r)],
               streaming <- videoClosed,
               waits     <- [r \in Requests |-> Waits(r)],
               impatient <- gone

\* serveMedia's flights keep the promise of module SingleFlight ...
FlightsImplemented == Flights!Spec

\* ... and, scheduled fairly, every flight lands and releases its followers.
FlightsLand == Flights!FairSpec

=============================================================================
