---------------------------- MODULE ListingCache ----------------------------
(***************************************************************************)
(* The listing cache (dlna/listcache.go) and the SystemUpdateID            *)
(* (dlna/updateid.go) under concurrent ContentDirectory calls.             *)
(*                                                                         *)
(* A process is one Browse (or Search), which asks for the listings its    *)
(* container is made of and answers with them and the current UpdateID, or *)
(* one GetSystemUpdateID poll, which asks for every watched listing only   *)
(* to notice changes.  A listing's contents are the number of times it has *)
(* been edited in Immich; a cache entry is named by the call that loads    *)
(* it.  Time is a clock that ticks.                                        *)
(***************************************************************************)
EXTENDS Integers, Sequences

CONSTANTS
    Browses,     \* Browse calls
    Polls,       \* GetSystemUpdateID calls
    Keys,        \* listing keys, prefixed with their account
    Plans,       \* the sequences of listings that a Browse asks for
    PollPlan,    \* the watched listings (albums and people), in a poll's order
    TTLs,        \* the values of LISTING_CACHE_SECONDS considered; 0 disables the cache
    IdRange,     \* 2^32, the number of values of the UpdateID's type
    MaxTime,     \* bound on the clock
    MaxEdits,    \* bound on the edits of a listing
    MaxRestarts, \* bound on restarts of the proxy
    Failed,      \* the result of a load that failed
    None

Calls   == Browses \cup Polls
Watched == {PollPlan[i] : i \in DOMAIN PollPlan}

ASSUME PlansListKeys == /\ Plans \subseteq Seq(Keys) \ {<<>>}
                        /\ PollPlan \in Seq(Keys) \ {<<>>}
ASSUME PlansVisitOnce ==
    \A p \in Plans \cup {PollPlan} : \A i, j \in DOMAIN p : p[i] = p[j] => i = j
ASSUME CallsAreOneThing == Browses \cap Polls = {}
ASSUME NumbersAreNatural == /\ TTLs \subseteq Nat
                            /\ MaxTime \in Nat /\ MaxEdits \in Nat /\ MaxRestarts \in Nat
                            /\ IdRange \in Nat /\ IdRange >= 2
ASSUME NoneIsNothing == None \notin Calls \cup Nat \cup {Failed} /\ Failed \notin Nat

VARIABLES
    ttl,       \* listingCache.ttl, fixed at startup
    clock,
    immich,    \* per listing, its contents in Immich
    entries,   \* listingCache.entries: per key, the call that loads (or loaded) the entry
    done,      \* entries <<call, key>> whose done channel is closed
    val,       \* per entry, val or err, once set
    expires,   \* per entry, its expiry time
    id,        \* updateTracker.id
    seen,      \* updateTracker.seen
    pc,        \* where each call is
    plan,      \* per call, the listings it has yet to get, the current one first
    waits,     \* per call, the call whose entry it waits for
    got,       \* per call, the result of the listing it is at
    view,      \* per call, the contents it has got
    began,     \* per call, when it looked at the cache (history)
    answers,   \* the listings and UpdateIDs clients have been sent (history)
    bumps,     \* how often the UpdateID has changed since the proxy started (history)
    restarts

cacheVars   == <<entries, done, val, expires>>
trackerVars == <<id, seen, bumps>>
callVars    == <<pc, plan, waits, got, view, began>>
vars == <<ttl, clock, immich, entries, done, val, expires, id, seen, bumps,
          pc, plan, waits, got, view, began, answers, restarts>>

Versions == 0..MaxEdits
Nothing  == [k \in Keys |-> None]
Results  == Versions \cup {Failed}
Places   == {"idle", "ask", "load", "wait", "observe", "publish", "forget", "answer", "done", "dead"}

TypeOK ==
    /\ ttl \in TTLs
    /\ clock \in 0..MaxTime
    /\ immich \in [Keys -> Versions]
    /\ entries \in [Keys -> Calls \cup {None}]
    /\ done \in SUBSET (Calls \X Keys)
    /\ val \in [Calls \X Keys -> Results \cup {None}]
    /\ expires \in [Calls \X Keys -> 0..MaxTime + ttl]
    /\ id \in 1..IdRange - 1
    /\ seen \in [Keys -> Versions \cup {None}]
    /\ pc \in [Calls -> Places]
    /\ plan \in [Calls -> Seq(Keys)]
    /\ waits \in [Calls -> Calls \cup {None}]
    /\ \A c \in Calls : waits[c] # None <=> pc[c] = "wait"
    /\ got \in [Calls -> Results \cup {None}]
    /\ view \in [Calls -> [Keys -> Versions \cup {None}]]
    /\ began \in [Calls -> 0..MaxTime]
    /\ answers \subseteq [boot : 0..MaxRestarts, key : Keys, val : Versions,
                          id : 1..IdRange - 1, heard : Versions \cup {None}, bumps : Nat]
    /\ bumps \in Nat
    /\ restarts \in 0..MaxRestarts

Init ==
    /\ ttl \in TTLs
    /\ clock = 0
    /\ immich = [k \in Keys |-> 0]
    /\ entries = Nothing
    /\ done = {}
    /\ val = [e \in Calls \X Keys |-> None]
    /\ expires = [e \in Calls \X Keys |-> 0]
    /\ id = 1
    /\ seen = Nothing
    /\ bumps = 0
    /\ pc = [c \in Calls |-> "idle"]
    /\ plan = [c \in Calls |-> <<>>]
    /\ waits = [c \in Calls |-> None]
    /\ got = [c \in Calls |-> None]
    /\ view = [c \in Calls |-> Nothing]
    /\ began = [c \in Calls |-> 0]
    /\ answers = {}
    /\ restarts = 0

At(c, place)   == pc[c] = place
Goto(c, place) == pc' = [pc EXCEPT ![c] = place]

\* The listing a call is at, and the entry it would load for it.
Wanted(c) == Head(plan[c])
Own(c)    == <<c, Wanted(c)>>

-----------------------------------------------------------------------------
(* The environment. *)

\* Somebody changes an album or a person in Immich.
Edit ==
    /\ \E k \in Keys : /\ immich[k] < MaxEdits
                       /\ immich' = [immich EXCEPT ![k] = @ + 1]
    /\ UNCHANGED <<ttl, clock, cacheVars, trackerVars, callVars, answers, restarts>>

Tick ==
    /\ clock < MaxTime
    /\ clock' = clock + 1
    /\ UNCHANGED <<ttl, immich, cacheVars, trackerVars, callVars, answers, restarts>>

\* A control point calls Browse, or GetSystemUpdateID.
Begin(c) ==
    /\ At(c, "idle")
    /\ \E p \in IF c \in Polls THEN {PollPlan} ELSE Plans : plan' = [plan EXCEPT ![c] = p]
    /\ Goto(c, "ask")
    /\ UNCHANGED <<ttl, clock, immich, cacheVars, trackerVars, waits, got, view, began,
                   answers, restarts>>

\* The proxy is restarted: its memory, and the calls in progress, are gone.
Restart ==
    /\ restarts < MaxRestarts
    /\ restarts' = restarts + 1
    /\ entries' = Nothing
    /\ id' = 1
    /\ seen' = Nothing
    /\ bumps' = 0
    /\ pc' = [c \in Calls |-> IF pc[c] \in {"idle", "done"} THEN pc[c] ELSE "dead"]
    /\ plan' = [c \in Calls |-> <<>>]
    /\ waits' = [c \in Calls |-> None]
    /\ got' = [c \in Calls |-> None]
    /\ view' = [c \in Calls |-> Nothing]
    /\ began' = [c \in Calls |-> 0]
    /\ UNCHANGED <<ttl, clock, immich, done, val, expires, answers>>

-----------------------------------------------------------------------------
(* cachedListing. *)

Expired(e) == e \in done /\ clock > expires[e]

\* Every call first sweeps the entries that have expired.
Kept == [k \in Keys |-> IF entries[k] # None /\ Expired(<<entries[k], k>>)
                        THEN None ELSE entries[k]]

\* No cache: straight to Immich.
Direct(c) ==
    /\ At(c, "ask") /\ ttl = 0
    /\ Goto(c, "load")
    /\ began' = [began EXCEPT ![c] = clock]
    /\ UNCHANGED <<ttl, clock, immich, cacheVars, trackerVars, plan, waits, got, view,
                   answers, restarts>>

\* Under the cache's mutex: no entry, so register one and load it ...
Lead(c) ==
    /\ At(c, "ask") /\ ttl > 0
    /\ Kept[Wanted(c)] = None
    /\ entries' = [Kept EXCEPT ![Wanted(c)] = c]
    /\ Goto(c, "load")
    /\ began' = [began EXCEPT ![c] = clock]
    /\ UNCHANGED <<ttl, clock, immich, done, val, expires, trackerVars, plan, waits, got, view,
                   answers, restarts>>

\* ... or use the entry there is.
Follow(c) ==
    /\ At(c, "ask") /\ ttl > 0
    /\ Kept[Wanted(c)] # None
    /\ entries' = Kept
    /\ waits' = [waits EXCEPT ![c] = Kept[Wanted(c)]]
    /\ Goto(c, "wait")
    /\ began' = [began EXCEPT ![c] = clock]
    /\ UNCHANGED <<ttl, clock, immich, done, val, expires, trackerVars, plan, got, view,
                   answers, restarts>>

\* Call c has result r for the listing it is at.  A Browse fails with the
\* first load that fails, a poll ignores it; otherwise on to the next listing.
Take(c, r) ==
    /\ got' = [got EXCEPT ![c] = None]
    /\ began' = [began EXCEPT ![c] = 0]
    /\ IF c \in Browses /\ r = Failed
       THEN /\ plan' = [plan EXCEPT ![c] = <<>>]
            /\ view' = [view EXCEPT ![c] = Nothing]
            /\ Goto(c, "done")
       ELSE /\ plan' = [plan EXCEPT ![c] = Tail(@)]
            /\ view' = IF c \in Browses THEN [view EXCEPT ![c][Wanted(c)] = r] ELSE view
            /\ Goto(c, IF Len(plan[c]) > 1 THEN "ask" ELSE "answer")

\* The follower's entry is done: take its value or its error.
Wake(c) ==
    /\ At(c, "wait")
    /\ <<waits[c], Wanted(c)>> \in done
    /\ Take(c, val[<<waits[c], Wanted(c)>>])
    /\ waits' = [waits EXCEPT ![c] = None]
    /\ UNCHANGED <<ttl, clock, immich, cacheVars, trackerVars, answers, restarts>>

\* Immich answers, and the listing goes to the tracker if it is watched ...
LoadSucceeds(c) ==
    /\ At(c, "load")
    /\ got' = [got EXCEPT ![c] = immich[Wanted(c)]]
    /\ Goto(c, IF Wanted(c) \in Watched THEN "observe" ELSE "publish")
    /\ UNCHANGED <<ttl, clock, immich, cacheVars, trackerVars, plan, waits, view, began,
                   answers, restarts>>

\* ... or it does not.
LoadFails(c) ==
    /\ At(c, "load")
    /\ got' = [got EXCEPT ![c] = Failed]
    /\ Goto(c, "publish")
    /\ UNCHANGED <<ttl, clock, immich, cacheVars, trackerVars, plan, waits, view, began,
                   answers, restarts>>

\* A mutant: a load that failed returns at once and wakes nobody.
PublishSuccess(c) ==
    /\ At(c, "publish") /\ ttl > 0
    /\ IF got[c] = Failed
       THEN UNCHANGED <<val, expires, done>>
       ELSE /\ val' = [val EXCEPT ![Own(c)] = got[c]]
            /\ expires' = [expires EXCEPT ![Own(c)] = clock + ttl]
            /\ done' = done \cup {Own(c)}
    /\ IF got[c] = Failed
       THEN Goto(c, "forget") /\ UNCHANGED <<plan, got, view, began>>
       ELSE Take(c, got[c])
    /\ UNCHANGED <<ttl, clock, immich, entries, trackerVars, waits, answers, restarts>>

\* A mutant: the entry of a load that failed stays.
PublishFailure(c) ==
    /\ At(c, "publish") /\ ttl > 0
    /\ val' = [val EXCEPT ![Own(c)] = got[c]]
    /\ expires' = [expires EXCEPT ![Own(c)] = clock + ttl]
    /\ done' = done \cup {Own(c)}
    /\ Take(c, got[c])
    /\ UNCHANGED <<ttl, clock, immich, entries, trackerVars, waits, answers, restarts>>

\* The leader sets the entry's value and wakes the followers.  A value stays
\* for the TTL; an error is still to be removed.
Publish(c) ==
    /\ At(c, "publish") /\ ttl > 0
    /\ val' = [val EXCEPT ![Own(c)] = got[c]]
    /\ expires' = [expires EXCEPT ![Own(c)] = clock + ttl]
    /\ done' = done \cup {Own(c)}
    /\ IF got[c] = Failed
       THEN Goto(c, "forget") /\ UNCHANGED <<plan, got, view, began>>
       ELSE Take(c, got[c])
    /\ UNCHANGED <<ttl, clock, immich, entries, trackerVars, waits, answers, restarts>>

\* A mutant: whatever entry is there by now is removed.
ForgetAny(c) ==
    /\ At(c, "forget")
    /\ entries' = [entries EXCEPT ![Wanted(c)] = None]
    /\ Take(c, Failed)
    /\ UNCHANGED <<ttl, clock, immich, done, val, expires, trackerVars, waits, answers,
                   restarts>>

\* The leader of a load that failed removes its entry, unless a sweep has
\* removed it and another call registered one.
Forget(c) ==
    /\ At(c, "forget")
    /\ entries' = [entries EXCEPT ![Wanted(c)] = IF @ = c THEN None ELSE @]
    /\ Take(c, Failed)
    /\ UNCHANGED <<ttl, clock, immich, done, val, expires, trackerVars, waits, answers,
                   restarts>>

\* Without the cache the result goes straight to the caller.
ReturnDirect(c) ==
    /\ At(c, "publish") /\ ttl = 0
    /\ Take(c, got[c])
    /\ UNCHANGED <<ttl, clock, immich, cacheVars, trackerVars, waits, answers, restarts>>

-----------------------------------------------------------------------------
(* updateTracker. *)

\* A mutant: the counter wraps to 0.
BumpToZero(i) == (i + 1) % IdRange

\* The next id: 0 is skipped when the counter wraps.
Bump(i) == IF (i + 1) % IdRange = 0 THEN 1 ELSE (i + 1) % IdRange

\* A mutant: the listing is recorded before it is compared.
ObserveRecordsFirst(c) ==
    /\ At(c, "observe")
    /\ seen' = [seen EXCEPT ![Wanted(c)] = got[c]]
    /\ IF seen'[Wanted(c)] \notin {None, got[c]}
       THEN id' = Bump(id) /\ bumps' = bumps + 1
       ELSE UNCHANGED <<id, bumps>>
    /\ Goto(c, "publish")
    /\ UNCHANGED <<ttl, clock, immich, cacheVars, plan, waits, got, view, began, answers, restarts>>

\* observe: a listing that differs from the last one seen changes the id.
Observe(c) ==
    /\ At(c, "observe")
    /\ seen' = [seen EXCEPT ![Wanted(c)] = got[c]]
    /\ IF seen[Wanted(c)] \notin {None, got[c]}
       THEN id' = Bump(id) /\ bumps' = bumps + 1
       ELSE UNCHANGED <<id, bumps>>
    /\ Goto(c, "publish")
    /\ UNCHANGED <<ttl, clock, immich, cacheVars, plan, waits, got, view, began, answers, restarts>>

\* The response carries the id as it is by now, whenever the listings were
\* loaded.
Answer(c) ==
    /\ At(c, "answer")
    /\ answers' = answers \cup
           {[boot |-> restarts, key |-> k, val |-> view[c][k], id |-> id, heard |-> seen[k],
             bumps |-> bumps] : k \in {j \in Watched : c \in Browses /\ view[c][j] # None}}
    /\ view' = [view EXCEPT ![c] = Nothing]
    /\ Goto(c, "done")
    /\ UNCHANGED <<ttl, clock, immich, cacheVars, trackerVars, plan, waits, got, began, restarts>>

-----------------------------------------------------------------------------
Step(c) == \/ Direct(c) \/ Lead(c) \/ Follow(c) \/ Wake(c)
           \/ LoadSucceeds(c) \/ LoadFails(c) \/ Observe(c)
           \/ Publish(c) \/ Forget(c) \/ ReturnDirect(c) \/ Answer(c)

AllAnswered == (\A c \in Calls : pc[c] \in {"done", "dead"}) /\ UNCHANGED vars

Next == \/ Edit \/ Tick \/ Restart
        \/ \E c \in Calls : Begin(c) \/ Step(c)
        \/ AllAnswered

Spec == Init /\ [][Next]_vars

\* Goroutines run, and Immich answers or the HTTP client's timeout ends the
\* request.
FairSpec == Spec /\ \A c \in Calls : WF_vars(Step(c))

-----------------------------------------------------------------------------
(* Properties. *)

Loading(c, k) == /\ pc[c] \in {"load", "observe", "publish"}
                 /\ Wanted(c) = k

\* dlna/listcache.go:18-19, "Concurrent loads of the same key share one
\* Immich request": even when an entry expires and is replaced between a
\* failing leader's two visits to the mutex.
OneLoadPerKey ==
    ttl > 0 => \A k \in Keys, c, d \in Calls : Loading(c, k) /\ Loading(d, k) => c = d

\* dlna/listcache.go:19, "Failed loads are never cached": an error is in the
\* cache only until its leader's next step.
FailuresAreForgotten ==
    \A k \in Keys : entries[k] # None /\ val[<<entries[k], k>>] = Failed =>
        At(entries[k], "forget") /\ Wanted(entries[k]) = k

\* LISTING_CACHE_SECONDS: whoever waits for an entry, or is about to take its
\* value, looked no later than one TTL after its load had ended.  (No run checks
\* it: it is proved, as HitsAreFresh.)
NoStaleHits ==
    \A c \in Calls : At(c, "wait") /\ <<waits[c], Wanted(c)>> \in done =>
        began[c] <= expires[<<waits[c], Wanted(c)>>]

\* dlna/updateid.go:11-17: two responses of one run of the proxy carry one
\* UpdateID only if the proxy knew of the same contents of every watched
\* listing both times, unless the id has gone once round all its values.
IdTellsListingsApart ==
    \A r, s \in answers :
        r.boot = s.boot /\ r.key = s.key /\ r.id = s.id /\ r.heard # s.heard =>
            \/ None \in {r.heard, s.heard}
            \/ r.bumps - s.bumps >= IdRange - 1
            \/ s.bumps - r.bumps >= IdRange - 1

\* No call waits for ever: not for an entry whose load failed, nor for one
\* that was removed or replaced meanwhile.
CallsReturn == \A c \in Calls : At(c, "ask") ~> pc[c] \in {"answer", "done", "dead"}

-----------------------------------------------------------------------------
\* dlna/updateid.go:11-13: clients compare UpdateIDs "to decide whether their
\* cached view of the server is stale".  So one UpdateID goes with one
\* contents of a listing.
IdTellsViewsApart ==
    \A r, s \in answers : r.key = s.key /\ r.id = s.id => r.val = s.val
=============================================================================
