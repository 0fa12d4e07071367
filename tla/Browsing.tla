------------------------------ MODULE Browsing ------------------------------
(***************************************************************************)
(* Televisions that browse: each pages through a folder with repeated      *)
(* Browse calls, asks for the metadata of a child it was sent, descends    *)
(* into it, or opens an item, while listings expire, are loaded anew or    *)
(* cannot be, the library changes, and the hour turns.                     *)
(*                                                                         *)
(* It composes Folders (what a Browse answers, given its listings),        *)
(* Searches (how a listing is loaded) and Renditions (what an item is      *)
(* served as).  The listing cache and the timeline store appear here as    *)
(* the copies they hold; how they come to hold them is in ListingCache and *)
(* TimelineStore.  Accounts are taken to see the same library.             *)
(***************************************************************************)
EXTENDS Searches, Folders, Renditions

CONSTANTS
    TVs,
    Count,      \* per TV, its RequestedCount; 0 is no limit
    Criteria,   \* per TV, its SortCriteria
    Configs,    \* the configurations considered, each with the TVs there are, the folder where
                \* they begin and the kinds of folder they enter
    Files,      \* the files an opened item may turn out to be
    Hours,
    Today,      \* per hour, the date: year and day
    MapOrders   \* the orders considered in which a map of places yields its keys

ASSUME TodayIsADate == Hours \subseteq Nat /\ Today \in [Hours -> Nat \X Nat]
ASSUME ConfigsAreUsable ==
    \A c \in Configs :
        /\ c.library \subseteq Assets /\ c.maxW \in Nat /\ c.maxH \in Nat
        /\ c.users \in Nat \ {0} /\ c.extras \in Seq({"favorites", "random", "onthisday", "places"})
        /\ c.start = Id(c.start.user, c.start.path) /\ c.start.path \in Seq(ToSet(c.start.path)) \ {<<>>}
        /\ c.start.path[1] # "asset" /\ (c.start.path[1] = "places" => c.start.path = <<"places">>)
ASSUME RequestsAreUsable == \A t \in TVs : Count[t] \in Nat /\ Criteria[t] \in Seq(STRING)
ASSUME NamesAreRanked == \A x \in ToSet(Albums) \cup ToSet(People) : Title[x] \in Int
ASSUME MapsYieldAllKeys ==
    \A order \in MapOrders :
        /\ order \in Seq(STRING) /\ IsInjective(order)
        /\ \A a \in Assets : {Place[a][1], Place[a][2]} \subseteq ToSet(order)
ASSUME FilesAreFiles == \A f \in Files : IsFile(f)

VARIABLES
    cfg,
    hour,
    copies,   \* the listings in memory, by name
    tv,       \* per TV, where it is and what it has been sent
    opened    \* an opened item: its file, how it is listed, what the cache was filled with, and
              \* what was sent

vars == <<library, changes, job, cfg, hour, copies, tv, opened>>

\* A TV that arrives in a folder: got are the children it was sent, total the last TotalMatches,
\* meta the metadata of the child of.  Histories: promised is the childCount the folder was
\* listed with, and steady that it has been the same listing, in the same hour, since the TV arrived.
Arrived(folder, promised) ==
    [at |-> folder, got |-> <<>>, total |-> -1, call |-> "none", of |-> None, meta |-> None,
     promised |-> promised, steady |-> TRUE]

Now(order) == [hour |-> hour, today |-> Today[hour], order |-> order]

TypeOK ==
    /\ library \subseteq Assets /\ changes \in 0..MaxChanges
    /\ job.phase \in {"idle", "get", "oldest", "search", "failed"}
    /\ job.phase = "idle" => job = Idle
    /\ Cardinality(Running) <= IF job # Idle /\ IsOnThisDay(job.key) THEN Concurrency ELSE 1
    /\ cfg \in Configs /\ hour \in Hours
    /\ \A t \in TVs :
         /\ tv[t].call \in {"none", "children", "metadata"}
         /\ tv[t].total \in Nat \cup {-1}
         /\ tv[t].call = "metadata" => \E i \in DOMAIN tv[t].got : tv[t].got[i].id = tv[t].of

Init ==
    /\ cfg \in Configs
    /\ library = cfg.library
    /\ changes = 0
    /\ job = Idle
    /\ hour \in Hours
    /\ copies = <<>>
    /\ tv = [t \in TVs |-> Arrived(cfg.start, -1)]
    /\ opened = None

-----------------------------------------------------------------------------
(* Calls. *)

\* The listings a call needs.
Wants(t) == CASE tv[t].call = "children" -> Needs(cfg, tv[t].at, Today[hour])
              [] tv[t].call = "metadata" -> MetadataNeeds(cfg, tv[t].of)
              [] OTHER                   -> <<>>
Missing(t) == Where(Wants(t), ToSet(Wants(t)) \ DOMAIN copies)
Waiting(key) == {t \in TVs : Missing(t) # <<>> /\ Missing(t)[1] = key}

Ask(t) ==
    /\ tv[t].call = "none" /\ t \in cfg.tvs
    /\ Len(tv[t].got) # tv[t].total
    /\ tv' = [tv EXCEPT ![t].call = "children"]
    /\ UNCHANGED <<searchVars, cfg, hour, copies, opened>>

IsItem(id) == id.path[1] = "asset"

AskMetadata(t) ==
    /\ tv[t].call = "none" /\ tv[t].meta = None
    /\ \E i \in DOMAIN tv[t].got :
         /\ tv[t].got[i].id.path[1] \in cfg.enters
         /\ tv' = [tv EXCEPT ![t].call = "metadata", ![t].of = tv[t].got[i].id]
    /\ UNCHANGED <<searchVars, cfg, hour, copies, opened>>

\* cachedListing, timelineStore.get: the first listing there is no copy of is loaded.
Load(t) ==
    /\ tv[t].call # "none" /\ Missing(t) # <<>>
    /\ StartLoad(Missing(t)[1])
    /\ UNCHANGED <<cfg, hour, copies, tv, opened>>

LoadStep == LoadSteps /\ UNCHANGED <<cfg, hour, copies, tv, opened>>

\* The load's listing is kept; or it failed, and so do the calls that wait for it.
LoadEnds ==
    /\ EndLoad
    /\ IF LoadFails
       THEN /\ tv' = [t \in TVs |-> IF t \in Waiting(job.key) THEN [tv[t] EXCEPT !.call = "none"]
                                    ELSE tv[t]]
            /\ UNCHANGED copies
       ELSE /\ copies' = [key \in DOMAIN copies \cup {job.key} |->
                            IF key = job.key THEN Loaded ELSE copies[key]]
            /\ UNCHANGED tv
    /\ UNCHANGED <<cfg, hour, opened>>

\* A mutant: albums are sorted where they are, in the cache.
AnswerInPlace(t) ==
    /\ tv[t].call = "children" /\ Missing(t) = <<>>
    /\ \E order \in MapOrders :
         LET req    == parseSortCriteria(Criteria[t])
             answer == browse(cfg, tv[t].at, copies, Now(order), req)
             sent   == page(answer.children, Len(tv[t].got), Count[t])
         IN  /\ answer.found
             /\ tv' = [tv EXCEPT ![t].call = "none", ![t].got = @ \o sent,
                                 ![t].total = Len(answer.children)]
             /\ copies' = IF tv[t].at.path = <<"albums">>
                          THEN [copies EXCEPT ![<<"albums">>] = sortByTitle(@, LAMBDA a : Title[a], req)]
                          ELSE copies
    /\ UNCHANGED <<searchVars, cfg, hour, opened>>

\* The answer to a Browse of children, from the listings; a TV that is told that there is no
\* such object begins again.
Answer(t) ==
    /\ tv[t].call = "children" /\ Missing(t) = <<>>
    /\ \E order \in MapOrders :
         LET req    == parseSortCriteria(Criteria[t])
             answer == browse(cfg, tv[t].at, copies, Now(order), req)
             sent   == page(answer.children, Len(tv[t].got), Count[t])
         IN  tv' = [tv EXCEPT ![t] = IF answer.found
                      THEN [tv[t] EXCEPT !.call = "none", !.got = @ \o sent,
                                         !.total = Len(answer.children)]
                      ELSE Arrived(cfg.start, -1)]
    /\ UNCHANGED <<searchVars, cfg, hour, copies, opened>>

AnswerMetadata(t) ==
    /\ tv[t].call = "metadata" /\ Missing(t) = <<>>
    /\ tv' = [tv EXCEPT ![t].call = "none", ![t].meta = metadata(cfg, tv[t].of, copies)]
    /\ UNCHANGED <<searchVars, cfg, hour, copies, opened>>

-----------------------------------------------------------------------------
(* What a TV does with an answer.  It goes down the tree; back at the top it is another TV. *)

Descend(t) ==
    /\ tv[t].call = "none"
    /\ \E i \in DOMAIN tv[t].got :
         LET c == tv[t].got[i]
         IN  /\ c.id.path[1] \in cfg.enters
             /\ tv' = [tv EXCEPT ![t] = Arrived(c.id, IF tv[t].steady THEN c.count ELSE -1)]
    /\ UNCHANGED <<searchVars, cfg, hour, copies, opened>>

\* A TV that has waited too long for a load closes the connection; the load goes on.
GiveUp(t) ==
    /\ tv[t].call # "none"
    /\ tv' = [tv EXCEPT ![t].call = "none"]
    /\ UNCHANGED <<searchVars, cfg, hour, copies, opened>>

\* An item is opened, perhaps again: after a miss, whose lookup picks the rendition or fails; from
\* what an earlier miss left in the cache; or while that is being filled with a video.
Open(t) ==
    /\ cfg.opens
    /\ \E i \in DOMAIN tv[t].got : IsItem(tv[t].got[i].id)
    /\ \/ \E file \in IF opened = None THEN Files ELSE {opened.file}, lookup \in {"ok", "failed"} :
            opened' = [file |-> file, item |-> buildAssetItem(cfg, file),
                       cached |-> cacheFill(cfg, file, lookup), sent |-> handleMedia(cfg, file, lookup)]
       \/ opened # None /\ opened' = [opened EXCEPT !.sent = opened.cached]
       \/ /\ opened # None /\ isVideoMimeType(opened.cached.mime)
          /\ opened' = [opened EXCEPT !.sent = proxied(cfg, opened.file)]
    /\ UNCHANGED <<searchVars, cfg, hour, copies, tv>>

-----------------------------------------------------------------------------
(* What happens to the copies. *)

\* A copy expires.  A call that has got it still has it.
Expire(key) ==
    /\ key \in DOMAIN copies
    /\ \A t \in TVs : key \notin ToSet(Wants(t))
    /\ copies' = [k \in DOMAIN copies \ {key} |-> copies[k]]
    /\ tv' = [t \in TVs |-> IF key \in ToSet(Needs(cfg, tv[t].at, Today[hour]))
                            THEN [tv[t] EXCEPT !.steady = @ /\ tv[t].got = <<>>, !.promised = -1]
                            ELSE tv[t]]
    /\ UNCHANGED <<searchVars, cfg, hour, opened>>

\* A new hour, and with it perhaps a new date; a call has read the clock when it began.
Tick ==
    /\ hour' \in Hours \ {hour}
    /\ \A t \in TVs : tv[t].call = "none"
    /\ LET turns(t) == tv[t].got # <<>> /\ tv[t].at.path[1] \in {"random", "onthisday"}
       IN  tv' = [t \in TVs |-> [tv[t] EXCEPT !.steady = @ /\ ~turns(t)]]
    /\ UNCHANGED <<searchVars, cfg, copies, opened>>

ChangeLibrary == Change /\ UNCHANGED <<cfg, hour, copies, tv, opened>>

Next ==
    \/ \E t \in TVs : \/ Ask(t) \/ AskMetadata(t) \/ Load(t) \/ Answer(t) \/ AnswerMetadata(t)
                      \/ Descend(t) \/ GiveUp(t) \/ Open(t)
    \/ LoadStep \/ LoadEnds \/ \E key \in DOMAIN copies : Expire(key)
    \/ Tick \/ ChangeLibrary

Spec == Init /\ [][Next]_vars

\* A load's goroutines run, and a call to Immich answers or fails.
FairSpec == Spec /\ WF_vars(LoadStep) /\ WF_vars(LoadEnds)
-----------------------------------------------------------------------------
(* Properties. *)

\* What the children of a folder are sorted by, given the SortCriteria: the reference for
\* the order a TV sees.  Newest first where nothing is asked, but for Immich's own order of
\* albums and people and the folder of random assets.
SortKey(folder, id, req) ==
    LET up(n)      == IF req.descending THEN -n ELSE n
        byTitle    == req.property = "dc:title"
        bucket     == Tail(id.path)
        lastOf     == id.path[Len(id.path)]
    IN  CASE IsItem(id) ->
                 IF req.property = "dc:date" THEN up(Captured[lastOf])
                 ELSE IF byTitle THEN up(Title[lastOf])
                 ELSE IF folder.path[1] = "random" THEN 0 ELSE -Captured[lastOf]
          [] id.path[1] = "timeline" /\ bucket # <<>> ->
                 IF byTitle THEN up(Label(bucket))
                 ELSE IF bucket = Unknown THEN 1 ELSE -Label(bucket)
          [] id.path[1] = "place"                  ->
                 IF byTitle THEN up(Title[cityTitle(lastOf)]) ELSE Title[cityTitle(lastOf)]
          [] id.path[1] \in {"album", "person"}    -> IF byTitle THEN up(Title[lastOf]) ELSE 0
          [] OTHER                                 -> 0

\* A folder with two places of the same title: their order is the map's, new for every call, so
\* that a place may be on two pages and the other on none.
HasTies(t) ==
    \E order \in MapOrders :
        LET all == browse(cfg, tv[t].at, copies, Now(order), NoSort).children
        IN  \E i, j \in DOMAIN all :
              /\ i # j /\ all[i].id.path[1] = "place" /\ all[j].id.path[1] = "place"
              /\ SortKey(tv[t].at, all[i].id, NoSort) = SortKey(tv[t].at, all[j].id, NoSort)

\* While a folder's listing stays the same, the pages a TV is sent, one Browse after another and
\* whatever other TVs ask for meanwhile, add up to what one Browse without a limit would return,
\* in the order asked for: nothing twice, nothing left out.  Where no order is asked for that is
\* Immich's, which is broken if the library changes between two pages of its own.  (page,
\* contentdirectory.go:443-457; the clone of the cached albums, :255; the fixed sample,
\* extrafolders.go:207-221.)
PagesAreSuccessive ==
    \A t \in TVs : tv[t].steady /\ tv[t].got # <<>> /\ ~HasTies(t) =>
        LET got == tv[t].got
            req == parseSortCriteria(Criteria[t])
            key(i) == SortKey(tv[t].at, got[i].id, req)
            all(order) == browse(cfg, tv[t].at, copies, Now(order), req).children
        IN  /\ \E order \in MapOrders : IsPrefix(got, all(order)) /\ Len(all(order)) = tv[t].total
            /\ changes = 0 \/ req # NoSort => \A i, j \in DOMAIN got : i < j => key(i) <= key(j)

\* A listing loaded while the library does not change has every asset that it should have, once,
\* though it comes in pages and, for "On this day", from one search per year and time zones on
\* both sides of its date; if any of its searches fails there is no listing at all, rather than
\* one with a year missing.  Of an asset without a date nobody knows where Immich puts it among
\* the oldest.  (client.go:296-320, extrafolders.go:156-205.)
ListingsAreComplete ==
    /\ job.phase = "search" /\ Settled /\ ~LoadFails /\ ~IsGet(job.key) /\ job.steady /\ ~job.cut
    /\ IsOnThisDay(job.key) => \A a \in library : CapturedAt(a) # Zero
    =>
        LET day    == Tail(job.key)
            wanted == IF IsOnThisDay(job.key)
                      THEN {a \in library : \E y \in MinYear..day[1] - 1 : LocalCaptureDate(a) = <<y, day[2]>>}
                      ELSE Filter(job.key) \cap library
        IN  ToSet(Loaded) = wanted /\ IsInjective(Loaded)

\* Whether the childCount of a folder is promised to be the number of its children.  An album's
\* is Immich's count, and that of a year with months the number of its assets.
CountsChildren(id) == id.path[1] # "album" /\ ~(id.path[1] = "timeline" /\ HasMonths(cfg, id.path))

\* Every folder that a TV is sent is there when it asks for it, in the same account: its metadata
\* names the folder it was found in as its parent, and its childCount, TotalMatches and the number
\* of children it turns out to have agree.  An item's metadata names the account's root as its
\* parent, wherever it was found.  (The ObjectIDs that browseUserScope, browseTimeline and
\* browsePlaces make, and take apart again.)
TreeIsConsistent ==
    \A t \in TVs :
        /\ tv[t].steady /\ tv[t].meta # None =>
             /\ tv[t].meta.found
             /\ tv[t].meta.parent = tv[t].at \/ IsItem(tv[t].of)
             /\ \A i \in DOMAIN tv[t].got :
                  tv[t].got[i].id = tv[t].of /\ CountsChildren(tv[t].of) =>
                      tv[t].meta.count = tv[t].got[i].count
        /\ tv[t].promised # -1 /\ tv[t].total # -1 /\ CountsChildren(tv[t].at) =>
             tv[t].total = tv[t].promised

\* An opened photo is shown upright and whole by a TV that knows nothing of EXIF, and within
\* MAX_RESOLUTION, whether it was fetched for this TV or left in the cache by another; what is no
\* picture, or does not decode, is not touched.  (handleMedia's transform, server.go:252-255;
\* imageproc/.)
PictureAsPromised == opened # None => ShownAsPromised(cfg, opened.file, opened.sent)

\* An opened item is the rendition it was listed as, with that type, unless it was fetched when the
\* lookup of the asset failed: then its original is sent, and kept in the cache for later requests.
\* Three places decide this each for itself: buildAssetItem when the item is listed,
\* mediaVariantFor when it is fetched (videosource.go:33-40), openRange when it is proxied.  Where
\* a size was listed the bytes are the original's, with the exceptions of SentAsListed.
ItemsAreSentAsListed == opened # None => SentAsListed(cfg, opened.file, opened.item, opened.sent)

\* Every load ends, whatever fails: no search waits for ever for its slot, nor does the paging go
\* on for ever.  (onThisDaySearch's semaphore and wg.Wait, extrafolders.go:174-197.)
LoadsEnd == job # Idle ~> job = Idle

\* What config.go:74-82 and contentdirectory.go:567-575 say of the titles with a countdown: sorted
\* as text they put newer assets first.
NewerTitlesComeFirst ==
    LET before(x, y) == \E n \in DOMAIN x \cap DOMAIN y :
                            /\ x[n] < y[n] /\ \A m \in 1..n - 1 : x[m] = y[m]
    IN  \A t \in TVs : \A i, j \in DOMAIN tv[t].got :
            LET x == tv[t].got[i].id
                y == tv[t].got[j].id
            IN  IsItem(x) /\ IsItem(y) =>
                    LET a == x.path[2]
                        b == y.path[2]
                    IN  CapturedAt(a) > CapturedAt(b) /\ CapturedAt(b) # Zero =>
                            before(CountdownTitle(a), CountdownTitle(b))
=============================================================================
