# A verification development for immich-dlna-proxy

immich-dlna-proxy makes an Immich photo library visible to DLNA televisions: it
announces itself by SSDP, answers UPnP ContentDirectory calls (SOAP over HTTP)
with listings fetched from Immich, and serves the media themselves, through a
cache on disk. This directory holds TLA+ models of its concurrent and stateful
parts, TLC configurations that check them on small instances, and theorems that
TLAPS proves for instances of any size. All paths below are relative to the
repository.

    tlc -workers 2 -config media_server.cfg MCMediaServer.tla
    tlapm MediaServerProofs.tla

## 1. The system

| Component | State | Operations | Interacts with |
|---|---|---|---|
| Media serving, `dlna/server.go` | `flights` table under `flightsMu`, `fetchSem` channel, per flight the channels `done` and `video`, per request a context | `serveMedia`, `joinFlight`, `finishFlight`, `serveStream`, `fillCacheInBackground` | disk cache (Get, Put), Immich client (fetch), clients' connections |
| Disk cache, `cache/cache.go` | two files per entry, temporary files, mtimes, a mutex for sweeps | `Get`, `Put`, `evict` in a goroutine per Put | file system, other Puts' sweeps |
| Listing cache, `dlna/listcache.go` | `entries` under `mu`; per entry `done`, `val`, `err`, `expires` | `cachedListing` | Immich client, SystemUpdateID, Browse |
| SystemUpdateID, `dlna/updateid.go` | `id`, `seen` under `mu` | `observe`, `current`, `refreshSystemUpdateID` | listing cache loads, Browse responses, polls |
| Timeline store, `dlna/timelinestore.go` | per account `assets`, `fetchedAt`, `loading`, `firstDone`, `firstErr` | `get`, `warmUp`, the load goroutine | Immich client, Browse |
| ContentDirectory, `dlna/contentdirectory.go`, `timeline.go`, `extrafolders.go` | none of its own | Browse, Search: route an ObjectID, get listings, group, sort, page, render | listing cache, timeline store |
| SSDP, `dlna/ssdp.go` | two sockets | `RunSSDP`, `notifyLoop`, `respondMSearch`, `sendByebye` | the network, shutdown |
| Process, `main.go` | | startup, `WarmUp`, signal, shutdown | all of the above |
| Immich client, `immich/client.go` | per download a stall timer | listing with paging, streaming | Immich |
| Image processing, `imageproc/` | none | EXIF orientation, downscaling | media serving |
| Configuration, `config/config.go` | read once | `Load` | all of the above |

What makes each of them hard, and correct:

- **Media serving.** Requests for one key share one download. The leader may end
  in many ways (queue timeout, client gone, Immich error, video handed over to a
  background goroutine, success), and in each of them the flight must be ended
  once, by one goroutine, its followers woken, and the fetch slot given back
  once. A client that reads slowly must hold up nobody.
- **Disk cache.** Only the sweeps are serialized. Puts and Gets interleave with
  them, and with each other, one file-system call at a time, and the process may
  die anywhere. Entries must be whole and have their own MIME type, the budget
  must be kept, and no sweep may delete more than that takes.
- **Listing cache.** One load per key, failed loads forgotten, nothing older than
  the TTL, and nobody left waiting, while entries expire, are swept and are
  replaced between a leader's steps.
- **SystemUpdateID.** The id a client is sent must tell it whether what it was
  sent before is out of date.
- **Timeline store.** A waiting Browse is woken by the first load's end, failed or
  not; one load at a time; a refresh never loses the copy there is.
- **Browsing.** Paging through a folder by repeated calls shows every item once, in
  the order asked for, as long as the listing stays the same; the folders agree
  with one another about parents and counts; a listing got page by page, or by one
  search per year, has every asset once; and an item is sent as it was listed, though
  that is decided once when it is listed, again when it is fetched, and again by the
  bytes that come, for a picture that must be upright and fit.
- **SSDP and the process.** A signal may come at any time, a server may fail at any
  time: the process ends, and one that a signal has ended has first taken back what it
  announced. (One whose server fails ends at once, `main.go:114-116`, without a byebye.)

`PROJECT.json` lists the hazards line by line, with the properties that cover
them.

## 2. Plan

Done, in this order:

1. `SingleFlight`, `MediaServer`, `MediaServerProofs`.
2. `DiskCache`, `DiskCacheProofs`.
3. `ListingCache` (with the SystemUpdateID), `ListingCacheProofs`.
4. `TimelineStore`, `TimelineStoreProofs`.
5. `PhotoLibrary`, `Searches`, `Folders`, `Renditions` and `Browsing`, which composes
   them; `AlgorithmProofs`, `BrowsingProofs`, `TreeProofs`.
6. `Announcer`, `AnnouncerProofs`.

Left open: `stallTimeoutBody`, whose timer may fire just as a `Read` returns; a run
against "at most one refresh interval plus one fetch" (`timelinestore.go:34-36`),
which an account nobody browses for a while does not keep; an abstract LRU cache
with atomic Put, Get and Evict for `DiskCache`.

The abstract specification is `SingleFlight`, implemented by `MediaServer`. The
listing cache ends a flight the other way round (announce, then remove), so it does
not implement `SingleFlight`.

## 3. Modules

### SingleFlight

What a set of shared fills promises: at most one fill in progress per key; a
caller either begins one or follows the one in progress; a fill lands (is no
longer joined), is announced once after landing, and releases its followers then;
followers may leave earlier once it is known to stream, or when they lose
patience. `FairSpec` adds that a prompt fill lands and is announced.

### MediaServer

One process per HTTP request, and one per background fill. `pc` is where a
request is in `serveMedia`:

| `pc` | in `dlna/server.go` |
|---|---|
| `lookup`, `join`, `wait` | the loop at 326-344: `serveFromCache`, `joinFlight`, the follower's `select` |
| `queue` | the `select` on `fetchSem`, 360-368 |
| `fetch`, `read` | `src.fetch` 390, `io.ReadAll` 422 |
| `detach` | the video branch 396-412, after `releaseSlot` |
| `put`, `finish`, `finished` | `cache.Put` 443, then the two halves of `finishFlight` |
| `streamput`, `streamserve` | `serveStream`, 593-608 |
| `serve`, `proxy` | sending the body to the client |
| `unwind`, `abandon`, `abandoned` | the deferred calls and the deferred `finish` |

`flights`, `doneClosed`, `videoClosed` and `sem` are the shared state; `fl`,
`holding` (`slotHeld`) and `follow` (the `AfterFunc`) are `serveMedia`'s locals.
`finishFlight` is two actions because it unlocks before it closes `done`. A key is
a photo, a video that can be proxied, or a video from a source that cannot
(`StreamKeys`). The cache is the set of keys a Get would hit; `Evict` removes
any of them at any time. A queue timeout can only happen while all slots are
taken: a blocked send takes the slot the moment there is one. Without a cache
`cacheOn` is false and there are no flights.

### DiskCache

One process per Put and its sweep, and one per Get; one action per file-system
call (`os.WriteFile` is two: truncate, write). A file is which Put wrote it,
whether it is whole, and its mtime; a sidecar is which Put's type it holds, or
empty. `Get` reads the sidecar, opens the bytes, and touches the path, which may
by then be another file or none. Every call that returns an error may fail, except
deleting an existing file and the sweep's `Info` on one. `Crash` loses all
processes and keeps the files.

### ListingCache

One process per Browse, which asks for the listings of its container one after
another (`Plans`), and per GetSystemUpdateID poll. The two visits of a failing
leader to the mutex are separate actions (`Publish`, `Forget`), as are loading,
observing and publishing a listing, and reading the UpdateID for the response.
The expiry sweep at the head of `cachedListing` is part of `Lead` and `Follow`.
A listing's contents are the number of its edits: hashes are taken to differ when
contents do. `answers`, `began` and `bumps` are history variables.

### TimelineStore

One process per Browse that needs the timeline, and one per load goroutine; one
account, since accounts share only the mutex. `get` is its first visit to the
mutex (`GetCopy`, `GetJoins` or `GetRetries`, by what the entry holds), the
`select` (`Wake`, `GiveUp`) and the second visit (`Recheck`); a load is the listing
(`List`) and its visit to the mutex (`Fail`, `Store`). The `firstDone` channels are
numbered, and `closed` is the set of closed ones. `main` calls `WarmUp` before it
serves, so no Browse precedes it. The timeline is the number of edits the library
had when it was listed.

### PhotoLibrary, Searches, Folders, Renditions

Parts that `Browsing` composes.

- `PhotoLibrary` is what Immich reports of assets, its search order and pages, and
  Go's calendar. A year has a few days, each of them standing for a month; every
  fourth year has one day more, the last, which stands for 29 February. Instants are
  hours, so that time zones move dates.
- `Searches` is how one listing is loaded (`client.go:276-330`,
  `extrafolders.go:156-205`): a single GET, the paged search with its `nextPage`
  (also one that is no number), or for "On this day" the search for the oldest asset
  and then a goroutine per earlier year with its semaphore. Each page is a step,
  each may fail, and the library changes between them. `job` is the load in
  progress with its searches; `StartLoad`, `LoadSteps` and `EndLoad` are its life.
- `Folders` has what a Browse makes of its listings, as operators: `browse` for
  children and `metadata` for BrowseMetadata, by kind of ObjectID, with sorting,
  `page`, the groupings by year and month, places, random samples, and titles with
  a countdown. An ObjectID is an account and a path.
- `Renditions` has how an asset is listed (`buildAssetItem`), which of Immich's
  renditions is fetched for it (`mediaVariantFor`, whose lookup may fail) or proxied
  (`proxied`, for `openRange`, which makes no lookup), what Immich sends for it (`Fetched`,
  which for a video without a transcoded version is the original), and the orientation
  and downscaling of `imageproc`. A file is the MIME type Immich lists for it, the one it
  sends, and its bytes: their format, whether they decode, the orientation they name and
  their size. `imageproc` goes by the bytes and never by a type, and passes on what has
  another format or does not decode. `NoType` is a type Immich does not know, for which
  listing and client each have a default. A picture is, per position, the set of stored
  pixels it is made of, and `Upright` says what it should look like by reference.

### Browsing

One process per TV, which pages through a folder (`Ask`, `Answer`), asks for the
metadata of a child it was sent, descends into it, opens an item, or gives up. A
call reads what listings it needs (`Needs`, `MetadataNeeds`); the first there is no
copy of is loaded (`Load`, `LoadStep`, `LoadEnds`), and the call is answered once it
has them all. `copies` stands for the listing cache and the timeline store: how a
copy comes about there is in their own modules, here it may expire whenever no call
uses it. `Expire`, `Tick` and `ChangeLibrary` are the environment. `got`, `total` and
`meta` are what a TV was sent; `promised` and `steady` are histories. A map's order
is chosen anew for every answer. `opened` is an item a TV has opened: its file, how it was
listed, what a miss has put into the disk cache, and what was sent last. `Open` is a
miss, whose lookup may fail; a hit, perhaps on what a miss with a failed lookup left
there; or a request that comes while a video is still being downloaded, and is proxied.
How requests share the download is in `MediaServer`.

### Announcer

`main` from its signal handler on and the goroutines it starts: the HTTP server,
`RunSSDP` (`responder`), `notifyLoop` (`notify`, `burst`), and one goroutine per
answered M-SEARCH (`reply`). A datagram is an action, so farewell, burst and answers
interleave. `errc` and `signalled` are what `main` selects on. `told` and `after` are
histories of what clients hear. Targets are numbered in the order of
`searchTargets`. A tick comes 15 minutes after the last: `TimePasses` is possible
only when no burst and no farewell is under way, since those take no such time.

## 4. Runs

| Run | Instance | Shows |
|---|---|---|
| `media_server` | 3 requests, a photo and a video, 2 slots, symmetric requests | safety and `FlightsImplemented` |
| `media_progress` | 2 requests, a photo, a video and a stream, 1 slot, fair | liveness and the fair contract |
| `disk_cache` | 2 Puts, 1 Get, 3 keys, one left by an earlier run, budget of 1 or none, 1 crash, fair | safety of entries, temporary files, budget; every sweep ends |
| `disk_hit_type` | 2 Puts, 1 Get | violated: a hit with a type that is not its own |
| `listing_cache` | 2 Browses and a poll, a watched and an unwatched listing, TTL 0 and 1, `IdRange` 3 | one load, failures forgotten, ids |
| `listing_calls` | a Browse of a root and a poll, 2 watched listings, a restart, fair | every call returns |
| `update_stale` | 2 Browses | violated: old contents with a new id |
| `timeline_store` | 3 Browses, 4 loads, refresh interval and wait of 1, symmetric | one load, channels closed once, waiters woken, copies kept |
| `browsing` | 8 assets, 2 albums, 3 people; one configuration per kind of folder, 1 or 2 TVs, fair | paging, folders that agree, complete listings, pictures as promised, items sent as listed, loads that end |
| `title_order` | a timeline that begins before 1970 | violated: titles out of order |
| `announcer` | 3 targets, 2 M-SEARCHes, fair | the farewell is complete, the process ends |
| `byebye` | 2 targets | violated: an alive after the byebye |

Deadlock is checked wherever the system goes on: there each specification has a
step that stutters once everything is done, or an environment that never stops, so
any other end is an error. In `announcer` and `byebye` it is not, because the process
ends.

**Bounds.** Two slots and three requests let one hold each slot while a third
queues, and let a leader have two followers, one of which becomes the next leader.
A photo and a video are the two kinds that differ in how a flight ends; the third,
which holds slot and flight while it is served, is in `media_progress`. Three
keys and a budget of one entry are what two overlapping sweeps need to delete one
entry too many. Three calls are what the replaced entry at `listcache.go:77` needs:
a failing leader, the call that replaces its entry, and a third that must follow
it. Four loads are a first attempt that fails, its retry, and two refreshes, with
Browses that wait on the first channel and on the second. `IdRange` is 3 so that the id wraps. `MaxTime` 2 or 3 lets an entry of TTL 1
expire, a Browse give up and a copy go stale; `MaxEdits`, `MaxCrashes`, `MaxRestarts` bound what the environment does.

In `browsing` the assets are chosen for their dates: at both ends of the time
zones around one local date, on a leap day that by UTC lies in the next year, a day
beside, before 1970 and undated; one is no photo or video. Each configuration takes
those its kind of folder tells apart. Pages of two items and a `RequestedCount` of one
or two make several calls and several pages. `Comers` names the two assets that come
and go, and `MaxChanges` how often. Two searches at a time (`Concurrency`) for four
years make searches queue. TVs only walk down: one that goes back is another TV. JPEGs of 3 x 2
and 2 x 5 pixels under every orientation, and boxes that shrink one side or both, are
the cases of the transforms. The other files are the cases in which type and bytes
differ: a JPEG of no type, sent with one or none, and one listed as a HEIC; bytes that
are no JPEG though listed as one, or do not decode; a PNG and a HEIC; and videos, transcoded
or not, one of a type that does not begin with `video/`. Each is opened under
every `PHOTO_SOURCE` and `VIDEO_SOURCE`, with and without `MAX_RESOLUTION`. `Epoch` 160 stands for 1970 and `Width` 3 for the ten
digits of a countdown. Three targets instead of six are a first, a middle and a last
one of a burst.

**Fairness.** Goroutines are scheduled; a call to Immich ends, because the client
gives up on a stalled download (`immich/client.go`, `stallTimeoutBody`) and has
timeouts on listings; writing to a closed connection fails. Nothing is assumed of
a client that stays connected: it may read for ever. In `DiskCache` only the
sweeps are fair; one gets the mutex because each of the others takes it once.
In `Browsing` only a load's own steps are
fair: no TV has to ask or wait. In `Announcer`, `main` and the responder are
scheduled: when the context is done, its `AfterFunc` closes the listening socket
(`ssdp.go:73-75`), which ends the responder's `ReadFromUDP`; `notifyLoop` and the
answers need not be.

**Mutants.** Each property of a passing run is violated when one definition is
replaced by the mutant stated above it in the module: a forgotten reset, a dropped
error, a missing guard, a swapped order.

## 5. What the violated runs say

- `disk_hit_type`. "Never sees a half-written entry" (`cache.go:91-93`): the
  sidecar is truncated and rewritten in place, and a Get between the two gets an
  empty type. `EntryHasItsType` is what does hold: an entry that is not
  overwritten has its own type whenever it exists.
- `update_stale`. The UpdateID of a response is read when it is written
  (`contentdirectory.go:129`), not when its listings were fetched.
  `IdTellsListingsApart` is what does hold: one id, one state of the proxy's
  knowledge.
- `title_order`. The countdown that puts newer assets first in a list sorted by title
  (`contentdirectory.go:567-590`) has ten digits from 1970 on only; an older asset's has
  eleven, and sorts between the others.
- `byebye`. "Clients drop the server right away" (`ssdp.go:31-33`): `notifyLoop`, in the
  middle of a burst, announces a target again after its byebye. `FarewellIsComplete`
  is what does hold.

Some smaller differences from the comments were met and have no run.

- A request that misses the cache just before another one's fill ends, and joins a
  flight just after, leads a second download of the key (`server.go:327`, `:331`),
  against "share one Immich download instead of each starting their own" (`:51-55`);
  never two at once (`OneDownloadPerKey`).
- "Only JPEG/PNG are ever downscaled" (`contentdirectory.go:547`), so a size is left out for
  those alone; but it is left out by the listed type, and what is downscaled goes by
  the bytes (`resize.go:36-49`). A JPEG for which Immich lists another type, or none, has
  the original's size and is sent smaller. `SentAsListed` names this exception, and the
  one of a photo that is turned, which `docs/architecture.md:279-281` admits.
- A request whose lookup fails is sent the original "rather than failing the request"
  (`videosource.go:39-40`), which then stays in the cache for the requests after it,
  however the item is listed: `ItemsAreSentAsListed` leaves out what was fetched so.
- "Opened before the sweep starts" (`cache.go:69-73`) is true of Put's own sweep
  only: another's may delete the entry first (`OpenFails`).
- A year's childCount counts assets where its children are months (`timeline.go:138`,
  `:167-170`); `CountsChildren` leaves it out, as it does albums, whose count is
  Immich's.

## 6. Proofs

`MediaServerProofs` proves, for any number of requests (finite), keys and slots,
from the assumptions named in `MediaServer` (requests are finite, the kinds of keys
partition them, `Slots` is positive, `None` is neither a request nor a key):

- `Invariance`: `Ind == TypeOK /\ PlacesOK /\ FlightOwned /\ WaiterNotStranded /\
  SlotAccounting` is inductive. None of the parts is inductive alone. `PlacesOK`
  says what a request holds at each place (its own flight only between joining and
  the end of `finishFlight`, nothing once the background has it, the `AfterFunc`
  stopped exactly then) and whose channels can be closed; `FlightOwned` needs it
  because `finishFlight` deletes by key, whatever flight is there; and
  `WaiterNotStranded` needs `FlightOwned`, because a request follows the flight
  that the table names.
- from `Ind`: `TypeCorrect`, `FlightsAreOwned`, `WaitersAreNotStranded`,
  `SlotsAreAccounted`, `DownloadsAreBounded`, `ChannelsCloseOnce`,
  `DownloadsAreShared`, `SlowClientsHoldNothing`, `FillsSurviveRequests`.
- `FlightsAreImplemented`: every step of the media server is a step of
  `SingleFlight`, or changes none of its variables, under the mapping at the end
  of `MediaServer` (the flights table is `filling`, `Phase` is how far a flight
  has come, `Waits` whom a request follows).

The proof of `Invariance` has a lemma per conjunct of `Ind` and in each a step per
action. `ReleaseCounts` and `AcquireCounts` are the arithmetic of the slots, on
cardinalities.

`TimelineStoreProofs` proves all of the run's properties for any number of Browses,
loads and edits and any intervals, from `RefreshPositive`, `BoundsAreNatural` and
`NamesDiffer`. Its invariant `Ind` adds to them what they rest on: before `WarmUp`
there is nothing (`Dormant`), a channel is closed only with an error or a copy
beside it and a woken Browse waited on a closed one (`ClosedTells`, for
`NeverNothing`), and the copy, the outcome of the running load and the library are
in this order (`CopiesAreOrdered`, for `CopyNeverGoesBack`). `LoadsAlone` is
`OneLoadAtATime` without the cardinality: with it, the load that ends leaves none
running, so the channel it closes is the one everybody else waits on.

`DiskCacheProofs` proves the four invariants and both action properties of
`disk_cache` for any number of Puts (finite), Gets, keys and crashes and any sizes,
from the assumptions named in `DiskCache`. `EntriesAreWhole` rests on
`TempsAreWhole`: a temporary file is its own Put's, and complete once `io.Copy` has
returned. `EntryHasItsType` is not inductive: it needs that the sidecar is the Put's
own when it renames, and that a sweep between its two deletions has a victim whose
bytes stay away (`SidesAreRight`); and this needs that a sweep lists only what has
been stored (`SweptWasBorn`), so the one Put of the key is past its rename. `Sole` is
the module's `PutOnce` without the cardinality. The mutex is not needed for any of
them, but it is for the other two, `SweepRestoresBudget` and `NoOverEviction`: what a
running sweep knows (the names it has still to look at, and the sizes it has listed)
covers every file but those whose own sweep comes later (`SweepsSeeAll`), because no
other sweep deletes meanwhile (`SweepsAreSerial`); and where no key is stored twice,
all it has listed is still there (`SnapsAreTrue`). The totals the sweep compares are
sums, that is folds over sets of files. `SumIsUnits` turns a sum into the number of
elements of a set that has, per file, as many elements as its size (`Units`), so that
two totals are compared by an injection (`UnitsEmbedded`). Its induction over finite
sets is `SubsetInduction`, from the well-foundedness of inclusion.

`ListingCacheProofs` proves the four invariants of `listing_cache`, and that no hit is
stale (`NoStaleHits`, which no run checks), for any calls,
listings, plans, TTL and width of the id, from the assumptions in `ListingCache`; that a
plan names no listing twice (`PlansVisitOnce`) is what keeps a call from meeting its own
old entry. `LeadersOwn` (whoever loads has the entry in the table) gives
`OneLoadPerKey`, and holds because an entry being loaded is not done (`PlansAhead`), so
no sweep removes it. `NoStaleHits` needs only that no call looked in the future.
`IdTellsListingsApart` follows from two invariants about past answers: from each to
the present (`AnswersLeadHere`) and between each two (`AnswersAgree`) the id has moved
as many values as it was bumped, skipping 0 (`Later`), and without a bump no listing
was recorded over another. Stated for less than a full turn, this is linear, and the
remainder appears in one lemma, `BumpIsLater`.

`AnnouncerProofs` proves the two invariants of `announcer` for any number of targets
and M-SEARCHes, from `TargetsAssumption`. What `notifyLoop` may still say after a byebye
is bounded only because no second burst can begin: the channel holds no tick during a
burst (`TicksAreRare`), the farewell goes through the targets in order
(`FarewellInOrder`), and a target already announced after its byebye is behind the
burst (`LastBurst`). It rests on the timing of `TimePasses`: no burst and no farewell
takes the ticker's 15 minutes.

`AlgorithmProofs`, `BrowsingProofs` and `TreeProofs` prove all the safety properties of
the run `browsing` (`TypeOK`, `ListingsAreComplete`, `PagesAreSuccessive`,
`PictureAsPromised`, `ItemsAreSentAsListed` and `TreeIsConsistent`), for any library, albums, people, places,
page size, concurrency, time zones, map orders and number of TVs, from the assumptions
named where the constants are declared. `AlgorithmProofs` has what is without state: the
operators on sequences, the calendar, and pictures.

- The operators on sequences. `Where` (a filter), `SortFunc` and `NewestFirst` are
  recursive functions. What they compute takes induction over data, which the library's
  induction theorems, with an operator as parameter, cannot give here; it is stated
  over sets instead: `LeastNat` and `Induction` (a set of numbers that has 0 and with
  each its successor has them all), from well-foundedness of the numbers,
  `RecursionExists` for functions defined on 0..n, and induction over subsets. So
  `WhereProperties` (order kept, nothing lost), `SortFuncProperties` (a permutation, in
  order of the keys, the same for the same input), `NewestFirstProperties`,
  `PageProperties` (successive pages of a set join to its list) and
  `FlattenProperties` (listings joined one after another, disjoint, each complete).
- Pictures. `Upright` says for each position of a picture which stored pixels it is
  made of; `TurnedIsUpright` has the eight orientations, `BlocksKeepUpright` the box
  filter, whose cuts ascend and cover the picture (`CutsAscend`, `CutsCover`) and whose
  sizes fit (`SideFits`, with the rounding). `TransformedIsUpright` puts them in the order
  `handleMedia` does, for bytes that are a JPEG or a PNG and decode; `OthersPassThrough` has
  the rest. `FetchedIs` lists what Immich sends for each rendition, `FillIsShown` what
  the cache is filled with, `VariantIsListed` where listing and fetching agree; of them
  `RenditionAsPromised` is made, which has no state. `OpenedInv` carries it through
  `Browsing`: that what is in the cache was made of the item's file, with a lookup that
  succeeded or failed, is what a later hit needs. `OpenedPictureIsAsPromised` and
  `OpenedItemIsSentAsListed` follow from it.
- Listings. The invariant `BrowsingInv` says of a load how far each of its searches is:
  as long as the library has not changed, what a search has is the pages it asked for,
  of the set it wants. When all have ended, `Loaded` joins them; that no asset of an
  earlier year on this day is missed, or taken twice, is calendar arithmetic (`LaterYears`,
  `DateProperties`): `Window` reaches as far as the time zones, and the filter by local
  date takes the rest away. The oldest asset's year bounds the searches, since no asset
  is older than the last of `NewestFirst` (`YearProperties`).
- Children. `Routes` says what `browse` makes of each kind of ObjectID: a list of nodes,
  distinct, and in the order asked for (`BrowseInSort`). The proof of it is per kind of
  folder: sorted by a key, or the order of the listing, or the groups by date, or map
  keys in any order and then sorted.
- Pages. `CopiesInv` says what is in a listing the server keeps (a GET's answer, or a list of
  assets, newest first as long as the library has not changed), `TVsInv` what ObjectIDs a
  TV has been sent and asks about, and `SuccInv`, over both, that what a TV has got,
  as long as its folder stayed as it was, is a prefix of the children in some order of
  the maps, as long as its number. `FolderStays` says that a steady folder's children
  depend only on listings that did not change, and `OneOrderOfChildren` that without
  ties the map's order is no matter, so the next page continues the last
  (`NextPage`). None of the parts is inductive alone.
- The tree. `ChildrenAgree` has no state: whatever `browse` lists in a folder, the
  `metadata` of that child, made from the same listings, is found, with that folder as its
  parent and the same count, and `browse` of the child has that many children
  (`Described`, `Keeps`). Its proof has a lemma per kind of folder. For a year, a month or
  a place, a folder selects assets by group and its child selects again among all of them:
  the two selections are the same (`WhereTwice`, `GroupIsBucket`, `MonthOfYear`,
  `CountryHasCities`), and a group that is listed is not empty.
  A TV asks for listing, metadata and child at different times. `ToldInv` carries each
  answer to the next: as long as a TV's folder stays (`steady`), what it got is among
  what a Browse now offers (`Seen`) and the metadata it was told is that of what is
  offered (`MetaTold`). The count of the folder it came into is the number of children
  a Browse counts now (`PromiseTold`), as the listings that number was made from are
  those the child needs (`Keeps`), so they stay while the promise does; only an account's
  root, whose count is the same for all listings, needs others (`RootStays`).

The proofs corrected the model and its properties where TLC's instance was too kind:
the order of places by `dc:date` (`SortKey`), ties between places that no page has
shown yet (`HasTies`), the order of a listing during whose load the library changed
(`PagesAreSuccessive`), and "On this day" with undated assets, of which Immich's
oldest-first search may or may not report one as the oldest (`ListingsAreComplete`).
They rest on these assumptions, each named where its constants are declared: a model
year has at least 3 days (`YearsHaveDays`: a day is over in all time zones before its
next anniversary), titles and names are ranked (`TitlesAreRanked`, `NamesAreRanked`), a
map yields all its keys, each once (`MapsYieldAllKeys`), files have sizes and known
kinds, Immich sends the MIME type it lists, where it lists one, sends no photo as a video,
and no video's bytes are a picture (`FilesAreFiles`, `IsFile`), a TV begins at the ObjectID of a container that the program
makes (`ConfigsAreUsable`), and hours are numbers (`TodayIsADate`). `MCBrowsing` and
the others satisfy them: TLC evaluates each.
`SelectSeq` and `SortSeq` are not used in these modules: they take an operator, and a
lemma about them would too, which no prover here can instantiate. `Where` takes a set
and `SortFunc` a function instead.

Every safety property of the passing runs is a theorem. Only model-checked: the
liveness properties (`EveryRequestAnswered`, `FlightsLand`, `HangUpEnds`, `SweepsEnd`,
`CallsReturn`, `LoadsEnd`, `Stops`), as the prover has no ENABLED, so nothing under
fairness; and the fair half of the refinement.

## 7. Not modelled

- The Search action of ContentDirectory: it answers like a Browse of a fixed folder.
- `stallTimeoutBody` (see the plan); downloads in `MediaServer` may fail at any time.
- XML, DIDL-Lite and SOAP formatting, HTTP header copying, the fixed answers of the
  ConnectionManager and MediaReceiverRegistrar services, configuration parsing,
  logging, the health check, `buildUsers` and the choice of the advertised address:
  they keep no state and depend on no order of events.
- Finding the orientation tag in the bytes of a JPEG, decoding, encoding and the
  arithmetic of colours.
- The order of places whose titles are equal (`HasTies`): it is the map's, and new for
  every call, so their pages need not add up (hazard at `extrafolders.go:283`).

Deletion of an existing file is assumed to succeed, hashes of listings not to
collide, and accounts in `Browsing` to see one library. Panics of a handler are not
modelled apart from what deferred calls do on any error path.
