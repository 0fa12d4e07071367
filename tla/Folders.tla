------------------------------ MODULE Folders -------------------------------
(***************************************************************************)
(* What a Browse makes of the listings it has got: the folders and their   *)
(* children, in order (dlna/contentdirectory.go, timeline.go and           *)
(* extrafolders.go).                                                       *)
(*                                                                         *)
(* An ObjectID is the account it names (-1 if none) and a path within the  *)
(* account: "user:1:timeline:2024-05" is [user |-> 1, path |-> <<"timeline",*)
(* 2024, 5>>].  A bucket is <<year>>, <<year, day>> or Unknown.  A child is *)
(* its ObjectID and childCount, -1 if that is omitted.                     *)
(***************************************************************************)
EXTENDS PhotoLibrary

CONSTANTS
    RandomSize,  \* randomFolderSize
    Named,       \* the people who have been given a name
    Epoch,       \* 1970
    Width        \* the digits of a title's countdown

ASSUME SampleSize == RandomSize \in Nat

Id(user, path) == [user |-> user, path |-> path]
Top     == Id(-1, <<"0">>)
Outside == Id(-1, <<"-1">>)
Child(id, count) == [id |-> id, count |-> count]

\* Answers to the two kinds of Browse, and errNoSuchObject.
Listing(children)       == [found |-> TRUE, children |-> children]
NoListing               == [found |-> FALSE, children |-> <<>>]
Container(parent, count) == [found |-> TRUE, parent |-> parent, count |-> count]
NoObject                == [found |-> FALSE, parent |-> Outside, count |-> -1]

-----------------------------------------------------------------------------
(* Sorting and paging. *)

NoSort == [property |-> "", descending |-> FALSE]
Sorts  == [p \in {"+dc:title", "-dc:title", "+dc:date", "-dc:date"} |->
             [property   |-> IF p \in {"+dc:title", "-dc:title"} THEN "dc:title" ELSE "dc:date",
              descending |-> p \in {"-dc:title", "-dc:date"}]]

\* The first part of a SortCriteria that is recognized.
parseSortCriteria(criteria) ==
    LET known == Where(criteria, DOMAIN Sorts)
    IN  IF known = <<>> THEN NoSort ELSE Sorts[known[1]]

SortBy(items, Key(_), descending) ==
    SortFunc(items, [x \in ToSet(items) |-> IF descending THEN -Key(x) ELSE Key(x)])

sortByTitle(items, Key(_), req) ==
    IF req.property = "dc:title" THEN SortBy(items, Key, req.descending) ELSE items

sortPhotos(photos, req) ==
    IF req.property = "dc:date" THEN SortBy(photos, CapturedAt, req.descending)
    ELSE sortByTitle(photos, LAMBDA a : Title[a], req)

\* The children a Browse of count children from number start on is sent; 0 is no limit.
page(items, start, count) ==
    LET last == IF count > 0 /\ start + count < Len(items) THEN start + count ELSE Len(items)
    IN  IF start < 0 \/ start >= Len(items) THEN <<>> ELSE SubSeq(items, start + 1, last)

filterSupportedAssets(assets) ==
    Where(assets, {a \in ToSet(assets) : IsPhoto(a) \/ IsVideo(a)})

\* %0<Width>d: at least Width decimal digits.
Digits(n) ==
    LET k == CHOOSE m \in Width..Width + 3 : n < 10^m /\ (m = Width \/ n >= 10^(m - 1))
    IN  [i \in 1..k |-> (n \div 10^(k - i)) % 10]

\* What a title with a countdown begins with: the time from the asset's capture to the last
\* instant that has Width digits, and a space, which comes before every digit.
Space == -1
CountdownTitle(a) ==
    LET countdown == (10^Width - 1) - (CapturedAt(a) - Epoch)
    IN  Append(Digits(IF countdown < 0 THEN 0 ELSE countdown), Space)

\* One item per asset, all of one account.
Items(user, assets) == [i \in DOMAIN assets |-> Child(Id(user, <<"asset", assets[i]>>), -1)]
assetItems(user, assets, req) == Listing(Items(user, sortPhotos(assets, req)))

-----------------------------------------------------------------------------
(* Accounts and roots. *)

rootChildCount(cfg) == 3 + Len(cfg.extras)

\* The folder of an account: Browse goes on in it with the account's key.
RootOf(user)        == Id(user, <<"0">>)
RootParent(cfg)     == IF cfg.users > 1 THEN Top ELSE Outside

\* The account an ObjectID names is one that is configured.
parseUserObjectID(cfg, id) == IF cfg.users > 1 THEN id.user \in 0..cfg.users - 1 ELSE id.user = -1

Accounts(cfg) == [i \in 1..cfg.users |-> Child(RootOf(i - 1), rootChildCount(cfg))]

ListNamed(people) == Where(people, Named)

extraRootContainers(cfg, user) ==
    [i \in DOMAIN cfg.extras |-> Child(Id(user, <<cfg.extras[i]>>), -1)]

RootFolders(cfg, user, albums, people) ==
    <<Child(Id(user, <<"albums">>), Len(albums)),
      Child(Id(user, <<"people">>), Len(ListNamed(people))),
      Child(Id(user, <<"timeline">>), -1)>> \o extraRootContainers(cfg, user)

AlbumFolders(user, albums, sizes, req) ==
    LET sorted == sortByTitle(albums, LAMBDA a : Title[a], req)
    IN  [i \in DOMAIN sorted |-> Child(Id(user, <<"album", sorted[i]>>), sizes[sorted[i]])]

PersonFolders(user, people, req) ==
    LET sorted == sortByTitle(ListNamed(people), LAMBDA p : Title[p], req)
    IN  [i \in DOMAIN sorted |-> Child(Id(user, <<"person", sorted[i]>>), -1)]

-----------------------------------------------------------------------------
(* The timeline. *)

Unknown == <<0>>

timelineBucket(a, month) ==
    IF CapturedAt(a) = Zero THEN Unknown
    ELSE IF month THEN DateOf(CapturedAt(a)) ELSE <<YearOf(CapturedAt(a))>>

\* The order of the buckets' labels, "unknown" last.
Label(b) == IF b = Unknown THEN 1000000 ELSE 1000 * b[1] + (IF Len(b) = 2 THEN b[2] ELSE 0)

\* The buckets of media, latest first and Unknown last, with their assets; of one year only,
\* or of all if year is 0.
groupTimeline(media, month, year) ==
    LET kept    == Where(media, {a \in ToSet(media) :
                                   year = 0 \/ timelineBucket(a, month)[1] = year})
        found   == {timelineBucket(a, month) : a \in ToSet(kept)}
        buckets == SortFunc(SetToSeq(found), [b \in found |-> IF b = Unknown THEN 1 ELSE -Label(b)])
    IN  [i \in DOMAIN buckets |->
           [bucket |-> buckets[i],
            assets |-> Where(kept, {a \in ToSet(kept) : timelineBucket(a, month) = buckets[i]})]]

Grouped(cfg) == cfg.grouping \in {"year", "month"}
ByMonth(cfg) == cfg.grouping = "month"

\* A sub-container that can exist under this grouping, before looking at any asset.
IsBucket(cfg, path) ==
    path[1] = "timeline" /\ Grouped(cfg) /\ Len(path) \in (IF ByMonth(cfg) THEN {2, 3} ELSE {2})

\* A year that is a folder of months.
HasMonths(cfg, path) == ByMonth(cfg) /\ Len(path) = 2 /\ Tail(path) # Unknown

BucketAssets(media, path) ==
    Where(media, {a \in ToSet(media) : timelineBucket(a, Len(path) = 3) = Tail(path)})

GroupFolders(user, groups, req) ==
    LET sorted == sortByTitle(groups, LAMBDA g : Label(g.bucket), req)
    IN  Listing([i \in DOMAIN sorted |->
                   Child(Id(user, <<"timeline">> \o sorted[i].bucket), Len(sorted[i].assets))])

browseTimeline(cfg, id, media, req) ==
    LET whole  == id.path = <<"timeline">>
        mine   == IF whole THEN media ELSE BucketAssets(media, id.path)
        months == ~whole /\ HasMonths(cfg, id.path)
    IN  IF ~whole /\ mine = <<>> THEN NoListing
        ELSE IF (whole /\ Grouped(cfg)) \/ months
        THEN GroupFolders(id.user, groupTimeline(mine, months, IF months THEN id.path[2] ELSE 0), req)
        ELSE assetItems(id.user, mine, req)

\* A mutant: months hang directly under the timeline.
bucketMetadataFlat(cfg, id, media) ==
    LET mine == BucketAssets(media, id.path)
    IN  IF mine = <<>> THEN NoObject ELSE Container(Id(id.user, <<"timeline">>), Len(mine))

\* BrowseMetadata of a year or a month.
bucketMetadata(cfg, id, media) ==
    LET mine == BucketAssets(media, id.path)
    IN  IF mine = <<>> THEN NoObject
        ELSE Container(Id(id.user, IF Len(id.path) = 3 THEN <<"timeline", id.path[2]>> ELSE <<"timeline">>),
                       IF HasMonths(cfg, id.path) THEN Len(groupTimeline(mine, TRUE, 0)) ELSE Len(mine))

-----------------------------------------------------------------------------
(* The optional folders. *)

\* Any choice that the hour and the account fix.
randomSample(media, hour, user) ==
    LET n == IF RandomSize < Len(media) THEN RandomSize ELSE Len(media)
    IN  [i \in 1..n |-> media[((i + hour + user + 2) % Len(media)) + 1]]

cityTitle(city) == IF city = "" THEN "Other" ELSE city

ASSUME TitlesAreRanked ==
    \A a \in Assets : /\ Title[a] \in Int /\ Title[cityTitle(Place[a][2])] \in Int
                      /\ Place[a][1] # "" => Title[Place[a][1]] \in Int

Located(media) == Where(media, {a \in ToSet(media) : Place[a][1] # ""})
InCountry(media, c) == Where(Located(media), {a \in ToSet(media) : Place[a][1] = c})
InCity(media, c, city) == Where(InCountry(media, c), {a \in ToSet(media) : Place[a][2] = city})
Countries(media) == {Place[a][1] : a \in ToSet(Located(media))}
Cities(media, c) == {Place[a][2] : a \in ToSet(InCountry(media, c))}

\* One container per key of a map, which yields its keys in any order; alphabetical, then as asked.
PlaceFolders(keys, order, TitleOf(_), ChildOf(_), req) ==
    LET Key(k) == Title[TitleOf(k)]
        found  == Where(order, keys)
        sorted == sortByTitle(SortBy(found, Key, FALSE), Key, req)
    IN  Listing([i \in DOMAIN sorted |-> ChildOf(sorted[i])])

browsePlaces(id, media, order, req) ==
    LET placeID(rest) == Id(id.user, <<"place">> \o rest)
    IN  CASE id.path = <<"places">> ->
                 PlaceFolders(Countries(media), order, LAMBDA c : c,
                              LAMBDA c : Child(placeID(<<c>>), Cardinality(Cities(media, c))), req)
          [] Len(id.path) = 2 /\ id.path[2] \in Countries(media) ->
                 PlaceFolders(Cities(media, id.path[2]), order, cityTitle,
                              LAMBDA c : Child(placeID(<<id.path[2], c>>),
                                               Len(InCity(media, id.path[2], c))), req)
          [] Len(id.path) = 3 /\ InCity(media, id.path[2], id.path[3]) # <<>> ->
                 assetItems(id.user, InCity(media, id.path[2], id.path[3]), req)
          [] OTHER -> NoListing

\* BrowseMetadata of a country or a city.
placeMetadata(id, media) ==
    CASE Len(id.path) = 2 /\ id.path[2] \in Countries(media) ->
             Container(Id(id.user, <<"places">>), Cardinality(Cities(media, id.path[2])))
      [] Len(id.path) = 3 /\ InCity(media, id.path[2], id.path[3]) # <<>> ->
             Container(Id(id.user, <<"place", id.path[2]>>), Len(InCity(media, id.path[2], id.path[3])))
      [] OTHER -> NoObject

\* Which optional folder a path belongs to.
ExtraFolder(path) == IF path[1] = "place" THEN "places" ELSE path[1]
extraFolderFor(cfg, path) == ExtraFolder(path) \in ToSet(cfg.extras)

browseExtraFolder(id, media, now, req) ==
    CASE ExtraFolder(id.path) = "places" -> browsePlaces(id, media, now.order, req)
      [] ExtraFolder(id.path) = "random" ->
             assetItems(id.user, randomSample(media, now.hour, id.user), req)
      [] OTHER -> assetItems(id.user, media, req)
-----------------------------------------------------------------------------
(* Routing: browseMultiUser and browseUserScope. *)

IsTop(cfg, id) == cfg.users > 1 /\ id = Top

\* The listing of Immich that a path's children are made from.
Source(path, today) ==
    CASE path[1] \in {"timeline", "random", "places", "place"} -> <<"timeline">>
      [] path[1] = "onthisday"                                 -> <<"onthisday">> \o today
      [] OTHER                                                 -> path

\* The listings a Browse asks for, in this order; an ObjectID that cannot exist asks for none.
Needs(cfg, id, today) ==
    IF \/ IsTop(cfg, id) \/ ~parseUserObjectID(cfg, id)
       \/ id.path[1] = "timeline" /\ Len(id.path) > 1 /\ ~IsBucket(cfg, id.path)
    THEN <<>>
    ELSE CASE id.path = <<"0">>       -> << <<"albums">>, <<"people">> >>
           [] id.path[1] = "asset"    -> << <<"getasset", id.path[2]>> >>
           [] OTHER                   -> << Source(id.path, today) >>

\* The same for BrowseMetadata, which the fixed folders answer by themselves.
MetadataNeeds(cfg, id) ==
    IF IsTop(cfg, id) \/ ~parseUserObjectID(cfg, id) THEN <<>>
    ELSE CASE id.path[1] = "album"  -> << id.path, <<"getalbum", id.path[2]>> >>
           [] id.path[1] = "person" -> << <<"getperson", id.path[2]>> >>
           [] id.path[1] = "asset"  -> << <<"getasset", id.path[2]>> >>
           [] id.path[1] \in {"albums", "people"} -> << id.path >>
           [] id.path[1] = "place" \/ IsBucket(cfg, id.path) -> << <<"timeline">> >>
           [] OTHER -> <<>>

\* The children of id, given the listings; now is the hour, the date and the order in which
\* maps yield their keys.
browseUserScope(cfg, id, lists, now, req) ==
    LET media == filterSupportedAssets(lists[Source(id.path, now.today)])
    IN  CASE id.path = <<"0">> ->
                 Listing(RootFolders(cfg, id.user, lists[<<"albums">>], lists[<<"people">>]))
          [] id.path = <<"albums">> ->
                 Listing(AlbumFolders(id.user, lists[id.path], cfg.albumSizes, req))
          [] id.path = <<"people">>   -> Listing(PersonFolders(id.user, lists[id.path], req))
          [] id.path = <<"timeline">> -> browseTimeline(cfg, id, media, req)
          [] id.path[1] = "timeline" /\ Len(id.path) > 1 ->
                 IF IsBucket(cfg, id.path) THEN browseTimeline(cfg, id, media, req) ELSE NoListing
          [] extraFolderFor(cfg, id.path)         -> browseExtraFolder(id, media, now, req)
          [] id.path[1] \in {"album", "person"}   -> assetItems(id.user, media, req)
          [] id.path[1] = "asset"                 -> Listing(Items(id.user, Tail(id.path)))
          [] OTHER -> NoListing

browse(cfg, id, lists, now, req) ==
    IF IsTop(cfg, id) THEN Listing(Accounts(cfg))
    ELSE IF parseUserObjectID(cfg, id) THEN browseUserScope(cfg, id, lists, now, req)
    ELSE NoListing

metadata(cfg, id, lists) ==
    LET media == filterSupportedAssets(lists[Source(id.path, <<>>)])
        in(parent, count) == Container(Id(id.user, parent), count)
    IN  IF IsTop(cfg, id) THEN Container(Outside, cfg.users)
        ELSE IF ~parseUserObjectID(cfg, id) THEN NoObject
        ELSE
        CASE id.path = <<"0">>      -> Container(RootParent(cfg), rootChildCount(cfg))
          [] id.path = <<"albums">> -> in(<<"0">>, Len(lists[id.path]))
          [] id.path = <<"people">> -> in(<<"0">>, Len(ListNamed(lists[id.path])))
          [] id.path = <<"timeline">> \/ id.path[1] \in ToSet(cfg.extras) -> in(<<"0">>, -1)
          [] IsBucket(cfg, id.path) -> bucketMetadata(cfg, id, media)
          [] id.path[1] = "place" /\ extraFolderFor(cfg, id.path) -> placeMetadata(id, media)
          [] id.path[1] = "album"  -> in(<<"albums">>, Len(media))
          [] id.path[1] = "person" -> in(<<"people">>, -1)
          [] id.path[1] = "asset"  -> in(<<"0">>, -1)
          [] OTHER -> NoObject
=============================================================================
