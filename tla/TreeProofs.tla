----------------------------- MODULE TreeProofs -----------------------------
(***************************************************************************)
(* Proofs about the tree that Browsing's televisions walk: a child agrees  *)
(* with what it turns out to be.                                           *)
(*                                                                         *)
(* The first parts have no state: for each kind of folder, from the same   *)
(* listings, the metadata of a child names the folder and the child's      *)
(* count, and a Browse of the child returns as many children as that       *)
(* (ChildrenAgree).  The last part follows a TV, which may ask for these   *)
(* at different times.                                                     *)
(***************************************************************************)
EXTENDS BrowsingProofs
-----------------------------------------------------------------------------
(* Counts.  What a folder is listed with is what it turns out to have. *)

\* One element more.
LEMMA WhereOneMore ==
    ASSUME NEW T, NEW r \in Seq(T), NEW x \in T, NEW set
    PROVE  Where(Append(r, x), set) = IF x \in set THEN Append(Where(r, set), x) ELSE Where(r, set)
<1> DEFINE s == Append(r, x)
           N == Len(r)
<1>1. s \in Seq(T) /\ N \in Nat /\ Len(s) = N + 1 /\ s[N + 1] = x /\ \A n \in 1..N : s[n] = r[n]
    OBVIOUS
<1>2. PICK f : Selecting(f, T, r, set)
    BY WhereSteps
<1>3. PICK g : Selecting(g, T, s, set)
    BY <1>1, WhereSteps
<1> HIDE DEF s
<1>4. /\ f[0] = <<>> /\ Where(r, set) = f[N]
      /\ \A n \in 1..N : f[n] = IF r[n] \in set THEN Append(f[n - 1], r[n]) ELSE f[n - 1]
    BY <1>2 DEF Selecting
<1>5. /\ g[0] = <<>> /\ Where(s, set) = g[N + 1]
      /\ \A n \in 1..N + 1 : g[n] = IF s[n] \in set THEN Append(g[n - 1], s[n]) ELSE g[n - 1]
    BY <1>1, <1>3 DEF Selecting
<1> HIDE DEF N
<1> DEFINE S == {n \in 0..N : g[n] = f[n]}
<1>6. 0 \in S
    BY <1>1, <1>4, <1>5
<1>7. ASSUME NEW n \in 1..N, n - 1 \in S PROVE n \in S
  <2>1. f[n] = IF r[n] \in set THEN Append(f[n - 1], r[n]) ELSE f[n - 1]
      BY <1>4
  <2>2. g[n] = IF s[n] \in set THEN Append(g[n - 1], s[n]) ELSE g[n - 1]
      BY <1>1, <1>5
  <2>3. s[n] = r[n] /\ g[n - 1] = f[n - 1] /\ n \in 0..N
      BY <1>1, <1>7
  <2> QED
      BY <2>1, <2>2, <2>3
<1> HIDE DEF S
<1>8. \A n \in 0..N : n \in S
    BY <1>1, <1>6, <1>7, InductionTo
<1>9. g[N] = f[N]
    BY <1>1, <1>8 DEF S
<1>10. g[N + 1] = IF s[N + 1] \in set THEN Append(g[N], s[N + 1]) ELSE g[N]
  <2>1. N + 1 \in 1..N + 1 /\ (N + 1) - 1 = N
      BY <1>1
  <2> QED
      BY <1>5, <2>1
<1>11. Where(s, set) = IF x \in set THEN Append(Where(r, set), x) ELSE Where(r, set)
    BY <1>1, <1>4, <1>5, <1>9, <1>10
<1> QED
    BY <1>11 DEF s

\* Of nothing, nothing is selected.
LEMMA WhereOfNone == \A set : Where(<<>>, set) = <<>>
<1> TAKE set
<1>1. <<>> \in Seq({})
    OBVIOUS
<1>2. Where(<<>>, set) \in Seq({})
    BY <1>1, WhereProperties
<1> QED
    BY <1>2

\* To select twice is to select once.
LEMMA WhereTwice ==
    ASSUME NEW T, NEW s \in Seq(T), NEW one, NEW two, NEW both,
           \A x \in ToSet(s) : x \in both <=> x \in one /\ x \in two
    PROVE  Where(Where(s, one), two) = Where(s, both)
<1> DEFINE N == Len(s)
<1>0. \A r \in Seq(T), x \in T :
         Where(Append(r, x), two) = IF x \in two THEN Append(Where(r, two), x) ELSE Where(r, two)
    BY WhereOneMore
<1>1. N \in Nat /\ \A n \in 1..N : s[n] \in T /\ s[n] \in ToSet(s)
    BY DEF ToSet
<1>2. PICK f : Selecting(f, T, s, one)
    BY WhereSteps
<1>3. PICK g : Selecting(g, T, s, both)
    BY WhereSteps
<1>4. /\ f \in [0..N -> Seq(T)] /\ f[0] = <<>> /\ Where(s, one) = f[N]
      /\ \A n \in 1..N : f[n] = IF s[n] \in one THEN Append(f[n - 1], s[n]) ELSE f[n - 1]
    BY <1>2 DEF Selecting
<1>5. /\ g[0] = <<>> /\ Where(s, both) = g[N]
      /\ \A n \in 1..N : g[n] = IF s[n] \in both THEN Append(g[n - 1], s[n]) ELSE g[n - 1]
    BY <1>3 DEF Selecting
<1> HIDE DEF N
<1> DEFINE S == {n \in 0..N : Where(f[n], two) = g[n]}
<1>6. 0 \in S
    BY <1>1, <1>4, <1>5, WhereOfNone
<1>7. ASSUME NEW n \in 1..N, n - 1 \in S PROVE n \in S
  <2>1. n - 1 \in 0..N /\ n \in 0..N /\ Where(f[n - 1], two) = g[n - 1]
      BY <1>1, <1>7
  <2>2. f[n - 1] \in Seq(T)
      BY <1>4, <2>1
  <2>3. f[n] = IF s[n] \in one THEN Append(f[n - 1], s[n]) ELSE f[n - 1]
      BY <1>4
  <2>4. g[n] = IF s[n] \in both THEN Append(g[n - 1], s[n]) ELSE g[n - 1]
      BY <1>5
  <2>5. s[n] \in T /\ (s[n] \in both <=> s[n] \in one /\ s[n] \in two)
      BY <1>1
  <2>6. Where(Append(f[n - 1], s[n]), two)
        = IF s[n] \in two THEN Append(Where(f[n - 1], two), s[n]) ELSE Where(f[n - 1], two)
      BY <1>0, <2>2, <2>5
  <2>7. Where(f[n], two) = g[n]
      BY <2>1, <2>3, <2>4, <2>5, <2>6
  <2> QED
      BY <2>1, <2>7
<1> HIDE DEF S
<1>8. \A n \in 0..N : n \in S
    BY <1>1, <1>6, <1>7, InductionTo
<1>9. Where(f[N], two) = g[N]
    BY <1>1, <1>8 DEF S
<1> QED
    BY <1>4, <1>5, <1>9

\* What is found in a list is found in a selection of it.
LEMMA WhereNonempty ==
    ASSUME NEW T, NEW s \in Seq(T), NEW set, NEW x \in ToSet(s), x \in set
    PROVE  Where(s, set) # <<>>
<1>1. x \in ToSet(Where(s, set))
    BY WhereProperties
<1>2. ToSet(<<>>) = {}
    BY DEF ToSet
<1> QED
    BY <1>1, <1>2

\* A list without repetitions is as long as the set of its elements is large.
LEMMA InjectiveLength ==
    ASSUME NEW s, IsList(s), IsInjective(s)
    PROVE  Len(s) = Cardinality(ToSet(s)) /\ IsFiniteSet(ToSet(s))
<1>1. Len(s) \in Nat /\ DOMAIN s = 1..Len(s)
    BY ListLen
<1>2. IsFiniteSet(1..Len(s)) /\ Cardinality(1..Len(s)) = Len(s)
  <2>1. IsFiniteSet(1..Len(s)) /\ Cardinality(1..Len(s)) = IF 1 > Len(s) THEN 0 ELSE Len(s) - 1 + 1
      BY <1>1, FS_Interval
  <2> QED
      BY <1>1, <2>1
<1>3. s \in Bijection(DOMAIN s, ToSet(s))
  <2>1. s \in [DOMAIN s -> ToSet(s)]
      BY DEF IsList, ToSet
  <2>2. \A a, b \in DOMAIN s : s[a] = s[b] => a = b
      BY DEF IsInjective
  <2>3. \A y \in ToSet(s) : \E a \in DOMAIN s : s[a] = y
      BY DEF ToSet
  <2> QED
      BY <2>1, <2>2, <2>3, Fun_IsBij
<1> QED
    BY <1>1, <1>2, <1>3, FS_Bijection DEF ExistsBijection

-----------------------------------------------------------------------------
(* What is told of an object, and what it turns out to be. *)

\* An ObjectID that a Browse has made.
WellNamed(id) == /\ id = Id(id.user, id.path) /\ IsPath(id.path)
                 /\ id.path[1] = "places" => id.path = <<"places">>

\* CountsChildren, of a configuration.
CountsIn(c, id) == id.path[1] # "album" /\ ~(id.path[1] = "timeline" /\ HasMonths(c, id.path))

\* What metadata makes of each kind of object.
Explained(c, id, lists) ==
    LET path  == id.path
        m     == metadata(c, id, lists)
        media == filterSupportedAssets(lists[Source(path, <<>>)])
        in(parent, count) == Container(Id(id.user, parent), count)
    IN  /\ path = <<"0">> => m = Container(RootParent(c), rootChildCount(c))
        /\ path = <<"albums">> => m = in(<<"0">>, Len(lists[path]))
        /\ path = <<"people">> => m = in(<<"0">>, Len(ListNamed(lists[path])))
        /\ path = <<"timeline">> \/ path[1] \in ToSet(c.extras) => m = in(<<"0">>, -1)
        /\ IsBucket(c, path) => m = bucketMetadata(c, id, media)
        /\ path[1] = "place" /\ extraFolderFor(c, path) => m = placeMetadata(id, media)
        /\ path[1] = "album" => m = in(<<"albums">>, Len(media))
        /\ path[1] = "person" => m = in(<<"people">>, -1)
        /\ path[1] = "asset" => m = in(<<"0">>, -1)

\* The cases of metadata, one by one.
LEMMA Explanations ==
    ASSUME NEW c \in Configs, NEW id, NEW lists, ~IsTop(c, id), parseUserObjectID(c, id)
    PROVE  Explained(c, id, lists)
<1> DEFINE path == id.path
           m == metadata(c, id, lists)
           media == filterSupportedAssets(lists[Source(path, <<>>)])
           in(parent, count) == Container(Id(id.user, parent), count)
           bucket == IsBucket(c, path)
           extra == path[1] \in ToSet(c.extras)
           place == path[1] = "place" /\ extraFolderFor(c, path)
           zero == path = <<"0">>
           albums == path = <<"albums">>
           people == path = <<"people">>
           timeline == path = <<"timeline">>
           tag == path[1]
<1>1. m = CASE zero   -> Container(RootParent(c), rootChildCount(c))
            [] albums -> in(<<"0">>, Len(lists[path]))
            [] people -> in(<<"0">>, Len(ListNamed(lists[path])))
            [] timeline \/ extra -> in(<<"0">>, -1)
            [] bucket -> bucketMetadata(c, id, media)
            [] place -> placeMetadata(id, media)
            [] tag = "album"  -> in(<<"albums">>, Len(media))
            [] tag = "person" -> in(<<"people">>, -1)
            [] tag = "asset"  -> in(<<"0">>, -1)
            [] OTHER -> NoObject
    BY DEF metadata
<1>2. /\ zero => tag = "0"
      /\ albums => tag = "albums"
      /\ people => tag = "people"
      /\ timeline => tag = "timeline" /\ ~bucket
      /\ bucket => tag = "timeline"
      /\ place => tag = "place"
  <2>1. timeline => ~bucket
      BY Tags DEF IsBucket
  <2> QED
      BY <2>1, Tags DEF IsBucket
<1>3. extra => tag \in {"favorites", "random", "onthisday", "places"}
  <2>1. ToSet(c.extras) \subseteq {"favorites", "random", "onthisday", "places"}
      BY ConfigsAreUsable, ListsAre DEF ConfigsAreUsable
  <2> QED
      BY <2>1
<1> HIDE DEF m, media, bucket, extra, place, zero, albums, people, timeline, tag
<1>4. zero => m = Container(RootParent(c), rootChildCount(c))
    BY <1>1, <1>2, <1>3
<1>5. albums => m = in(<<"0">>, Len(lists[path]))
    BY <1>1, <1>2, <1>3
<1>6. people => m = in(<<"0">>, Len(ListNamed(lists[path])))
    BY <1>1, <1>2, <1>3
<1>7. timeline \/ extra => m = in(<<"0">>, -1)
    BY <1>1, <1>2, <1>3
<1>8. bucket => m = bucketMetadata(c, id, media)
    BY <1>1, <1>2, <1>3
<1>9. place => m = placeMetadata(id, media)
    BY <1>1, <1>2, <1>3
<1>10. tag = "album" => m = in(<<"albums">>, Len(media))
    BY <1>1, <1>2, <1>3
<1>11. tag = "person" => m = in(<<"people">>, -1)
    BY <1>1, <1>2, <1>3
<1>12. tag = "asset" => m = in(<<"0">>, -1)
    BY <1>1, <1>2, <1>3
<1> QED
    BY <1>4, <1>5, <1>6, <1>7, <1>8, <1>9, <1>10, <1>11, <1>12
       DEF Explained, m, media, bucket, extra, place, zero, albums, people, timeline, tag

\* The metadata of a child k that folder id lists: that it is there, in that folder.
Described(c, id, lists, k) ==
    LET m == metadata(c, k.id, lists)
    IN  /\ m.found
        /\ m.parent = id \/ IsItem(k.id)
        /\ CountsIn(c, k.id) => m.count = k.count

\* A child that is listed with a count has that many children, made from the same listings and
\* whatever the order of the map.
Keeps(c, id, lists, today, k) ==
    k.count # -1 /\ CountsIn(c, k.id) =>
        /\ k.id.path[1] \notin {"random", "onthisday"}
        /\ k.id.path = <<"0">> \/ ToSet(Needs(c, k.id, today)) \subseteq ToSet(Needs(c, id, today))
        /\ \A now, req : now.order \in MapOrders => Len(browse(c, k.id, lists, now, req).children) = k.count

Agrees(c, id, lists, today, k) ==
    WellNamed(k.id) /\ Described(c, id, lists, k) /\ Keeps(c, id, lists, today, k)

\* The folder of an account that is configured.
InAccount(c, id) == ~IsTop(c, id) /\ parseUserObjectID(c, id)

\* An account is configured or not whatever the path within it.
LEMMA SameAccount ==
    ASSUME NEW c \in Configs, NEW id, InAccount(c, id), NEW other, other.user = id.user
    PROVE  InAccount(c, other)
<1>1. Top.user = -1
    BY DEF Top, Id
<1>2. parseUserObjectID(c, other)
    BY DEF InAccount, parseUserObjectID
<1>3. c.users > 1 => other.user \in 0..c.users - 1
    BY <1>2 DEF parseUserObjectID
<1>4. c.users \in Nat
    BY ConfigsAreUsable DEF ConfigsAreUsable
<1>5. ~IsTop(c, other)
    BY <1>1, <1>3, <1>4 DEF IsTop
<1> QED
    BY <1>2, <1>5 DEF InAccount

\* An item: its metadata is there, and it has no count.
LEMMA ItemAgrees ==
    ASSUME NEW c \in Configs, NEW id, InAccount(c, id), NEW lists, NEW today, NEW a \in Assets
    PROVE  Agrees(c, id, lists, today, Child(Id(id.user, <<"asset", a>>), -1))
<1> DEFINE x == Id(id.user, <<"asset", a>>)
           k == Child(x, -1)
           m == metadata(c, x, lists)
<1>1. k.id = x /\ k.count = -1 /\ x.user = id.user /\ x.path = <<"asset", a>> /\ x = Id(x.user, x.path)
    BY DEF Child, Id
<1>2. x.path[1] = "asset"
    BY <1>1
<1>3. InAccount(c, x)
    BY <1>1, SameAccount
<1>4. IsPath(x.path)
  <2> DEFINE p == <<"asset", a>>
  <2>1. p \in Seq(ToSet(p)) /\ p # <<>>
      BY DEF ToSet
  <2> QED
      BY <1>1, <2>1 DEF IsPath, IsList
<1> HIDE DEF x
<1>5. m = Container(Id(x.user, <<"0">>), -1)
    BY <1>2, <1>3, Explanations DEF Explained, InAccount
<1>6. Described(c, id, lists, k)
  <2>1. m.found /\ m.count = -1
      BY <1>5 DEF Container
  <2> HIDE DEF m
  <2> QED
      BY <1>1, <1>2, <2>1 DEF Described, IsItem, m
<1>7. WellNamed(k.id)
    BY <1>1, <1>2, <1>4 DEF WellNamed
<1>8. Keeps(c, id, lists, today, k)
    BY <1>1 DEF Keeps
<1> HIDE DEF k
<1>9. Agrees(c, id, lists, today, k)
    BY <1>6, <1>7, <1>8 DEF Agrees
<1> QED
    BY <1>9 DEF k, x

\* Items, and how many there are.
LEMMA ItemsAgree ==
    ASSUME NEW c \in Configs, NEW id, InAccount(c, id), NEW lists, NEW today, NEW s \in Seq(Assets)
    PROVE  \A k \in ToSet(Items(id.user, s)) : Agrees(c, id, lists, today, k)
<1>1. DOMAIN Items(id.user, s) = DOMAIN s
      /\ \A i \in DOMAIN s : Items(id.user, s)[i] = Child(Id(id.user, <<"asset", s[i]>>), -1) /\ s[i] \in Assets
    BY ItemsAreNodes
<1>2. \A a \in Assets : Agrees(c, id, lists, today, Child(Id(id.user, <<"asset", a>>), -1))
    BY ItemAgrees
<1> DEFINE its == Items(id.user, s)
<1> HIDE DEF its
<1>3. \A k \in ToSet(its) : \E i \in DOMAIN its : k = its[i]
    BY DEF ToSet
<1>4. DOMAIN its = DOMAIN s
      /\ \A i \in DOMAIN s : its[i] = Child(Id(id.user, <<"asset", s[i]>>), -1) /\ s[i] \in Assets
    BY <1>1 DEF its
<1>5. \A k \in ToSet(its) : Agrees(c, id, lists, today, k)
    BY <1>2, <1>3, <1>4
<1> QED
    BY <1>5 DEF its

\* The children that assetItems makes: one per asset.
LEMMA ListedItems ==
    ASSUME NEW user, NEW s \in Seq(Assets), NEW req
    PROVE  LET cs == assetItems(user, s, req).children
           IN  cs = Items(user, sortPhotos(s, req)) /\ sortPhotos(s, req) \in Seq(Assets) /\ Len(cs) = Len(s)
<1> DEFINE w == sortPhotos(s, req)
           cs == assetItems(user, s, req).children
<1>1. cs = Items(user, w)
    BY DEF assetItems, Listing
<1>2. w \in Seq(Assets) /\ Len(w) = Len(s)
    BY SortPhotosProperties DEF Reorders
<1> HIDE DEF w, cs
<1>3. IsNodes(cs) /\ DOMAIN cs = DOMAIN w
    BY <1>1, <1>2, ItemsAreNodes
<1>4. Len(cs) = Len(w)
    BY <1>2, <1>3, ListLen DEF IsNodes
<1>5. cs = Items(user, w) /\ w \in Seq(Assets) /\ Len(cs) = Len(s)
    BY <1>1, <1>2, <1>4
<1> QED
    BY <1>5 DEF w, cs

\* A folder of items, however they are sorted.
LEMMA AssetItemsAgree ==
    ASSUME NEW c \in Configs, NEW id, InAccount(c, id), NEW lists, NEW today, NEW s \in Seq(Assets), NEW req
    PROVE  \A k \in ToSet(assetItems(id.user, s, req).children) : Agrees(c, id, lists, today, k)
<1> DEFINE w == sortPhotos(s, req)
<1>1. assetItems(id.user, s, req).children = Items(id.user, w) /\ w \in Seq(Assets)
    BY ListedItems
<1> HIDE DEF w
<1> QED
    BY <1>1, ItemsAgree

-----------------------------------------------------------------------------
(* Accounts, albums and people. *)

\* A root has its fixed number of children, whatever the listings.
LEMMA RootCount ==
    ASSUME NEW c \in Configs, NEW id, id.path = <<"0">>, InAccount(c, id), NEW lists, NEW now, NEW req
    PROVE  Len(browse(c, id, lists, now, req).children) = rootChildCount(c)
<1> DEFINE albums == lists[<<"albums">>]
           people == lists[<<"people">>]
           extras == extraRootContainers(c, id.user)
           first == <<Child(Id(id.user, <<"albums">>), Len(albums)),
                      Child(Id(id.user, <<"people">>), Len(ListNamed(people))),
                      Child(Id(id.user, <<"timeline">>), -1)>>
           cs == browse(c, id, lists, now, req).children
<1>1. IsPath(id.path)
    BY FolderPaths
<1>2. browse(c, id, lists, now, req) = browseUserScope(c, id, lists, now, req)
    BY DEF browse, InAccount
<1>3. browseUserScope(c, id, lists, now, req) = Listing(RootFolders(c, id.user, albums, people))
    BY <1>1, Routes DEF Routed
<1>4. cs = first \o extras
    BY <1>2, <1>3 DEF Listing, RootFolders
<1>5. IsList(first) /\ Len(first) = 3
    BY DEF IsList, ToSet
<1>6. Len(c.extras) \in Nat /\ DOMAIN c.extras = 1..Len(c.extras)
    BY ConfigsAreUsable DEF ConfigsAreUsable
<1>7. extras = [i \in 1..Len(c.extras) |-> Child(Id(id.user, <<c.extras[i]>>), -1)]
    BY <1>6 DEF extraRootContainers
<1> HIDE DEF first, extras, cs
<1>8. extras = [i \in 1..Len(c.extras) |-> extras[i]]
    BY <1>7
<1>9. IsList(extras) /\ Len(extras) = Len(c.extras)
    BY <1>6, <1>8, ListOf
<1>10. Len(cs) = Len(first) + Len(extras)
  <2> DEFINE T == ToSet(first) \cup ToSet(extras)
  <2>1. first \in Seq(T) /\ extras \in Seq(T)
    <3>1. first \in Seq(ToSet(first)) /\ extras \in Seq(ToSet(extras))
        BY <1>5, <1>9 DEF IsList
    <3> QED
        BY <3>1
  <2> HIDE DEF T
  <2> QED
      BY <1>4, <2>1
<1>11. Len(cs) = rootChildCount(c)
    BY <1>5, <1>9, <1>10 DEF rootChildCount
<1> QED
    BY <1>11 DEF cs

\* The folders of the accounts, at the top.
LEMMA AccountsAgree ==
    ASSUME NEW c \in Configs, NEW id, IsTop(c, id), NEW lists, NEW today
    PROVE  \A k \in ToSet(Accounts(c)) : Agrees(c, id, lists, today, k)
<1>1. c.users \in Nat /\ c.users > 1 /\ id = Top
    BY ConfigsAreUsable DEF ConfigsAreUsable, IsTop
<1>2. Accounts(c) = [i \in 1..c.users |-> Child(RootOf(i - 1), rootChildCount(c))]
    BY DEF Accounts
<1> DEFINE cs == Accounts(c)
<1> HIDE DEF cs
<1>3. DOMAIN cs = 1..c.users /\ \A i \in 1..c.users : cs[i] = Child(RootOf(i - 1), rootChildCount(c))
    BY <1>2 DEF cs
<1>4. ASSUME NEW i \in 1..c.users PROVE Agrees(c, id, lists, today, cs[i])
  <2> DEFINE k == cs[i]
             x == RootOf(i - 1)
             m == metadata(c, x, lists)
  <2>1. k.id = x /\ k.count = rootChildCount(c)
    <3>1. k = Child(x, rootChildCount(c))
        BY <1>3
    <3> HIDE DEF k, x
    <3> QED
        BY <3>1 DEF Child
  <2>2. x = Id(i - 1, <<"0">>) /\ x.user = i - 1 /\ x.path = <<"0">>
      BY DEF RootOf, Id
  <2> HIDE DEF x, k
  <2>3. x.path[1] = "0" /\ x = Id(x.user, x.path) /\ IsPath(x.path)
      BY <2>2, FolderPaths
  <2>4. InAccount(c, x)
    <3>1. i - 1 \in 0..c.users - 1 /\ i - 1 # -1
        BY <1>1
    <3>2. Top.user = -1
        BY DEF Top, Id
    <3> QED
        BY <1>1, <2>2, <3>1, <3>2 DEF InAccount, IsTop, parseUserObjectID
  <2>5. m = Container(Top, rootChildCount(c))
      BY <1>1, <2>2, <2>4, Explanations DEF Explained, InAccount, RootParent
  <2>6. m.found /\ m.parent = Top /\ m.count = rootChildCount(c)
      BY <2>5 DEF Container
  <2> HIDE DEF m
  <2>7. Described(c, id, lists, k)
      BY <1>1, <2>1, <2>6 DEF Described, m
  <2>8. \A now, req : Len(browse(c, x, lists, now, req).children) = rootChildCount(c)
      BY <2>2, <2>4, RootCount
  <2>9. Keeps(c, id, lists, today, k)
      BY <2>1, <2>2, <2>3, <2>8 DEF Keeps
  <2>10. WellNamed(k.id)
      BY <2>1, <2>3 DEF WellNamed
  <2> QED
      BY <2>7, <2>9, <2>10 DEF Agrees, k
<1>5. \A k \in ToSet(cs) : Agrees(c, id, lists, today, k)
    BY <1>3, <1>4 DEF ToSet
<1> QED
    BY <1>5 DEF cs

\* Containers of the albums or people of a list, by title if asked.
NamesOf(cs, s, req) ==
    /\ IsList(s) /\ \A x \in ToSet(s) : Title[x] \in Int
    /\ cs = [i \in DOMAIN ByTitle(s, req) |-> cs[i]]
    /\ \A i \in DOMAIN ByTitle(s, req) :
         cs[i].id.path \in {<<"album", ByTitle(s, req)[i]>>, <<"person", ByTitle(s, req)[i]>>}

\* There is a folder per name.
LEMMA NamesCount ==
    ASSUME NEW s, NEW req, NEW cs, NamesOf(cs, s, req)
    PROVE  IsNodes(cs) /\ Len(cs) = Len(s)
<1> DEFINE w == ByTitle(s, req)
<1>1. /\ IsList(s) /\ \A x \in ToSet(s) : Title[x] \in Int
      /\ cs = [i \in DOMAIN w |-> cs[i]]
      /\ \A i \in DOMAIN w : cs[i].id.path \in {<<"album", w[i]>>, <<"person", w[i]>>}
    BY DEF NamesOf
<1>2. w = ByTitle(s, req)
    OBVIOUS
<1> HIDE DEF w
<1>3. \A folder : IsNodes(cs) /\ InSort(cs, folder, req) /\ Len(cs) = Len(s)
  <2> TAKE folder
  <2> QED
      BY ONLY <1>1, <1>2, SortedNames
<1> QED
    BY <1>3

\* The folders of all albums.
AlbumsIn(cs, user) ==
    /\ IsNodes(cs) /\ Len(cs) = Len(Albums)
    /\ \A k \in ToSet(cs) : \E x : k.id = Id(user, <<"album", x>>)

\* What AlbumFolders lists.
LEMMA AlbumsListed ==
    ASSUME NEW user, NEW sizes, NEW req
    PROVE  AlbumsIn(AlbumFolders(user, Albums, sizes, req), user)
<1>1. IsList(Albums) /\ \A x \in ToSet(Albums) : Title[x] \in Int
    BY AlbumsAndPeople, NamesAreRanked DEF AlbumsAndPeople, NamesAreRanked, IsList
<1> DEFINE w == ByTitle(Albums, req)
           cs == AlbumFolders(user, Albums, sizes, req)
<1>2. cs = [i \in DOMAIN w |-> Child(Id(user, <<"album", w[i]>>), sizes[w[i]])]
    BY DEF AlbumFolders, ByTitle
<1> HIDE DEF cs, w
<1>3. cs = [i \in DOMAIN w |-> cs[i]] /\ \A i \in DOMAIN w : cs[i].id.path = <<"album", w[i]>>
    BY <1>2 DEF Child, Id
<1>4. IsNodes(cs) /\ Len(cs) = Len(Albums)
  <2>1. NamesOf(cs, Albums, req)
      BY <1>1, <1>3 DEF NamesOf, w
  <2> QED
      BY <2>1, NamesCount
<1>5. \A i \in DOMAIN cs : cs[i].id = Id(user, <<"album", w[i]>>)
    BY <1>2 DEF Child
<1>6. \A k \in ToSet(cs) : \E x : k.id = Id(user, <<"album", x>>)
    BY <1>5 DEF ToSet
<1> QED
    BY <1>4, <1>6 DEF cs, AlbumsIn

\* What PersonFolders lists.
LEMMA PeopleListed ==
    ASSUME NEW user, NEW req
    PROVE  LET cs == PersonFolders(user, People, req)
           IN  /\ IsNodes(cs) /\ Len(cs) = Len(ListNamed(People))
               /\ \A k \in ToSet(cs) : \E x : k = Child(Id(user, <<"person", x>>), -1)
<1> DEFINE s == ListNamed(People)
           w == ByTitle(s, req)
           cs == PersonFolders(user, People, req)
<1>1. cs = [i \in DOMAIN w |-> Child(Id(user, <<"person", w[i]>>), -1)]
    BY DEF PersonFolders, ByTitle
<1>2. IsList(s) /\ ToSet(s) \subseteq ToSet(People)
    BY AlbumsAndPeople, WhereLists DEF AlbumsAndPeople, ListNamed
<1>3. \A x \in ToSet(s) : Title[x] \in Int
    BY <1>2, NamesAreRanked DEF NamesAreRanked
<1> HIDE DEF cs, w, s
<1>4. cs = [i \in DOMAIN w |-> cs[i]] /\ \A i \in DOMAIN w : cs[i].id.path = <<"person", w[i]>>
    BY <1>1 DEF Child, Id
<1>5. IsNodes(cs) /\ Len(cs) = Len(s)
  <2>1. NamesOf(cs, s, req)
      BY <1>2, <1>3, <1>4 DEF NamesOf, w
  <2> QED
      BY <2>1, NamesCount
<1>6. \A k \in ToSet(cs) : \E x : k = Child(Id(user, <<"person", x>>), -1)
    BY <1>1 DEF ToSet
<1> QED
    BY <1>5, <1>6 DEF cs, s

\* The albums: their count is Immich's own.
LEMMA AlbumsAgree ==
    ASSUME NEW c \in Configs, NEW id, WellNamed(id), id.path = <<"albums">>, InAccount(c, id),
           NEW lists, NEW today, NEW sizes, NEW req
    PROVE  \A k \in ToSet(AlbumFolders(id.user, Albums, sizes, req)) : Agrees(c, id, lists, today, k)
<1> SUFFICES ASSUME NEW k \in ToSet(AlbumFolders(id.user, Albums, sizes, req)) PROVE Agrees(c, id, lists, today, k)
    OBVIOUS
<1>1. PICK x : k.id = Id(id.user, <<"album", x>>)
  <2> DEFINE cs == AlbumFolders(id.user, Albums, sizes, req)
  <2>1. AlbumsIn(cs, id.user)
      BY AlbumsListed
  <2>2. k \in ToSet(cs)
      OBVIOUS
  <2> HIDE DEF cs
  <2>3. \A z \in ToSet(cs) : \E x : z.id = Id(id.user, <<"album", x>>)
      BY <2>1 DEF AlbumsIn
  <2> QED
      BY <2>2, <2>3
<1> DEFINE y == Id(id.user, <<"album", x>>)
<1>2. k.id = y /\ y.user = id.user /\ y.path = <<"album", x>> /\ y = Id(y.user, y.path)
    BY <1>1 DEF Child, Id
<1> HIDE DEF y
<1>3. y.path[1] = "album" /\ IsPath(y.path)
    BY <1>2, FolderPaths
<1>4. InAccount(c, y)
    BY <1>2, SameAccount
<1>5. \E n : metadata(c, y, lists) = Container(Id(y.user, <<"albums">>), n)
    BY <1>3, <1>4, Explanations DEF Explained, InAccount
<1>6. Id(y.user, <<"albums">>) = id
    BY <1>2 DEF WellNamed
<1>7. Described(c, id, lists, k)
  <2>1. ~CountsIn(c, y)
      BY <1>3 DEF CountsIn
  <2>2. metadata(c, y, lists).found /\ metadata(c, y, lists).parent = id
      BY <1>5, <1>6 DEF Container
  <2> QED
      BY <1>2, <2>1, <2>2 DEF Described
<1>8. Keeps(c, id, lists, today, k) /\ WellNamed(k.id)
    BY <1>2, <1>3 DEF Keeps, CountsIn, WellNamed
<1> QED
    BY <1>7, <1>8 DEF Agrees

\* The people: without a count.
LEMMA PeopleAgree ==
    ASSUME NEW c \in Configs, NEW id, WellNamed(id), id.path = <<"people">>, InAccount(c, id),
           NEW lists, NEW today, NEW req
    PROVE  \A k \in ToSet(PersonFolders(id.user, People, req)) : Agrees(c, id, lists, today, k)
<1> SUFFICES ASSUME NEW k \in ToSet(PersonFolders(id.user, People, req)) PROVE Agrees(c, id, lists, today, k)
    OBVIOUS
<1>1. PICK x : k = Child(Id(id.user, <<"person", x>>), -1)
  <2> DEFINE cs == PersonFolders(id.user, People, req)
  <2>1. \A z \in ToSet(cs) : \E x : z = Child(Id(id.user, <<"person", x>>), -1)
      BY PeopleListed
  <2>2. k \in ToSet(cs)
      OBVIOUS
  <2> HIDE DEF cs
  <2> QED
      BY <2>1, <2>2
<1> DEFINE y == Id(id.user, <<"person", x>>)
<1>2. k.id = y /\ k.count = -1 /\ y.user = id.user /\ y.path = <<"person", x>> /\ y = Id(y.user, y.path)
    BY <1>1 DEF Child, Id
<1> HIDE DEF y
<1>3. y.path[1] = "person" /\ IsPath(y.path)
    BY <1>2, FolderPaths
<1>4. InAccount(c, y)
    BY <1>2, SameAccount
<1>5. metadata(c, y, lists) = Container(Id(y.user, <<"people">>), -1)
    BY <1>3, <1>4, Explanations DEF Explained, InAccount
<1>6. Id(y.user, <<"people">>) = id
    BY <1>2 DEF WellNamed
<1>7. Described(c, id, lists, k)
  <2>1. metadata(c, y, lists).found /\ metadata(c, y, lists).parent = id /\ metadata(c, y, lists).count = -1
      BY <1>5, <1>6 DEF Container
  <2> QED
      BY <1>2, <2>1 DEF Described
<1>8. Keeps(c, id, lists, today, k) /\ WellNamed(k.id)
    BY <1>2, <1>3 DEF Keeps, WellNamed
<1> QED
    BY <1>7, <1>8 DEF Agrees

\* The folder of the albums, or of the people.
LEMMA NamesFolder ==
    ASSUME NEW c \in Configs, NEW id, InAccount(c, id), NEW lists, NEW now, NEW req, NEW today
    PROVE  /\ id.path = <<"albums">> =>
                /\ browse(c, id, lists, now, req) = Listing(AlbumFolders(id.user, lists[<<"albums">>], c.albumSizes, req))
                /\ Needs(c, id, today) = << <<"albums">> >>
           /\ id.path = <<"people">> =>
                /\ browse(c, id, lists, now, req) = Listing(PersonFolders(id.user, lists[<<"people">>], req))
                /\ Needs(c, id, today) = << <<"people">> >>
<1>1. browse(c, id, lists, now, req) = browseUserScope(c, id, lists, now, req)
    BY DEF browse, InAccount
<1>2. ASSUME NEW tag \in {"albums", "people"}, id.path = <<tag>>
      PROVE  Routed(c, id, lists, now, req) /\ Needs(c, id, today) = << <<tag>> >>
  <2>1. IsPath(id.path) /\ id.path[1] = tag /\ id.path # <<"0">>
      BY <1>2, FolderPaths
  <2>2. Source(id.path, today) = id.path
      BY <2>1 DEF Source
  <2>3. Needs(c, id, today) = <<Source(id.path, today)>>
      BY <2>1, SourceNeeded DEF InAccount
  <2> QED
      BY <1>2, <2>1, <2>2, <2>3, Routes
<1>3. ASSUME id.path = <<"albums">>
      PROVE  /\ browse(c, id, lists, now, req) = Listing(AlbumFolders(id.user, lists[<<"albums">>], c.albumSizes, req))
             /\ Needs(c, id, today) = << <<"albums">> >>
  <2>1. Routed(c, id, lists, now, req) /\ Needs(c, id, today) = << <<"albums">> >>
      BY <1>2, <1>3
  <2> QED
      BY <1>1, <1>3, <2>1 DEF Routed
<1>4. ASSUME id.path = <<"people">>
      PROVE  /\ browse(c, id, lists, now, req) = Listing(PersonFolders(id.user, lists[<<"people">>], req))
             /\ Needs(c, id, today) = << <<"people">> >>
  <2>1. Routed(c, id, lists, now, req) /\ Needs(c, id, today) = << <<"people">> >>
      BY <1>2, <1>4
  <2> QED
      BY <1>1, <1>4, <2>1 DEF Routed
<1> QED
    BY <1>3, <1>4

\* The folders of an account.
LEMMA RootAgrees ==
    ASSUME NEW c \in Configs, NEW id, WellNamed(id), id.path = <<"0">>, InAccount(c, id),
           NEW lists, lists[<<"albums">>] = Albums, lists[<<"people">>] = People, NEW today
    PROVE  \A k \in ToSet(RootFolders(c, id.user, Albums, People)) : Agrees(c, id, lists, today, k)
<1> DEFINE user == id.user
           extras == extraRootContainers(c, user)
           first == <<Child(Id(user, <<"albums">>), Len(Albums)),
                      Child(Id(user, <<"people">>), Len(ListNamed(People))),
                      Child(Id(user, <<"timeline">>), -1)>>
           Good(k) == Agrees(c, id, lists, today, k)
<1>1. id = Id(user, <<"0">>)
    BY DEF WellNamed
<1>2. Needs(c, id, today) = << <<"albums">>, <<"people">> >>
  <2>1. id.path[1] = "0"
      BY Tags
  <2> QED
      BY <2>1 DEF Needs, InAccount
<1>3. /\ <<"albums">> \in ToSet(Needs(c, id, today)) /\ <<"people">> \in ToSet(Needs(c, id, today))
    BY <1>2 DEF ToSet
<1>4. Good(Child(Id(user, <<"albums">>), Len(Albums)))
  <2> DEFINE x == Id(user, <<"albums">>)
             k == Child(x, Len(Albums))
             m == metadata(c, x, lists)
  <2>1. k.id = x /\ k.count = Len(Albums) /\ x.user = user /\ x.path = <<"albums">> /\ x = Id(x.user, x.path)
      BY DEF Child, Id
  <2> HIDE DEF x, k
  <2>2. InAccount(c, x)
      BY <2>1, SameAccount
  <2>3. x.path[1] = "albums" /\ IsPath(x.path)
      BY <2>1, FolderPaths
  <2>4. m = Container(id, Len(Albums))
      BY <1>1, <2>1, <2>2, Explanations DEF Explained, InAccount
  <2>5. m.found /\ m.parent = id /\ m.count = Len(Albums)
      BY <2>4 DEF Container
  <2> HIDE DEF m
  <2>6. Described(c, id, lists, k)
      BY <2>1, <2>5 DEF Described, m
  <2>7. ASSUME NEW now, NEW req PROVE Len(browse(c, x, lists, now, req).children) = Len(Albums)
    <3>1. browse(c, x, lists, now, req) = Listing(AlbumFolders(user, Albums, c.albumSizes, req))
        BY <2>1, <2>2, NamesFolder
    <3>2. browse(c, x, lists, now, req).children = AlbumFolders(user, Albums, c.albumSizes, req)
        BY <3>1 DEF Listing
    <3>3. Len(AlbumFolders(user, Albums, c.albumSizes, req)) = Len(Albums)
        BY AlbumsListed DEF AlbumsIn
    <3> QED
        BY <3>2, <3>3
  <2>8. Needs(c, x, today) = << <<"albums">> >>
      BY <2>1, <2>2, NamesFolder
  <2>9. ToSet(Needs(c, x, today)) \subseteq ToSet(Needs(c, id, today))
    <3>1. ToSet(Needs(c, x, today)) = {<<"albums">>}
        BY <2>8 DEF ToSet
    <3> QED
        BY <1>3, <3>1
  <2>10. Keeps(c, id, lists, today, k)
      BY <2>1, <2>3, <2>7, <2>9 DEF Keeps
  <2>11. WellNamed(k.id)
      BY <2>1, <2>3 DEF WellNamed
  <2>12. Agrees(c, id, lists, today, k)
      BY <2>6, <2>10, <2>11 DEF Agrees
  <2> QED
      BY <2>12 DEF k, x
<1>5. Good(Child(Id(user, <<"people">>), Len(ListNamed(People))))
  <2> DEFINE x == Id(user, <<"people">>)
             n == Len(ListNamed(People))
             k == Child(x, n)
             m == metadata(c, x, lists)
  <2>1. k.id = x /\ k.count = n /\ x.user = user /\ x.path = <<"people">> /\ x = Id(x.user, x.path)
      BY DEF Child, Id
  <2> HIDE DEF x, k
  <2>2. InAccount(c, x)
      BY <2>1, SameAccount
  <2>3. x.path[1] = "people" /\ IsPath(x.path)
      BY <2>1, FolderPaths
  <2>4. m = Container(id, n)
      BY <1>1, <2>1, <2>2, Explanations DEF Explained, InAccount
  <2>5. m.found /\ m.parent = id /\ m.count = n
      BY <2>4 DEF Container
  <2> HIDE DEF m
  <2>6. Described(c, id, lists, k)
      BY <2>1, <2>5 DEF Described, m
  <2>7. ASSUME NEW now, NEW req PROVE Len(browse(c, x, lists, now, req).children) = n
    <3>1. browse(c, x, lists, now, req) = Listing(PersonFolders(user, People, req))
        BY <2>1, <2>2, NamesFolder
    <3>2. browse(c, x, lists, now, req).children = PersonFolders(user, People, req)
        BY <3>1 DEF Listing
    <3>3. Len(PersonFolders(user, People, req)) = n
        BY PeopleListed
    <3> QED
        BY <3>2, <3>3
  <2>8. Needs(c, x, today) = << <<"people">> >>
      BY <2>1, <2>2, NamesFolder
  <2>9. ToSet(Needs(c, x, today)) \subseteq ToSet(Needs(c, id, today))
    <3>1. ToSet(Needs(c, x, today)) = {<<"people">>}
        BY <2>8 DEF ToSet
    <3> QED
        BY <1>3, <3>1
  <2>10. Keeps(c, id, lists, today, k)
      BY <2>1, <2>3, <2>7, <2>9 DEF Keeps
  <2>11. WellNamed(k.id)
      BY <2>1, <2>3 DEF WellNamed
  <2>12. Agrees(c, id, lists, today, k)
      BY <2>6, <2>10, <2>11 DEF Agrees
  <2> QED
      BY <2>12 DEF k, x, n
<1>6. ASSUME NEW tag, tag = "timeline" \/ tag \in ToSet(c.extras)
      PROVE  Good(Child(Id(user, <<tag>>), -1))
  <2> DEFINE x == Id(user, <<tag>>)
             k == Child(x, -1)
             m == metadata(c, x, lists)
  <2>1. k.id = x /\ k.count = -1 /\ x.user = user /\ x.path = <<tag>> /\ x = Id(x.user, x.path) /\ x.path[1] = tag
      BY DEF Child, Id
  <2>2. tag # "asset"
    <3>1. ToSet(c.extras) \subseteq {"favorites", "random", "onthisday", "places"}
        BY ConfigsAreUsable, ListsAre DEF ConfigsAreUsable
    <3> QED
        BY <1>6, <3>1
  <2> HIDE DEF x, k
  <2>3. InAccount(c, x)
      BY <2>1, SameAccount
  <2>4. IsPath(x.path)
      BY <2>1, <2>2, FolderPaths
  <2>5. m = Container(id, -1)
    <3>1. x.path = <<"timeline">> \/ x.path[1] \in ToSet(c.extras)
        BY <1>6, <2>1
    <3> QED
        BY <1>1, <2>1, <2>3, <3>1, Explanations DEF Explained, InAccount
  <2>6. m.found /\ m.parent = id /\ m.count = -1
      BY <2>5 DEF Container
  <2> HIDE DEF m
  <2>7. Described(c, id, lists, k)
      BY <2>1, <2>6 DEF Described, m
  <2>8. Keeps(c, id, lists, today, k)
      BY <2>1 DEF Keeps
  <2>9. WellNamed(k.id)
      BY <2>1, <2>4 DEF WellNamed
  <2>10. Agrees(c, id, lists, today, k)
      BY <2>7, <2>8, <2>9 DEF Agrees
  <2> QED
      BY <2>10 DEF k, x
<1> HIDE DEF Good
<1>7. \A k \in ToSet(first) : Good(k)
  <2>1. Good(Child(Id(user, <<"timeline">>), -1))
      BY <1>6
  <2>2. \A i \in DOMAIN first : Good(first[i])
      BY <1>4, <1>5, <2>1
  <2> HIDE DEF first
  <2> QED
      BY <2>2 DEF ToSet
<1>8. IsList(extras) /\ \A k \in ToSet(extras) : Good(k)
  <2>1. Len(c.extras) \in Nat /\ DOMAIN c.extras = 1..Len(c.extras)
      BY ConfigsAreUsable DEF ConfigsAreUsable
  <2>2. extras = [i \in 1..Len(c.extras) |-> Child(Id(user, <<c.extras[i]>>), -1)]
      BY <2>1 DEF extraRootContainers
  <2>3. \A i \in 1..Len(c.extras) : c.extras[i] \in ToSet(c.extras)
      BY <2>1 DEF ToSet
  <2> HIDE DEF extras, user
  <2>4. DOMAIN extras = 1..Len(c.extras) /\ \A i \in DOMAIN extras : Good(extras[i])
      BY <1>6, <2>2, <2>3
  <2>5. extras = [i \in 1..Len(c.extras) |-> extras[i]]
      BY <2>2
  <2> QED
      BY <2>1, <2>4, <2>5, ListOf DEF ToSet
<1>9. RootFolders(c, user, Albums, People) = first \o extras
    BY DEF RootFolders
<1>10. IsList(first)
    BY DEF IsList, ToSet
<1> HIDE DEF first, extras
<1>11. \A k \in ToSet(RootFolders(c, user, Albums, People)) : Good(k)
    BY <1>7, <1>8, <1>9, <1>10, ListsJoin
<1> QED
    BY <1>11 DEF Good

-----------------------------------------------------------------------------
(* The timeline. *)

\* The paths of a year and of a month, of every timeline.
LEMMA BucketForms ==
    /\ \A y : LET p == <<"timeline", y>>
              IN  p[1] = "timeline" /\ p[2] = y /\ Len(p) = 2 /\ Tail(p) = <<y>> /\ p # <<"timeline">>
    /\ \A y, d : LET p == <<"timeline", y, d>>
                 IN  p[1] = "timeline" /\ p[2] = y /\ Len(p) = 3 /\ Tail(p) = <<y, d>> /\ p # <<"timeline">>
<1>1. Len(<<"timeline">>) = 1
    OBVIOUS
<1>2. \A y : LET p == <<"timeline", y>>
             IN  p[1] = "timeline" /\ p[2] = y /\ Len(p) = 2 /\ Tail(p) = <<y>> /\ p # <<"timeline">>
    BY <1>1
<1>3. \A y, d : LET p == <<"timeline", y, d>>
                IN  p[1] = "timeline" /\ p[2] = y /\ Len(p) = 3 /\ Tail(p) = <<y, d>> /\ p # <<"timeline">>
    BY <1>1
<1> QED
    BY <1>2, <1>3

\* The listing of the timeline, and what is made of it.
Timeline(lists) == filterSupportedAssets(lists[<<"timeline">>])

\* A year or a month, and what is in it.
LEMMA BucketAgrees ==
    ASSUME NEW c \in Configs, NEW id, InAccount(c, id), NEW lists, NEW today, Timeline(lists) \in Seq(Assets),
           <<"timeline">> \in ToSet(Needs(c, id, today)),
           NEW p, IsPath(p), IsBucket(c, p), NEW mine, mine = BucketAssets(Timeline(lists), p), mine # <<>>,
           id = Id(id.user, IF Len(p) = 3 THEN <<"timeline", p[2]>> ELSE <<"timeline">>)
    PROVE  Agrees(c, id, lists, today, Child(Id(id.user, p), Len(mine)))
<1> DEFINE x == Id(id.user, p)
           k == Child(x, Len(mine))
           media == Timeline(lists)
           m == metadata(c, x, lists)
<1>1. k.id = x /\ k.count = Len(mine) /\ x.user = id.user /\ x.path = p /\ x = Id(x.user, x.path)
    BY DEF Child, Id
<1>2. p[1] = "timeline" /\ p # <<"timeline">> /\ Len(p) \in {2, 3}
  <2>1. Len(<<"timeline">>) = 1
      OBVIOUS
  <2> QED
      BY <2>1 DEF IsBucket
<1> HIDE DEF x, k
<1>3. InAccount(c, x)
    BY <1>1, SameAccount
<1>4. \A any : filterSupportedAssets(lists[Source(x.path, any)]) = media /\ Source(x.path, any) = <<"timeline">>
    BY <1>1, <1>2 DEF Source, Timeline
<1>5. m = bucketMetadata(c, x, media)
    BY <1>1, <1>3, <1>4, Explanations DEF Explained, InAccount
<1>6. m = Container(id, IF HasMonths(c, p) THEN Len(groupTimeline(mine, TRUE, 0)) ELSE Len(mine))
    BY <1>1, <1>5 DEF bucketMetadata
<1>7. m.found /\ m.parent = id /\ m.count = IF HasMonths(c, p) THEN Len(groupTimeline(mine, TRUE, 0)) ELSE Len(mine)
    BY <1>6 DEF Container
<1> HIDE DEF m
<1>8. Described(c, id, lists, k)
    BY <1>1, <1>2, <1>7 DEF Described, CountsIn, m
<1>9. mine \in Seq(Assets)
    BY WhereLists DEF BucketAssets
<1>10. ASSUME ~HasMonths(c, p), NEW now, NEW req
       PROVE  Len(browse(c, x, lists, now, req).children) = Len(mine)
  <2>1. browse(c, x, lists, now, req) = browseUserScope(c, x, lists, now, req)
      BY <1>3 DEF browse, InAccount
  <2>2. browseUserScope(c, x, lists, now, req) = browseTimeline(c, x, media, req)
      BY <1>1, <1>2, <1>4, Routes DEF Routed
  <2>3. browseTimeline(c, x, media, req) = assetItems(x.user, mine, req)
      BY <1>1, <1>2, <1>10 DEF browseTimeline
  <2> HIDE DEF media
  <2> QED
      BY <1>9, <2>1, <2>2, <2>3, ListedItems
<1>11. ToSet(Needs(c, x, today)) \subseteq ToSet(Needs(c, id, today))
  <2>1. x.path # <<"0">> /\ x.path[1] # "asset"
      BY <1>1, <1>2, Tags
  <2>2. Needs(c, x, today) = << <<"timeline">> >>
      BY <1>1, <1>3, <1>4, <2>1, SourceNeeded DEF InAccount
  <2>3. ToSet(Needs(c, x, today)) = {<<"timeline">>}
      BY <2>2 DEF ToSet
  <2> QED
      BY <2>3
<1>12. Keeps(c, id, lists, today, k)
  <2>1. CountsIn(c, x) => ~HasMonths(c, p)
      BY <1>1, <1>2 DEF CountsIn
  <2>2. x.path[1] \notin {"random", "onthisday"}
      BY <1>1, <1>2
  <2> QED
      BY <1>1, <1>10, <1>11, <2>1, <2>2 DEF Keeps
<1>13. WellNamed(k.id)
    BY <1>1, <1>2 DEF WellNamed
<1>14. Agrees(c, id, lists, today, k)
    BY <1>8, <1>12, <1>13 DEF Agrees
<1> QED
    BY <1>14 DEF k, x

\* The assets of a group, and the folder of one.
InGroup(kept, month, b) == Where(kept, {z \in ToSet(kept) : timelineBucket(z, month) = b})
OfGroup(k, user, kept, month) ==
    \E a \in ToSet(kept) : k = Child(Id(user, <<"timeline">> \o timelineBucket(a, month)),
                                    Len(InGroup(kept, month, timelineBucket(a, month))))

\* The folders of groups are made one of each.
LEMMA GroupChildren ==
    ASSUME NEW media \in Seq(Assets), NEW month \in BOOLEAN, NEW year, NEW req, NEW user,
           NEW k \in ToSet(GroupFolders(user, groupTimeline(media, month, year), req).children)
    PROVE  OfGroup(k, user, KeptOf(media, month, year), month)
<1> DEFINE kept == KeptOf(media, month, year)
           s == groupTimeline(media, month, year)
           w == sortByTitle(s, LAMBDA g : Label(g.bucket), req)
           F(g) == Child(Id(user, <<"timeline">> \o g.bucket), Len(g.assets))
           cs == [i \in DOMAIN w |-> F(w[i])]
           of(b) == Where(kept, {z \in ToSet(kept) : timelineBucket(z, month) = b})
           key == [g \in ToSet(s) |-> Label(g.bucket)]
<1>1. GroupFolders(user, s, req).children = cs
    BY DEF GroupFolders, Listing
<1>2. k \in ToSet(cs)
    BY <1>1
<1>3. w = IF req.property = "dc:title"
          THEN SortFunc(s, [x \in ToSet(s) |-> IF req.descending THEN -key[x] ELSE key[x]]) ELSE s
  <2> HIDE DEF s
  <2>1. [x \in ToSet(s) |-> IF req.descending THEN -key[x] ELSE key[x]]
        = [x \in ToSet(s) |-> IF req.descending THEN -Label(x.bucket) ELSE Label(x.bucket)]
      OBVIOUS
  <2> QED
      BY <2>1 DEF sortByTitle, SortBy
<1> HIDE DEF w
<1>4. PICK i \in DOMAIN w : k = F(w[i])
    BY <1>2 DEF ToSet
<1>5. GroupsOf(s, kept, month)
    BY GroupTimelineProperties
<1>6. ToSet(kept) \subseteq Assets
    BY WhereLists, ListsAre DEF KeptOf
<1> HIDE DEF s, kept, F
<1>7. IsList(s) /\ \A g \in ToSet(s) : \E a \in ToSet(kept) : g.bucket = timelineBucket(a, month) /\ g.assets = of(g.bucket)
  <2>1. ASSUME NEW j \in DOMAIN s
        PROVE  \E a \in ToSet(kept) : s[j].bucket = timelineBucket(a, month) /\ s[j].assets = of(s[j].bucket)
    <3> DEFINE g == s[j]
    <3>1. g = [bucket |-> g.bucket, assets |-> of(g.bucket)]
        BY <1>5 DEF GroupsOf
    <3>2. g.bucket \in {timelineBucket(a, month) : a \in ToSet(kept)}
        BY <1>5 DEF GroupsOf
    <3> HIDE DEF g, of
    <3>3. g.assets = of(g.bucket)
        BY <3>1
    <3> QED
        BY <3>2, <3>3 DEF g
  <2> HIDE DEF of
  <2> QED
      BY <1>5, <2>1 DEF GroupsOf, ToSet
<1> HIDE DEF of
<1>8. DOMAIN key = ToSet(s) /\ \A g \in ToSet(s) : key[g] \in Int
  <2>1. \A g \in ToSet(s) : Label(g.bucket) \in Int
      BY <1>6, <1>7, BucketKinds, LabelIsInt
  <2> QED
      BY <2>1
<1> HIDE DEF key
<1>9. Reorders(w, s)
    BY <1>3, <1>7, <1>8, SortedByTitle, SMTT(20)
<1>10. w[i] \in ToSet(s)
    BY <1>4, <1>9 DEF Reorders, ToSet
<1>11. PICK a \in ToSet(kept) : w[i].bucket = timelineBucket(a, month) /\ w[i].assets = of(w[i].bucket)
    BY <1>7, <1>10
<1>12. k = Child(Id(user, <<"timeline">> \o timelineBucket(a, month)), Len(of(timelineBucket(a, month))))
    BY <1>4, <1>11 DEF F
<1>13. of(timelineBucket(a, month)) = InGroup(kept, month, timelineBucket(a, month))
    BY DEF of, InGroup
<1>14. OfGroup(k, user, kept, month)
    BY <1>12, <1>13 DEF OfGroup
<1> QED
    BY <1>14 DEF kept

\* A group is what the folder of its bucket has.
LEMMA GroupIsBucket ==
    ASSUME NEW media \in Seq(Assets), NEW month \in BOOLEAN, NEW year, NEW b, year = 0 \/ b[1] = year,
           NEW p, Tail(p) = b, (Len(p) = 3) = month
    PROVE  InGroup(KeptOf(media, month, year), month, b) = BucketAssets(media, p)
<1> DEFINE one == {a \in ToSet(media) : year = 0 \/ timelineBucket(a, month)[1] = year}
           kept == Where(media, one)
           two == {z \in ToSet(kept) : timelineBucket(z, month) = b}
           both == {a \in ToSet(media) : timelineBucket(a, month) = b}
<1>1. KeptOf(media, month, year) = kept
    BY DEF KeptOf
<1>2. ToSet(kept) = ToSet(media) \cap one
    BY WhereLists
<1> HIDE DEF kept
<1>3. \A x \in ToSet(media) : x \in both <=> x \in one /\ x \in two
    BY <1>2
<1> HIDE DEF one, two, both
<1>4. Where(Where(media, one), two) = Where(media, both)
    BY <1>3, WhereTwice
<1>5. BucketAssets(media, p) = Where(media, both)
    BY DEF BucketAssets, both
<1> QED
    BY <1>1, <1>4, <1>5 DEF kept, two, InGroup

\* A month of a year is a month of the timeline.
LEMMA MonthOfYear ==
    ASSUME NEW media \in Seq(Assets), NEW y, NEW d
    PROVE  BucketAssets(BucketAssets(media, <<"timeline", y>>), <<"timeline", y, d>>)
           = BucketAssets(media, <<"timeline", y, d>>)
<1> DEFINE one == {a \in ToSet(media) : timelineBucket(a, FALSE) = <<y>>}
           year == Where(media, one)
           two == {a \in ToSet(year) : timelineBucket(a, TRUE) = <<y, d>>}
           both == {a \in ToSet(media) : timelineBucket(a, TRUE) = <<y, d>>}
<1>1. ToSet(year) = ToSet(media) \cap one /\ ToSet(media) \subseteq Assets
    BY WhereLists, ListsAre
<1>2. BucketAssets(media, <<"timeline", y>>) = year
  <2>1. Len(<<"timeline", y>>) # 3 /\ Tail(<<"timeline", y>>) = <<y>>
      BY BucketForms
  <2>2. (Len(<<"timeline", y>>) = 3) = FALSE
      BY <2>1
  <2> DEFINE p == <<"timeline", y>>
             b == <<y>>
  <2> HIDE DEF p, b, year
  <2>3. BucketAssets(media, p) = Where(media, {a \in ToSet(media) : timelineBucket(a, FALSE) = b})
      BY <2>1, <2>2 DEF BucketAssets, p, b
  <2> QED
      BY <2>3 DEF p, b, year
<1>3. \A s : BucketAssets(s, <<"timeline", y, d>>) = Where(s, {a \in ToSet(s) : timelineBucket(a, TRUE) = <<y, d>>})
  <2>1. Len(<<"timeline", y, d>>) = 3 /\ Tail(<<"timeline", y, d>>) = <<y, d>>
      BY BucketForms
  <2>2. (Len(<<"timeline", y, d>>) = 3) = TRUE
      BY <2>1
  <2> DEFINE p == <<"timeline", y, d>>
             b == <<y, d>>
  <2> HIDE DEF p, b
  <2>3. \A s : BucketAssets(s, p) = Where(s, {a \in ToSet(s) : timelineBucket(a, TRUE) = b})
      BY <2>1, <2>2 DEF BucketAssets, p, b
  <2> QED
      BY <2>3 DEF p, b
<1> HIDE DEF year
<1>4. ASSUME NEW x \in ToSet(media) PROVE x \in both <=> x \in one /\ x \in two
  <2>1. ASSUME timelineBucket(x, TRUE) = <<y, d>> PROVE timelineBucket(x, FALSE) = <<y>>
    <3>1. IsYear(timelineBucket(x, FALSE)) /\ timelineBucket(x, TRUE)[1] = timelineBucket(x, FALSE)[1]
        BY <1>1, BucketsAre
    <3>2. PICK z \in Nat : timelineBucket(x, FALSE) = <<z>>
        BY <3>1 DEF IsYear
    <3>3. <<y, d>>[1] = y /\ <<z>>[1] = z
        OBVIOUS
    <3> QED
        BY <2>1, <3>1, <3>2, <3>3
  <2> QED
      BY <1>1, <2>1
<1> HIDE DEF one, two, both
<1>5. Where(Where(media, one), two) = Where(media, both)
    BY <1>4, WhereTwice
<1>6. BucketAssets(media, <<"timeline", y, d>>) = Where(media, both)
    BY <1>3 DEF both
<1>7. BucketAssets(year, <<"timeline", y, d>>) = Where(year, two)
    BY <1>3 DEF two
<1> QED
    BY <1>2, <1>5, <1>6, <1>7 DEF year

\* The groups of mine are folders of the timeline, and in folder id.
AreBuckets(c, id, media, mine, month, year) ==
    \A a \in ToSet(KeptOf(mine, month, year)) :
        LET b == timelineBucket(a, month)
            p == <<"timeline">> \o b
        IN  /\ (Len(p) = 3) = month /\ (year = 0 \/ b[1] = year) /\ IsBucket(c, p)
            /\ BucketAssets(mine, p) = BucketAssets(media, p)
            /\ id = Id(id.user, IF Len(p) = 3 THEN <<"timeline", p[2]>> ELSE <<"timeline">>)

\* The folders of the years, of the months of a year, or of the months of the timeline.
LEMMA GroupsAgree ==
    ASSUME NEW c \in Configs, NEW id, InAccount(c, id), NEW lists, NEW today, Timeline(lists) \in Seq(Assets),
           <<"timeline">> \in ToSet(Needs(c, id, today)),
           NEW mine \in Seq(Assets), NEW month \in BOOLEAN, NEW year, NEW req,
           AreBuckets(c, id, Timeline(lists), mine, month, year)
    PROVE  \A k \in ToSet(GroupFolders(id.user, groupTimeline(mine, month, year), req).children) :
               Agrees(c, id, lists, today, k)
<1> DEFINE kept == KeptOf(mine, month, year)
           media == Timeline(lists)
<1> SUFFICES ASSUME NEW k \in ToSet(GroupFolders(id.user, groupTimeline(mine, month, year), req).children)
             PROVE  Agrees(c, id, lists, today, k)
    OBVIOUS
<1>1. PICK a \in ToSet(kept) : k = Child(Id(id.user, <<"timeline">> \o timelineBucket(a, month)),
                                       Len(InGroup(kept, month, timelineBucket(a, month))))
  <2>1. OfGroup(k, id.user, kept, month)
      BY GroupChildren
  <2> QED
      BY <2>1 DEF OfGroup
<1> DEFINE b == timelineBucket(a, month)
           p == <<"timeline">> \o b
           all == InGroup(kept, month, b)
<1>2. k = Child(Id(id.user, p), Len(all))
    BY <1>1
<1>3. /\ (Len(p) = 3) = month /\ (year = 0 \/ b[1] = year) /\ IsBucket(c, p)
      /\ BucketAssets(mine, p) = BucketAssets(media, p)
      /\ id = Id(id.user, IF Len(p) = 3 THEN <<"timeline", p[2]>> ELSE <<"timeline">>)
    BY DEF AreBuckets
<1>4. kept \in Seq(Assets) /\ ToSet(kept) \subseteq Assets
    BY WhereLists, ListsAre DEF KeptOf
<1>5. IsPath(p) /\ Tail(p) = b
    BY <1>4, BucketKinds, BucketPaths
<1> HIDE DEF b, p
<1>6. all = BucketAssets(mine, p)
    BY <1>3, <1>5, GroupIsBucket
<1>7. all # <<>>
  <2> DEFINE in == {z \in ToSet(kept) : timelineBucket(z, month) = b}
  <2>1. a \in in /\ all = Where(kept, in)
      BY DEF b, InGroup
  <2> HIDE DEF in, kept, all
  <2> QED
      BY <1>4, <2>1, WhereNonempty
<1> HIDE DEF all, kept, media
<1>8. Agrees(c, id, lists, today, Child(Id(id.user, p), Len(all)))
    BY <1>3, <1>5, <1>6, <1>7, BucketAgrees DEF media
<1> QED
    BY <1>2, <1>8

\* The timeline, a year, or a month.
LEMMA TimelineAgrees ==
    ASSUME NEW c \in Configs, NEW id, WellNamed(id), InAccount(c, id), id.path[1] = "timeline",
           Len(id.path) > 1 => IsBucket(c, id.path), NEW lists, NEW today, Timeline(lists) \in Seq(Assets),
           <<"timeline">> \in ToSet(Needs(c, id, today)), NEW req
    PROVE  \A k \in ToSet(browseTimeline(c, id, Timeline(lists), req).children) : Agrees(c, id, lists, today, k)
<1> DEFINE media == Timeline(lists)
           path == id.path
           whole == path = <<"timeline">>
           cs == browseTimeline(c, id, media, req).children
           Good == \A k \in ToSet(cs) : Agrees(c, id, lists, today, k)
<1>1. id = Id(id.user, path) /\ IsPath(path)
    BY DEF WellNamed
<1>2. CASE whole /\ Grouped(c)
  <2>1. cs = GroupFolders(id.user, groupTimeline(media, FALSE, 0), req).children
      BY <1>2 DEF browseTimeline
  <2>2. ASSUME NEW a \in ToSet(KeptOf(media, FALSE, 0))
        PROVE  LET b == timelineBucket(a, FALSE)
                   p == <<"timeline">> \o b
               IN  /\ (Len(p) = 3) = FALSE /\ IsBucket(c, p)
                   /\ id = Id(id.user, IF Len(p) = 3 THEN <<"timeline", p[2]>> ELSE <<"timeline">>)
    <3> DEFINE b == timelineBucket(a, FALSE)
               p == <<"timeline">> \o b
    <3>1. a \in Assets
        BY WhereLists, ListsAre DEF KeptOf
    <3>2. PICK y \in Nat : b = <<y>>
        BY <3>1, BucketsAre DEF IsYear
    <3>3. p = <<"timeline", y>>
        BY <3>2, Prefixed
    <3>4. p[1] = "timeline" /\ Len(p) = 2
        BY <3>3, BucketForms
    <3> HIDE DEF b, p
    <3>5. IsBucket(c, p)
        BY <1>2, <3>4 DEF IsBucket
    <3>6. (Len(p) = 3) = FALSE
        BY <3>4
    <3> QED
        BY <1>1, <1>2, <3>5, <3>6 DEF b, p
  <2>3. AreBuckets(c, id, media, media, FALSE, 0)
      BY <2>2 DEF AreBuckets
  <2> HIDE DEF cs
  <2>4. Good
      BY <2>1, <2>3, GroupsAgree
  <2> QED
      BY <2>4 DEF cs
<1>3. CASE whole /\ ~Grouped(c)
  <2>1. cs = assetItems(id.user, media, req).children
      BY <1>3, Tags DEF browseTimeline
  <2> HIDE DEF cs
  <2>2. Good
      BY <2>1, AssetItemsAgree
  <2> QED
      BY <2>2 DEF cs
<1> DEFINE mine == BucketAssets(media, path)
<1>4. mine \in Seq(Assets) /\ ToSet(mine) = {a \in ToSet(media) : timelineBucket(a, Len(path) = 3) = Tail(path)}
      /\ ToSet(mine) \subseteq Assets
  <2> DEFINE in == {a \in ToSet(media) : timelineBucket(a, Len(path) = 3) = Tail(path)}
  <2>1. mine = Where(media, in) /\ ToSet(media) \subseteq Assets
      BY ListsAre DEF BucketAssets
  <2>2. in \subseteq ToSet(media)
      OBVIOUS
  <2> HIDE DEF in
  <2>3. Where(media, in) \in Seq(Assets) /\ ToSet(Where(media, in)) = ToSet(media) \cap in
      BY WhereLists
  <2>4. ToSet(mine) = in
      BY <2>1, <2>2, <2>3
  <2> QED
      BY <2>1, <2>2, <2>3, <2>4 DEF in
<1> HIDE DEF mine
<1>5. CASE ~whole /\ mine = <<>>
  <2>1. cs = <<>>
      BY <1>5 DEF browseTimeline, NoListing, mine
  <2> HIDE DEF cs
  <2>2. Good
      BY <2>1 DEF ToSet
  <2> QED
      BY <2>2 DEF cs
<1>6. CASE ~whole /\ mine # <<>> /\ ~HasMonths(c, path)
  <2>1. cs = assetItems(id.user, mine, req).children
      BY <1>6 DEF browseTimeline, mine
  <2> HIDE DEF cs
  <2>2. Good
      BY <1>4, <2>1, AssetItemsAgree
  <2> QED
      BY <2>2 DEF cs
<1>7. CASE ~whole /\ mine # <<>> /\ HasMonths(c, path)
  <2> DEFINE year == path[2]
  <2>1. cs = GroupFolders(id.user, groupTimeline(mine, TRUE, year), req).children
      BY <1>7 DEF browseTimeline, mine
  <2>2. path = <<"timeline", year>> /\ ByMonth(c) /\ Tail(path) = <<year>> /\ Tail(path) # Unknown
    <3>1. Len(path) = 2 /\ IsList(path)
        BY <1>1, <1>7 DEF HasMonths, IsPath
    <3>2. path = <<path[1], path[2]>>
      <4> HIDE DEF path
      <4>1. path \in Seq(ToSet(path)) /\ Len(path) = 2
          BY <3>1 DEF IsList
      <4> QED
          BY <4>1
    <3>3. path = <<"timeline", year>>
        BY <3>2
    <3>4. Tail(path) = <<year>>
      <4>1. Tail(<<"timeline", year>>) = <<year>>
          BY BucketForms
      <4> QED
          BY <3>3, <4>1
    <3> QED
        BY <1>7, <3>3, <3>4 DEF HasMonths
  <2> HIDE DEF year
  <2>3. ASSUME NEW a \in ToSet(KeptOf(mine, TRUE, year))
        PROVE  LET b == timelineBucket(a, TRUE)
                   p == <<"timeline">> \o b
               IN  /\ (Len(p) = 3) = TRUE /\ b[1] = year /\ IsBucket(c, p)
                   /\ BucketAssets(mine, p) = BucketAssets(media, p)
                   /\ id = Id(id.user, IF Len(p) = 3 THEN <<"timeline", p[2]>> ELSE <<"timeline">>)
    <3> DEFINE b == timelineBucket(a, TRUE)
               p == <<"timeline">> \o b
    <3>1. a \in ToSet(mine) /\ a \in Assets
        BY <1>4, WhereLists DEF KeptOf
    <3>2. timelineBucket(a, FALSE) = <<year>>
      <4>1. (Len(path) = 3) = FALSE
        <5>1. Len(path) = 2
            BY <1>7 DEF HasMonths
        <5> QED
            BY <5>1
      <4> QED
          BY <1>4, <2>2, <3>1, <4>1
    <3>3. b[1] = year
      <4>1. b[1] = timelineBucket(a, FALSE)[1]
          BY <3>1, BucketsAre
      <4>2. <<year>>[1] = year
          OBVIOUS
      <4> HIDE DEF b
      <4> QED
          BY <3>2, <4>1, <4>2
    <3>4. b # Unknown
      <4>1. Unknown[1] = 0
          BY DEF Unknown
      <4> HIDE DEF b
      <4> QED
          BY <2>2, <3>3, <4>1 DEF Unknown
    <3>5. IsMonth(b)
        BY <3>1, <3>4, BucketsAre
    <3>6. PICK y \in Nat, d \in Nat : b = <<y, d>>
        BY <3>5 DEF IsMonth
    <3>7. y = year /\ p = <<"timeline", year, d>>
      <4>1. p = <<"timeline", y, d>>
          BY <3>6, Prefixed
      <4>2. <<y, d>>[1] = y
          OBVIOUS
      <4> HIDE DEF b, p
      <4> QED
          BY <3>3, <3>6, <4>1, <4>2
    <3> HIDE DEF b, p
    <3>8. p[1] = "timeline" /\ Len(p) = 3 /\ p[2] = year
        BY <3>7, BucketForms
    <3>9. IsBucket(c, p)
        BY <2>2, <3>8 DEF IsBucket, ByMonth, Grouped
    <3>10. BucketAssets(mine, p) = BucketAssets(media, p)
        BY <2>2, <3>7, MonthOfYear DEF mine
    <3>11. id = Id(id.user, <<"timeline", p[2]>>)
        BY <1>1, <2>2, <3>8
    <3> QED
        BY <3>3, <3>8, <3>9, <3>10, <3>11 DEF b, p
  <2>4. AreBuckets(c, id, media, mine, TRUE, year)
      BY <2>3 DEF AreBuckets
  <2> HIDE DEF cs
  <2>5. Good
      BY <1>4, <2>1, <2>4, GroupsAgree
  <2> QED
      BY <2>5 DEF cs
<1> QED
    BY <1>2, <1>3, <1>5, <1>6, <1>7

-----------------------------------------------------------------------------
(* Places. *)

\* The containers of places: one for each.
LEMMA PlacesAre ==
    ASSUME NEW order \in MapOrders, NEW names, \A o \in MapOrders : names \subseteq ToSet(o),
           NEW key, key = [x \in names |-> key[x]], \A x \in names : key[x] \in Int, NEW F, NEW req
    PROVE  LET cs == Places(names, order, key, F, req)
           IN  Len(cs) = Cardinality(names) /\ \A k \in ToSet(cs) : \E x \in names : k = F[x]
<1> DEFINE w == PlacesInOrder(names, order, key, req)
           cs == Places(names, order, key, F, req)
<1>1. order \in Seq(STRING) /\ IsInjective(order) /\ names \subseteq ToSet(order)
    BY MapsYieldAllKeys DEF MapsYieldAllKeys
<1>2. IsList(w) /\ ToSet(w) = names /\ IsInjective(w)
    BY <1>1, PlacesAreSorted
<1>3. cs = [i \in DOMAIN w |-> F[w[i]]]
    BY DEF Places
<1> HIDE DEF w, cs
<1>4. Len(w) = Cardinality(names)
    BY <1>2, InjectiveLength
<1>5. Len(w) \in Nat /\ DOMAIN w = 1..Len(w)
    BY <1>2, ListLen
<1>6. Len(cs) = Len(w) /\ DOMAIN cs = DOMAIN w
  <2>1. cs = [i \in 1..Len(w) |-> cs[i]]
      BY <1>3, <1>5
  <2> QED
      BY <1>5, <2>1, ListOf
<1>7. \A k \in ToSet(cs) : \E x \in names : k = F[x]
    BY <1>2, <1>3, <1>6 DEF ToSet
<1> QED
    BY <1>4, <1>6, <1>7 DEF cs

\* A country or a city, found in the folder id with n children.
LEMMA PlaceAgrees ==
    ASSUME NEW c \in Configs, NEW id, InAccount(c, id), NEW lists, NEW today,
           <<"timeline">> \in ToSet(Needs(c, id, today)), "places" \in ToSet(c.extras),
           NEW p, IsPath(p), p[1] = "place", NEW n,
           LET x == Id(id.user, p)
           IN  /\ placeMetadata(x, Timeline(lists)) = Container(id, n)
               /\ \A order \in MapOrders : \A req : Len(browsePlaces(x, Timeline(lists), order, req).children) = n
    PROVE  Agrees(c, id, lists, today, Child(Id(id.user, p), n))
<1> DEFINE x == Id(id.user, p)
           k == Child(x, n)
           media == Timeline(lists)
           m == metadata(c, x, lists)
<1>1. k.id = x /\ k.count = n /\ x.user = id.user /\ x.path = p /\ x = Id(x.user, x.path)
    BY DEF Child, Id
<1>2. /\ placeMetadata(x, media) = Container(id, n)
      /\ \A order \in MapOrders : \A req : Len(browsePlaces(x, media, order, req).children) = n
    OBVIOUS
<1> HIDE DEF x, k
<1>3. InAccount(c, x) /\ extraFolderFor(c, x.path) /\ ExtraFolder(x.path) = "places"
    BY <1>1, SameAccount DEF extraFolderFor, ExtraFolder
<1>4. \A any : filterSupportedAssets(lists[Source(x.path, any)]) = media /\ Source(x.path, any) = <<"timeline">>
    BY <1>1 DEF Source, Timeline
<1> HIDE DEF media
<1>5. m = Container(id, n)
    BY <1>1, <1>2, <1>3, <1>4, Explanations DEF Explained, InAccount
<1>6. m.found /\ m.parent = id /\ m.count = n
    BY <1>5 DEF Container
<1> HIDE DEF m
<1>7. Described(c, id, lists, k)
    BY <1>1, <1>6 DEF Described, m
<1>8. ASSUME NEW now, NEW req, now.order \in MapOrders
      PROVE  Len(browse(c, x, lists, now, req).children) = n
  <2>1. browse(c, x, lists, now, req) = browseUserScope(c, x, lists, now, req)
      BY <1>3 DEF browse, InAccount
  <2>2. browseUserScope(c, x, lists, now, req) = browseExtraFolder(x, media, now, req)
      BY <1>1, <1>3, <1>4, Routes DEF Routed
  <2>3. browseExtraFolder(x, media, now, req) = browsePlaces(x, media, now.order, req)
      BY <1>3 DEF browseExtraFolder
  <2> QED
      BY <1>2, <1>8, <2>1, <2>2, <2>3
<1>9. ToSet(Needs(c, x, today)) \subseteq ToSet(Needs(c, id, today))
  <2>1. x.path # <<"0">> /\ x.path[1] # "asset" /\ x.path[1] # "timeline"
      BY <1>1, Tags
  <2>2. Needs(c, x, today) = << <<"timeline">> >>
      BY <1>1, <1>3, <1>4, <2>1, SourceNeeded DEF InAccount
  <2>3. ToSet(Needs(c, x, today)) = {<<"timeline">>}
      BY <2>2 DEF ToSet
  <2> QED
      BY <2>3
<1>10. Keeps(c, id, lists, today, k)
    BY <1>1, <1>8, <1>9 DEF Keeps
<1>11. WellNamed(k.id)
    BY <1>1 DEF WellNamed
<1>12. Agrees(c, id, lists, today, k)
    BY <1>7, <1>10, <1>11 DEF Agrees
<1> QED
    BY <1>12 DEF k, x

\* The paths of a country and of a city.
LEMMA PlaceForms ==
    /\ \A x : LET p == <<"place", x>> IN p # <<"places">> /\ Len(p) = 2 /\ p[1] = "place" /\ p[2] = x /\ IsPath(p)
    /\ \A x, y : LET p == <<"place", x, y>>
                 IN p # <<"places">> /\ Len(p) = 3 /\ p[1] = "place" /\ p[2] = x /\ p[3] = y /\ IsPath(p)
<1>1. Len(<<"places">>) = 1
    OBVIOUS
<1>2. ASSUME NEW x
      PROVE  LET p == <<"place", x>> IN p # <<"places">> /\ Len(p) = 2 /\ p[1] = "place" /\ p[2] = x /\ IsPath(p)
  <2> DEFINE p == <<"place", x>>
  <2>1. Len(p) = 2 /\ p[1] = "place" /\ p[2] = x
      OBVIOUS
  <2>2. IsPath(p)
      BY FolderPaths
  <2> HIDE DEF p
  <2>3. p # <<"places">>
      BY <1>1, <2>1
  <2> QED
      BY <2>1, <2>2, <2>3 DEF p
<1>3. ASSUME NEW x, NEW y
      PROVE  LET p == <<"place", x, y>>
             IN p # <<"places">> /\ Len(p) = 3 /\ p[1] = "place" /\ p[2] = x /\ p[3] = y /\ IsPath(p)
  <2> DEFINE p == <<"place", x, y>>
  <2>1. Len(p) = 3 /\ p[1] = "place" /\ p[2] = x /\ p[3] = y
      OBVIOUS
  <2>2. IsPath(p)
      BY FolderPaths
  <2> HIDE DEF p
  <2>3. p # <<"places">>
      BY <1>1, <2>1
  <2> QED
      BY <2>1, <2>2, <2>3 DEF p
<1> QED
    BY <1>2, <1>3

\* A country has its cities, and a city its assets.
LEMMA CountryHasCities ==
    ASSUME NEW media \in Seq(Assets), NEW user, NEW x \in Countries(media), NEW order \in MapOrders, NEW req
    PROVE  LET id == Id(user, <<"place", x>>)
           IN  /\ Len(browsePlaces(id, media, order, req).children) = Cardinality(Cities(media, x))
               /\ placeMetadata(id, media) = Container(Id(user, <<"places">>), Cardinality(Cities(media, x)))
<1> DEFINE id == Id(user, <<"place", x>>)
<1>1. id.user = user /\ Len(id.path) = 2 /\ id.path # <<"places">> /\ id.path[2] = x
  <2>1. id.user = user /\ id.path = <<"place", x>>
      BY DEF Id
  <2> HIDE DEF id
  <2> QED
      BY <2>1, PlaceForms
<1> HIDE DEF id
<1>2. placeMetadata(id, media) = Container(Id(user, <<"places">>), Cardinality(Cities(media, x)))
    BY <1>1 DEF placeMetadata
<1> DEFINE names == Cities(media, x)
           key == [c \in names |-> Title[cityTitle(c)]]
           F == [c \in names |-> Child(Id(id.user, <<"place">> \o <<x, c>>), Len(InCity(media, x, c)))]
           cs == Places(names, order, key, F, req)
<1>3. /\ \A y \in names : key[y] \in Int
      /\ \A o \in MapOrders : names \subseteq ToSet(o)
      /\ browsePlaces(id, media, order, req) = Listing(cs)
    BY <1>1, CitiesListed
<1>4. key = [y \in names |-> key[y]]
    OBVIOUS
<1> HIDE DEF names, key, F
<1>5. Len(cs) = Cardinality(names)
    BY <1>3, <1>4, PlacesAre
<1> HIDE DEF cs
<1>6. browsePlaces(id, media, order, req).children = cs
    BY <1>3 DEF Listing
<1> QED
    BY <1>2, <1>5, <1>6 DEF id, names

CityIs(id, media, parent, s) ==
    /\ \A order, req : Len(browsePlaces(id, media, order, req).children) = Len(s)
    /\ placeMetadata(id, media) = Container(parent, Len(s))

\* A city that is listed has an asset.
LEMMA CityHasAssets ==
    ASSUME NEW media \in Seq(Assets), NEW user, NEW x, NEW city \in Cities(media, x)
    PROVE  CityIs(Id(user, <<"place", x, city>>), media, Id(user, <<"place", x>>), InCity(media, x, city))
<1> DEFINE id == Id(user, <<"place", x, city>>)
           s == InCity(media, x, city)
<1>1. id.user = user /\ Len(id.path) = 3 /\ id.path # <<"places">> /\ id.path[2] = x /\ id.path[3] = city
  <2>1. id.user = user /\ id.path = <<"place", x, city>>
      BY DEF Id
  <2> HIDE DEF id
  <2> QED
      BY <2>1, PlaceForms
<1> HIDE DEF id
<1>2. s # <<>>
  <2> DEFINE k == InCountry(media, x)
             in == {a \in ToSet(media) : Place[a][2] = city}
  <2>1. PICK z \in ToSet(k) : Place[z][2] = city
      BY DEF Cities
  <2>2. k \in Seq(Assets) /\ ToSet(k) \subseteq ToSet(media)
    <3>1. Located(media) \in Seq(Assets) /\ ToSet(Located(media)) \subseteq ToSet(media)
      <4> DEFINE some == {a \in ToSet(media) : Place[a][1] # ""}
      <4>1. Located(media) = Where(media, some)
          BY DEF Located
      <4> HIDE DEF some
      <4> QED
          BY <4>1, WhereLists
    <3> QED
        BY <3>1, WhereLists DEF InCountry
  <2>3. z \in in
      BY <2>1, <2>2
  <2>4. s = Where(k, in)
      BY DEF InCity
  <2> HIDE DEF k, in, s
  <2> QED
      BY <2>1, <2>2, <2>3, <2>4, WhereNonempty
<1>3. s \in Seq(Assets)
    BY PlacesOfAssets
<1>4. placeMetadata(id, media) = Container(Id(user, <<"place", x>>), Len(s))
    BY <1>1, <1>2 DEF placeMetadata
<1>5. ASSUME NEW order, NEW req PROVE browsePlaces(id, media, order, req) = assetItems(user, s, req)
  <2>1. s = InCity(media, id.path[2], id.path[3])
      BY <1>1
  <2>2. ~(Len(id.path) = 2)
      BY <1>1
  <2> QED
      BY <1>1, <1>2, <2>1, <2>2 DEF browsePlaces
<1> HIDE DEF s
<1>6. \A order, req : Len(browsePlaces(id, media, order, req).children) = Len(s)
    BY <1>3, <1>5, ListedItems
<1>7. CityIs(id, media, Id(user, <<"place", x>>), s)
    BY <1>4, <1>6 DEF CityIs
<1> QED
    BY <1>7 DEF id, s

\* The places, a country, or a city.
LEMMA PlacesAgree ==
    ASSUME NEW c \in Configs, NEW id, WellNamed(id), InAccount(c, id), extraFolderFor(c, id.path),
           ExtraFolder(id.path) = "places", NEW lists, NEW today, Timeline(lists) \in Seq(Assets),
           <<"timeline">> \in ToSet(Needs(c, id, today)), NEW order \in MapOrders, NEW req
    PROVE  \A k \in ToSet(browsePlaces(id, Timeline(lists), order, req).children) : Agrees(c, id, lists, today, k)
<1> DEFINE media == Timeline(lists)
           path == id.path
           cs == browsePlaces(id, media, order, req).children
           Good == \A k \in ToSet(cs) : Agrees(c, id, lists, today, k)
<1>1. /\ id = Id(id.user, path) /\ IsPath(path) /\ "places" \in ToSet(c.extras)
      /\ path # <<"places">> => path[1] = "place"
    BY DEF WellNamed, extraFolderFor, ExtraFolder
<1>2. CASE path = <<"places">>
  <2> DEFINE names == Countries(media)
             key == [x \in names |-> Title[x]]
             F == [x \in names |-> Child(Id(id.user, <<"place">> \o <<x>>), Cardinality(Cities(media, x)))]
             all == Places(names, order, key, F, req)
  <2>1. /\ \A x \in names : key[x] \in Int
        /\ \A o \in MapOrders : names \subseteq ToSet(o)
        /\ browsePlaces(id, media, order, req) = Listing(all)
      BY <1>2, CountriesListed
  <2>2. key = [x \in names |-> key[x]]
      OBVIOUS
  <2>3. \A x \in names : F[x] = Child(Id(id.user, <<"place", x>>), Cardinality(Cities(media, x)))
      BY Prefixed
  <2>4. ASSUME NEW x \in names PROVE Agrees(c, id, lists, today, F[x])
    <3> DEFINE p == <<"place", x>>
               n == Cardinality(Cities(media, x))
    <3>1. id = Id(id.user, <<"places">>)
        BY <1>1, <1>2
    <3>2. \A o \in MapOrders : \A r : Len(browsePlaces(Id(id.user, p), media, o, r).children) = n
        BY CountryHasCities
    <3>3. placeMetadata(Id(id.user, p), media) = Container(id, n)
        BY <3>1, CountryHasCities
    <3>4. IsPath(p) /\ p[1] = "place"
        BY PlaceForms
    <3> HIDE DEF p, n, F, media, names
    <3>5. Agrees(c, id, lists, today, Child(Id(id.user, p), n))
        BY <1>1, <3>2, <3>3, <3>4, PlaceAgrees DEF media
    <3> QED
        BY <2>3, <3>5 DEF p, n
  <2> HIDE DEF names, key, F
  <2>5. Len(all) = Cardinality(names) /\ \A k \in ToSet(all) : \E x \in names : k = F[x]
      BY <2>1, <2>2, PlacesAre
  <2>6. cs = all
      BY <2>1 DEF Listing
  <2> HIDE DEF cs, all
  <2>7. Good
      BY <2>4, <2>5, <2>6
  <2> QED
      BY <2>7 DEF cs
<1>3. CASE path # <<"places">> /\ Len(path) = 2 /\ path[2] \in Countries(media)
  <2> DEFINE country == path[2]
             names == Cities(media, country)
             key == [x \in names |-> Title[cityTitle(x)]]
             F == [x \in names |-> Child(Id(id.user, <<"place">> \o <<country, x>>), Len(InCity(media, country, x)))]
             all == Places(names, order, key, F, req)
  <2>1. /\ \A x \in names : key[x] \in Int
        /\ \A o \in MapOrders : names \subseteq ToSet(o)
        /\ browsePlaces(id, media, order, req) = Listing(all)
      BY <1>3, CitiesListed
  <2>2. key = [x \in names |-> key[x]]
      OBVIOUS
  <2>3. \A x \in names : F[x] = Child(Id(id.user, <<"place", country, x>>), Len(InCity(media, country, x)))
      BY Prefixed
  <2>4. ASSUME NEW x \in names PROVE Agrees(c, id, lists, today, F[x])
    <3> DEFINE p == <<"place", country, x>>
               s == InCity(media, country, x)
               n == Len(s)
    <3>1. id = Id(id.user, <<"place", country>>)
      <4>1. path \in Seq(ToSet(path)) /\ Len(path) = 2 /\ path[1] = "place"
          BY <1>1, <1>3 DEF IsPath, IsList
      <4> HIDE DEF path
      <4>2. path = <<path[1], path[2]>>
          BY <4>1
      <4>3. path = <<"place", country>>
          BY <4>1, <4>2
      <4> QED
          BY <1>1, <4>3
    <3> DEFINE y == Id(id.user, p)
    <3>2. CityIs(y, media, id, s)
        BY <3>1, CityHasAssets
    <3>3. /\ \A o \in MapOrders : \A r : Len(browsePlaces(y, media, o, r).children) = n
          /\ placeMetadata(y, media) = Container(id, n)
        BY <3>2 DEF CityIs
    <3>4. IsPath(p) /\ p[1] = "place"
        BY PlaceForms
    <3> HIDE DEF p, n, s, F, media, names
    <3>5. Agrees(c, id, lists, today, Child(Id(id.user, p), n))
        BY <1>1, <3>2, <3>3, <3>4, PlaceAgrees DEF media
    <3> QED
        BY <2>3, <3>5 DEF p, n, s
  <2> HIDE DEF names, key, F
  <2>5. Len(all) = Cardinality(names) /\ \A k \in ToSet(all) : \E x \in names : k = F[x]
      BY <2>1, <2>2, PlacesAre
  <2>6. cs = all
      BY <2>1 DEF Listing
  <2> HIDE DEF cs, all
  <2>7. Good
      BY <2>4, <2>5, <2>6
  <2> QED
      BY <2>7 DEF cs
<1>4. CASE /\ path # <<"places">> /\ ~(Len(path) = 2 /\ path[2] \in Countries(media))
           /\ Len(path) = 3 /\ InCity(media, path[2], path[3]) # <<>>
  <2> DEFINE s == InCity(media, path[2], path[3])
  <2>1. browsePlaces(id, media, order, req) = assetItems(id.user, s, req)
      BY <1>4 DEF browsePlaces
  <2>2. s \in Seq(Assets)
      BY PlacesOfAssets
  <2> HIDE DEF s
  <2>3. Good
      BY <2>1, <2>2, AssetItemsAgree
  <2> QED
      BY <2>3
<1>5. CASE /\ path # <<"places">> /\ ~(Len(path) = 2 /\ path[2] \in Countries(media))
           /\ ~(Len(path) = 3 /\ InCity(media, path[2], path[3]) # <<>>)
  <2>1. cs = <<>>
      BY <1>5 DEF browsePlaces, NoListing
  <2> HIDE DEF cs
  <2>2. Good
      BY <2>1 DEF ToSet
  <2> QED
      BY <2>2 DEF cs
<1> QED
    BY <1>2, <1>3, <1>4, <1>5

-----------------------------------------------------------------------------
(* Every folder. *)

\* An optional folder.
LEMMA ExtraAgrees ==
    ASSUME NEW c \in Configs, NEW id, WellNamed(id), InAccount(c, id), extraFolderFor(c, id.path), id.user \in Int,
           NEW lists, NEW now, now.hour \in Int, now.order \in MapOrders, NEW req,
           NEW media \in Seq(Assets), id.path[1] # "onthisday" /\ id.path[1] # "favorites" =>
               media = Timeline(lists) /\ <<"timeline">> \in ToSet(Needs(c, id, now.today))
    PROVE  \A k \in ToSet(browseExtraFolder(id, media, now, req).children) : Agrees(c, id, lists, now.today, k)
<1>1. CASE ExtraFolder(id.path) = "places"
  <2>1. browseExtraFolder(id, media, now, req) = browsePlaces(id, media, now.order, req)
      BY <1>1 DEF browseExtraFolder
  <2>2. media = Timeline(lists) /\ <<"timeline">> \in ToSet(Needs(c, id, now.today))
      BY <1>1 DEF ExtraFolder
  <2> QED
      BY <1>1, <2>1, <2>2, PlacesAgree
<1>2. CASE ExtraFolder(id.path) = "random"
  <2> DEFINE s == randomSample(media, now.hour, id.user)
  <2>1. browseExtraFolder(id, media, now, req) = assetItems(id.user, s, req)
      BY <1>2 DEF browseExtraFolder
  <2>2. s \in Seq(Assets)
      BY SampleOfAssets
  <2> HIDE DEF s
  <2> QED
      BY <2>1, <2>2, AssetItemsAgree
<1>3. CASE ExtraFolder(id.path) \notin {"places", "random"}
  <2>1. browseExtraFolder(id, media, now, req) = assetItems(id.user, media, req)
      BY <1>3 DEF browseExtraFolder
  <2> QED
      BY <2>1, AssetItemsAgree
<1> QED
    BY <1>1, <1>2, <1>3

\* Every child of every folder agrees with what it turns out to be.
LEMMA ChildrenAgree ==
    ASSUME NEW c \in Configs, NEW id, WellNamed(id), NEW lists, NEW calm, GoodLists(lists, calm),
           NEW now, now.hour \in Int, now.today \in Nat \X Nat, now.order \in MapOrders, NEW req,
           ToSet(Needs(c, id, now.today)) \subseteq DOMAIN lists
    PROVE  \A k \in ToSet(browse(c, id, lists, now, req).children) : Agrees(c, id, lists, now.today, k)
<1> DEFINE answer == browse(c, id, lists, now, req)
           cs == answer.children
           path == id.path
           Fine == \A k \in ToSet(cs) : Agrees(c, id, lists, now.today, k)
<1>1. ASSUME answer = NoListing PROVE Fine
  <2>1. cs = <<>>
      BY <1>1 DEF NoListing
  <2> HIDE DEF cs
  <2> QED
      BY <2>1 DEF ToSet
<1>2. CASE IsTop(c, id)
  <2>1. answer = Listing(Accounts(c))
      BY <1>2 DEF browse
  <2>2. cs = Accounts(c)
      BY <2>1 DEF Listing
  <2> QED
      BY <1>2, <2>2, AccountsAgree
<1>3. CASE ~IsTop(c, id) /\ ~parseUserObjectID(c, id)
    BY <1>1, <1>3 DEF browse
<1>4. ASSUME ~IsTop(c, id), parseUserObjectID(c, id) PROVE Fine
  <2> DEFINE media == filterSupportedAssets(lists[Source(path, now.today)])
             extra == extraFolderFor(c, path)
  <2>1. InAccount(c, id) /\ answer = browseUserScope(c, id, lists, now, req) /\ IsPath(path)
      BY <1>4 DEF browse, InAccount, WellNamed
  <2>2. id.user \in Int
    <3>1. c.users \in Nat
        BY ConfigsAreUsable DEF ConfigsAreUsable
    <3> QED
        BY <1>4, <3>1 DEF parseUserObjectID
  <2>3. path[1] = "asset" => \E a \in Assets : path = <<"asset", a>>
      BY <2>1 DEF IsPath
  <2>4. ASSUME path[1] \in {"timeline", "favorites", "random", "onthisday", "places", "place", "album", "person"},
               ~(path[1] = "timeline" /\ Len(path) > 1 /\ ~IsBucket(c, path))
        PROVE  /\ media \in Seq(Assets)
               /\ path[1] \in {"timeline", "random", "places", "place"} =>
                      media = Timeline(lists) /\ <<"timeline">> \in ToSet(Needs(c, id, now.today))
    <3>1. path # <<"0">> /\ path[1] # "asset"
        BY <2>4, Tags
    <3>2. Source(path, now.today) \in ToSet(Needs(c, id, now.today))
        BY <1>4, <2>4, <3>1, SourceNeeded
    <3>3. ~IsGet(Source(path, now.today))
        BY <2>4, NotGets
    <3>4. media \in Seq(Assets)
        BY <3>2, <3>3, MediaOf
    <3>5. path[1] \in {"timeline", "random", "places", "place"} => Source(path, now.today) = <<"timeline">>
        BY DEF Source
    <3> QED
        BY <3>2, <3>4, <3>5 DEF Timeline
  <2>5. Routed(c, id, lists, now, req)
      BY <2>1, Routes
  <2>6. /\ path = <<"0">> => answer = Listing(RootFolders(c, id.user, lists[<<"albums">>], lists[<<"people">>]))
        /\ path = <<"albums">> => answer = Listing(AlbumFolders(id.user, lists[path], c.albumSizes, req))
        /\ path = <<"people">> => answer = Listing(PersonFolders(id.user, lists[path], req))
        /\ path[1] = "timeline" => answer = IF Len(path) > 1 /\ ~IsBucket(c, path) THEN NoListing
                                            ELSE browseTimeline(c, id, media, req)
        /\ extra => answer = browseExtraFolder(id, media, now, req)
        /\ path[1] \in {"album", "person"} => answer = assetItems(id.user, media, req)
        /\ path[1] = "asset" => answer = Listing(Items(id.user, Tail(path)))
        /\ path \notin {<<"0">>, <<"albums">>, <<"people">>} /\ ~extra
           /\ path[1] \notin {"timeline", "album", "person", "asset"} => answer = NoListing
      BY <2>1, <2>5 DEF Routed
  <2>7. extra => path[1] \in {"favorites", "random", "onthisday", "places", "place"}
      BY ExtraTags
  <2> HIDE DEF media, answer
  <2>8. ASSUME NEW key \in {<<"albums">>, <<"people">>}, key \in ToSet(Needs(c, id, now.today))
        PROVE  lists[key] = Get(key)
    <3>1. IsGet(key)
        BY <2>8, Tags DEF IsGet
    <3> QED
        BY <2>8, <3>1 DEF GoodLists, GoodList
  <2>9. CASE path = <<"0">>
    <3>1. Needs(c, id, now.today) = << <<"albums">>, <<"people">> >>
      <4>1. path[1] = "0"
          BY <2>9, Tags
      <4> QED
          BY <1>4, <2>9, <4>1 DEF Needs
    <3>2. <<"albums">> \in ToSet(Needs(c, id, now.today)) /\ <<"people">> \in ToSet(Needs(c, id, now.today))
        BY <3>1 DEF ToSet
    <3>3. lists[<<"albums">>] = Albums /\ lists[<<"people">>] = People
        BY <2>8, <3>2, Tags DEF Get
    <3>4. cs = RootFolders(c, id.user, Albums, People)
        BY <2>6, <2>9, <3>3 DEF Listing
    <3> QED
        BY <2>1, <2>9, <3>3, <3>4, RootAgrees
  <2>10. CASE path = <<"albums">>
    <3>1. Needs(c, id, now.today) = << <<"albums">> >>
        BY <2>1, <2>10, NamesFolder
    <3>2. lists[path] = Albums
      <4>1. <<"albums">> \in ToSet(Needs(c, id, now.today))
          BY <3>1 DEF ToSet
      <4> QED
          BY <2>8, <2>10, <4>1, Tags DEF Get
    <3>3. cs = AlbumFolders(id.user, Albums, c.albumSizes, req)
        BY <2>6, <2>10, <3>2 DEF Listing
    <3> QED
        BY <2>1, <2>10, <3>3, AlbumsAgree
  <2>11. CASE path = <<"people">>
    <3>1. Needs(c, id, now.today) = << <<"people">> >>
        BY <2>1, <2>11, NamesFolder
    <3>2. lists[path] = People
      <4>1. <<"people">> \in ToSet(Needs(c, id, now.today))
          BY <3>1 DEF ToSet
      <4> QED
          BY <2>8, <2>11, <4>1, Tags DEF Get
    <3>3. cs = PersonFolders(id.user, People, req)
        BY <2>6, <2>11, <3>2 DEF Listing
    <3> QED
        BY <2>1, <2>11, <3>3, PeopleAgree
  <2>12. CASE path[1] = "timeline"
    <3>1. CASE Len(path) > 1 /\ ~IsBucket(c, path)
        BY <1>1, <2>6, <2>12, <3>1
    <3>2. CASE ~(Len(path) > 1 /\ ~IsBucket(c, path))
      <4>1. media \in Seq(Assets) /\ media = Timeline(lists) /\ <<"timeline">> \in ToSet(Needs(c, id, now.today))
          BY <2>4, <2>12, <3>2
      <4>2. answer = browseTimeline(c, id, Timeline(lists), req)
          BY <2>6, <2>12, <3>2, <4>1
      <4> QED
          BY <2>1, <2>12, <3>2, <4>1, <4>2, TimelineAgrees
    <3> QED
        BY <3>1, <3>2
  <2>13. CASE extra
    <3>1. /\ media \in Seq(Assets)
          /\ path[1] # "onthisday" /\ path[1] # "favorites" =>
                 media = Timeline(lists) /\ <<"timeline">> \in ToSet(Needs(c, id, now.today))
        BY <2>4, <2>7, <2>13
    <3>2. answer = browseExtraFolder(id, media, now, req)
        BY <2>6, <2>13
    <3> QED
        BY <2>1, <2>2, <2>13, <3>1, <3>2, ExtraAgrees
  <2> HIDE DEF extra
  <2>14. CASE path[1] \in {"album", "person"}
    <3>1. media \in Seq(Assets)
        BY <2>4, <2>14
    <3>2. answer = assetItems(id.user, media, req)
        BY <2>6, <2>14
    <3> QED
        BY <2>1, <3>1, <3>2, AssetItemsAgree
  <2>15. CASE path[1] = "asset"
    <3>1. PICK a \in Assets : path = <<"asset", a>>
        BY <2>3, <2>15
    <3> DEFINE s == <<a>>
    <3>2. Tail(path) = s /\ s \in Seq(Assets)
        BY <3>1
    <3> HIDE DEF s
    <3>3. cs = Items(id.user, s)
      <4>1. answer = Listing(Items(id.user, s))
          BY <2>6, <2>15, <3>2
      <4> QED
          BY <4>1 DEF Listing
    <3> QED
        BY <2>1, <3>2, <3>3, ItemsAgree
  <2>16. CASE /\ path \notin {<<"0">>, <<"albums">>, <<"people">>} /\ ~extra
              /\ path[1] \notin {"timeline", "album", "person", "asset"}
      BY <1>1, <2>6, <2>16
  <2> QED
      BY <2>9, <2>10, <2>11, <2>12, <2>13, <2>14, <2>15, <2>16
<1> QED
    BY <1>2, <1>3, <1>4

-----------------------------------------------------------------------------
(* The tree, as a TV walks it: what it was sent, what it was told of a child of the folder it is  *)
(* in, and what it was told of that folder before it came.                                        *)

Offered(t) == UNION {ToSet(Children(t, order)) : order \in MapOrders}

Met(t) == WellNamed(tv[t].at) /\ \A i \in DOMAIN tv[t].got : WellNamed(tv[t].got[i].id)

Seen(t) == tv[t].steady /\ tv[t].got # <<>> => ToSet(tv[t].got) \subseteq Offered(t)

MetaTold(t) ==
    tv[t].steady /\ tv[t].meta # None =>
        /\ tv[t].got # <<>> /\ tv[t].meta.found
        /\ tv[t].meta.parent = tv[t].at \/ IsItem(tv[t].of)
        /\ CountsIn(cfg, tv[t].of) => \A k \in Offered(t) : k.id = tv[t].of => tv[t].meta.count = k.count

PromiseTold(t) ==
    tv[t].promised # -1 /\ CountsIn(cfg, tv[t].at) =>
        /\ tv[t].at.path[1] \notin {"random", "onthisday"} /\ tv[t].total \in {-1, tv[t].promised}
        /\ \/ tv[t].at.path = <<"0">>
           \/ ToSet(Needs(cfg, tv[t].at, Today[hour])) \subseteq DOMAIN copies
        /\ \A order \in MapOrders : Len(Children(t, order)) = tv[t].promised

Told(t) == Met(t) /\ Seen(t) /\ MetaTold(t) /\ PromiseTold(t)

\* A root has the same number of children whatever the listings are.
LEMMA RootStays ==
    ASSUME NEW c \in Configs, NEW id, id.path = <<"0">>, NEW lists, NEW other, NEW now, NEW then, NEW req
    PROVE  Len(browse(c, id, other, then, req).children) = Len(browse(c, id, lists, now, req).children)
<1>1. CASE IsTop(c, id) \/ ~parseUserObjectID(c, id)
    BY <1>1 DEF browse
<1>2. CASE InAccount(c, id)
    BY <1>2, RootCount
<1> QED
    BY <1>1, <1>2 DEF InAccount

\* A folder that stays the same offers the same.
LEMMA OfferedStays ==
    ASSUME TreeInv, NEW t \in TVs, cfg' = cfg, tv'[t].at = tv[t].at, Unmoved(t)
    PROVE  /\ ToSet(Needs(cfg', tv'[t].at, Today[hour'])) \subseteq DOMAIN copies'
           /\ \A order : Children(t, order)' = Children(t, order)
           /\ Offered(t)' = Offered(t)
<1>1. /\ ToSet(Needs(cfg', tv'[t].at, Today[hour'])) \subseteq DOMAIN copies'
      /\ \A order, req : Listed(t, order, req)' = Listed(t, order, req)
    BY FolderStays
<1>2. \A order : Children(t, order)' = Children(t, order)
  <2>1. \A order : /\ Children(t, order) = Listed(t, order, parseSortCriteria(Criteria[t]))
                   /\ Children(t, order)' = Listed(t, order, parseSortCriteria(Criteria[t]))'
      BY DEF Children, Listed
  <2> QED
      BY <1>1, <2>1
<1>3. Offered(t)' = Offered(t)
    BY <1>2 DEF Offered
<1> QED
    BY <1>1, <1>2, <1>3

\* Whatever a folder offers agrees with what it turns out to be.
LEMMA FolderAgrees ==
    ASSUME TreeInv, NEW t \in TVs, WellNamed(tv[t].at),
           ToSet(Needs(cfg, tv[t].at, Today[hour])) \subseteq DOMAIN copies
    PROVE  \A k \in Offered(t) : Agrees(cfg, tv[t].at, copies, Today[hour], k)
<1> SUFFICES ASSUME NEW order \in MapOrders, NEW k \in ToSet(Children(t, order))
             PROVE  Agrees(cfg, tv[t].at, copies, Today[hour], k)
    BY DEF Offered
<1> DEFINE req == parseSortCriteria(Criteria[t])
           now == Now(order)
           id == tv[t].at
           today == Today[hour]
<1>1. now.hour = hour /\ now.today = today /\ now.order = order
    BY DEF Now
<1>2. hour \in Int /\ today \in Nat \X Nat
    BY TodayIsADate DEF TodayIsADate, TreeInv, BrowsingInv
<1>3. cfg \in Configs /\ GoodLists(copies, FALSE)
    BY GoodListsStay DEF TreeInv, BrowsingInv, CopiesInv
<1>4. Children(t, order) = browse(cfg, id, copies, now, req).children
    BY DEF Children
<1>5. WellNamed(id) /\ ToSet(Needs(cfg, id, today)) \subseteq DOMAIN copies
    OBVIOUS
<1> HIDE DEF req, now, id, today
<1>6. /\ now.hour \in Int /\ now.today \in Nat \X Nat /\ now.order \in MapOrders
      /\ ToSet(Needs(cfg, id, now.today)) \subseteq DOMAIN copies
    BY <1>1, <1>2, <1>5
<1>7. \A x \in ToSet(browse(cfg, id, copies, now, req).children) : Agrees(cfg, id, copies, now.today, x)
    BY <1>3, <1>5, <1>6, ChildrenAgree
<1> QED
    BY <1>1, <1>4, <1>7 DEF id, today

\* The promise stands while the folder is the same; a root's stands whatever happens.
LEMMA StillPromised ==
    ASSUME TreeInv, NEW t \in TVs, PromiseTold(t), cfg' = cfg, tv'[t].at = tv[t].at, tv'[t].total = tv[t].total,
           tv'[t].promised \in {-1, tv[t].promised},
           tv'[t].promised # -1 /\ tv[t].at.path[1] \notin {"random", "onthisday"}
               /\ ToSet(Needs(cfg, tv[t].at, Today[hour])) \subseteq DOMAIN copies => Unmoved(t)
    PROVE  PromiseTold(t)'
<1> DEFINE id == tv[t].at
           v == tv[t]
           w == tv'[t]
           Here == ToSet(Needs(cfg, id, Today[hour])) \subseteq DOMAIN copies
           StillHere == ToSet(Needs(cfg', w.at, Today[hour'])) \subseteq DOMAIN copies'
<1>1. SUFFICES ASSUME w.promised # -1, CountsIn(cfg', w.at)
               PROVE  /\ w.at.path[1] \notin {"random", "onthisday"} /\ w.total \in {-1, w.promised}
                      /\ w.at.path = <<"0">> \/ StillHere
                      /\ \A order \in MapOrders : Len(Children(t, order)') = w.promised
    BY DEF PromiseTold
<1>2. v.promised # -1 /\ CountsIn(cfg, v.at) /\ w.promised = v.promised
    BY <1>1
<1>3. /\ v.at.path[1] \notin {"random", "onthisday"} /\ v.total \in {-1, v.promised}
      /\ v.at.path = <<"0">> \/ Here
      /\ \A order \in MapOrders : Len(Children(t, order)) = v.promised
    BY <1>2 DEF PromiseTold
<1>4. CASE id.path = <<"0">>
  <2>1. ASSUME NEW order \in MapOrders PROVE Len(Children(t, order)') = Len(Children(t, order))
    <3> DEFINE req == parseSortCriteria(Criteria[t])
               now == Now(order)
               then == Now(order)'
    <3>1. Children(t, order) = browse(cfg, id, copies, now, req).children
        BY DEF Children
    <3>2. Children(t, order)' = browse(cfg, id, copies', then, req).children
        BY DEF Children
    <3>3. cfg \in Configs
        BY DEF TreeInv, BrowsingInv
    <3> HIDE DEF id, now, then, req
    <3> QED
        BY <1>4, <3>1, <3>2, <3>3, RootStays
  <2> QED
      BY <1>2, <1>3, <1>4, <2>1
<1>5. CASE Here
  <2>1. Unmoved(t)
      BY <1>1, <1>3, <1>5
  <2>2. StillHere /\ \A order : Children(t, order)' = Children(t, order)
      BY <2>1, OfferedStays
  <2> QED
      BY <1>2, <1>3, <2>2
<1> QED
    BY <1>3, <1>4, <1>5

\* While the folder stays the same, so does what a TV knows of it.
LEMMA StillTold ==
    ASSUME TreeInv, NEW t \in TVs, Successive(t), Told(t), cfg' = cfg, tv'[t].at = tv[t].at, tv'[t].got = tv[t].got,
           tv'[t].total = tv[t].total, tv'[t].meta = tv[t].meta, tv'[t].of = tv[t].of \/ tv[t].meta = None,
           tv'[t].promised \in {-1, tv[t].promised}, tv'[t].steady => tv[t].steady,
           tv'[t].steady /\ tv[t].got # <<>> /\ ToSet(Needs(cfg, tv[t].at, Today[hour])) \subseteq DOMAIN copies
               => Unmoved(t),
           tv'[t].promised # -1 /\ tv[t].at.path[1] \notin {"random", "onthisday"}
               /\ ToSet(Needs(cfg, tv[t].at, Today[hour])) \subseteq DOMAIN copies => Unmoved(t)
    PROVE  Told(t)'
<1> DEFINE v == tv[t]
           w == tv'[t]
<1>1. PromiseTold(t)'
    BY StillPromised DEF Told
<1>2. Met(t)'
    BY DEF Told, Met
<1>3. ASSUME w.steady, w.got # <<>> PROVE Offered(t)' = Offered(t)
  <2>1. Unmoved(t)
      BY <1>3 DEF Successive
  <2> QED
      BY <2>1, OfferedStays
<1>4. Seen(t)'
    BY <1>3 DEF Told, Seen
<1>5. MetaTold(t)'
  <2> SUFFICES ASSUME w.steady, w.meta # None
               PROVE  /\ w.got # <<>> /\ w.meta.found
                      /\ w.meta.parent = w.at \/ IsItem(w.of)
                      /\ CountsIn(cfg', w.of) => \A k \in Offered(t)' : k.id = w.of => w.meta.count = k.count
      BY DEF MetaTold
  <2>1. v.steady /\ v.meta # None /\ w.of = v.of
      OBVIOUS
  <2>2. /\ v.got # <<>> /\ v.meta.found
        /\ v.meta.parent = v.at \/ IsItem(v.of)
        /\ CountsIn(cfg, v.of) => \A k \in Offered(t) : k.id = v.of => v.meta.count = k.count
      BY <2>1 DEF Told, MetaTold
  <2>3. Offered(t)' = Offered(t)
      BY <1>3, <2>2
  <2> QED
      BY <2>1, <2>2, <2>3
<1> QED
    BY <1>1, <1>2, <1>4, <1>5 DEF Told

\* A TV that arrives knows what it was promised.
LEMMA ArrivesTold ==
    ASSUME NEW t \in TVs, NEW folder, WellNamed(folder), NEW promised, tv'[t] = Arrived(folder, promised),
           promised # -1 /\ CountsIn(cfg', folder) =>
               /\ folder.path[1] \notin {"random", "onthisday"}
               /\ folder.path = <<"0">> \/ ToSet(Needs(cfg', folder, Today[hour'])) \subseteq DOMAIN copies'
               /\ \A order \in MapOrders : Len(Children(t, order)') = promised
    PROVE  Told(t)'
<1> DEFINE w == tv'[t]
<1>1. w.at = folder /\ w.got = <<>> /\ w.total = -1 /\ w.meta = None /\ w.promised = promised
    BY DEF Arrived
<1>2. Met(t)'
    BY <1>1 DEF Met
<1>3. Seen(t)' /\ MetaTold(t)'
    BY <1>1 DEF Seen, MetaTold
<1>4. PromiseTold(t)'
    BY <1>1 DEF PromiseTold
<1> QED
    BY <1>2, <1>3, <1>4 DEF Told

\* A TV begins at an ObjectID that the program makes.
LEMMA StartTold == ASSUME NEW c \in Configs PROVE WellNamed(c.start)
BY ConfigsAreUsable DEF ConfigsAreUsable, WellNamed, IsPath, IsList

\* A TV goes into a folder it was sent.
LEMMA DescendTold ==
    ASSUME TreeInv, NEW t \in TVs, Successive(t), Told(t), Descend(t), cfg' = cfg
    PROVE  Told(t)'
<1> DEFINE v == tv[t]
<1>1. PICK i \in DOMAIN v.got : tv' = [tv EXCEPT ![t] = Arrived(v.got[i].id, IF v.steady THEN v.got[i].count ELSE -1)]
    BY DEF Descend
<1> DEFINE k == v.got[i]
           promised == IF v.steady THEN k.count ELSE -1
<1>2. tv'[t] = Arrived(k.id, promised) /\ UNCHANGED <<hour, copies>>
    BY <1>1 DEF TreeInv, TVsInv, Descend
<1>3. WellNamed(k.id) /\ WellNamed(v.at)
    BY DEF Told, Met
<1>4. ASSUME promised # -1, CountsIn(cfg', k.id)
      PROVE  /\ k.id.path[1] \notin {"random", "onthisday"}
             /\ k.id.path = <<"0">> \/ ToSet(Needs(cfg', k.id, Today[hour'])) \subseteq DOMAIN copies'
             /\ \A order \in MapOrders : Len(Children(t, order)') = promised
  <2>1. v.steady /\ v.got # <<>> /\ promised = k.count /\ k.count # -1
    <3>1. v.steady /\ promised = k.count /\ k.count # -1
        BY <1>4
    <3>2. v.got # <<>>
        OBVIOUS
    <3> QED
        BY <3>1, <3>2
  <2>2. ToSet(Needs(cfg, v.at, Today[hour])) \subseteq DOMAIN copies
      BY <2>1 DEF Successive
  <2>3. k \in Offered(t)
    <3>1. k \in ToSet(v.got)
        BY DEF ToSet
    <3> QED
        BY <2>1, <3>1 DEF Told, Seen
  <2>4. Agrees(cfg, v.at, copies, Today[hour], k)
      BY <1>3, <2>2, <2>3, FolderAgrees
  <2>5. /\ k.id.path[1] \notin {"random", "onthisday"}
        /\ k.id.path = <<"0">> \/ ToSet(Needs(cfg, k.id, Today[hour])) \subseteq ToSet(Needs(cfg, v.at, Today[hour]))
        /\ \A now, req : now.order \in MapOrders => Len(browse(cfg, k.id, copies, now, req).children) = k.count
      BY <1>4, <2>1, <2>4 DEF Agrees, Keeps
  <2>6. ASSUME NEW order \in MapOrders PROVE Len(Children(t, order)') = k.count
    <3> DEFINE req == parseSortCriteria(Criteria[t])
               now == Now(order)
    <3>1. now.order \in MapOrders
        BY DEF Now
    <3>2. tv'[t].at = k.id
        BY <1>2 DEF Arrived
    <3>3. Children(t, order)' = browse(cfg, k.id, copies, now, req).children
        BY <1>2, <3>2 DEF Children, Now
    <3> HIDE DEF now, req
    <3> QED
        BY <2>5, <3>1, <3>3
  <2> QED
      BY <1>2, <2>1, <2>2, <2>5, <2>6
<1> HIDE DEF k, promised
<1> QED
    BY <1>2, <1>3, <1>4, ArrivesTold

\* A TV is told of a child of the folder it is in.
LEMMA AnswerMetadataTold ==
    ASSUME TreeInv, NEW t \in TVs, Successive(t), Told(t), AnswerMetadata(t), cfg' = cfg
    PROVE  Told(t)'
<1> DEFINE v == tv[t]
           w == tv'[t]
           meta == metadata(cfg, v.of, copies)
<1>0. IsTV(v) /\ v.call = "metadata" /\ UNCHANGED <<hour, copies>>
    BY DEF TreeInv, TVsInv, AnswerMetadata
<1>1. w = [v EXCEPT !.call = "none", !.meta = meta]
  <2>1. tv' = [tv EXCEPT ![t].call = "none", ![t].meta = meta]
      BY DEF AnswerMetadata
  <2> HIDE DEF meta
  <2> QED
      BY <2>1 DEF TreeInv, TVsInv
<1> HIDE DEF meta
<1>2. /\ w.at = v.at /\ w.got = v.got /\ w.total = v.total /\ w.of = v.of /\ w.meta = meta
      /\ w.promised = v.promised /\ w.steady = v.steady
    BY <1>0, <1>1 DEF IsTV
<1>4. \A order : Children(t, order)' = Children(t, order)
    BY <1>0, <1>2 DEF Children, Now
<1>5. Offered(t)' = Offered(t)
    BY <1>4 DEF Offered
<1>6. Met(t)' /\ Seen(t)'
    BY <1>2, <1>5 DEF Told, Met, Seen
<1>7. PromiseTold(t)'
    BY <1>0, <1>2, <1>4 DEF Told, PromiseTold
<1>8. MetaTold(t)'
  <2> SUFFICES ASSUME v.steady
               PROVE  /\ v.got # <<>> /\ meta.found
                      /\ meta.parent = v.at \/ IsItem(v.of)
                      /\ CountsIn(cfg, v.of) => \A k \in Offered(t) : k.id = v.of => meta.count = k.count
      BY <1>2, <1>5 DEF MetaTold
  <2>1. PICK i \in DOMAIN v.got : v.got[i].id = v.of
      BY <1>0 DEF IsTV
  <2>2. v.got # <<>>
      OBVIOUS
  <2>3. ToSet(Needs(cfg, v.at, Today[hour])) \subseteq DOMAIN copies
      BY <2>2 DEF Successive
  <2>4. \A k \in Offered(t) : Agrees(cfg, v.at, copies, Today[hour], k)
      BY <2>3, FolderAgrees DEF Told, Met
  <2>5. \A k \in Offered(t) : k.id = v.of =>
            meta.found /\ (meta.parent = v.at \/ IsItem(v.of)) /\ (CountsIn(cfg, v.of) => meta.count = k.count)
      BY <2>4 DEF Agrees, Described, meta
  <2>6. v.got[i] \in Offered(t)
    <3>1. v.got[i] \in ToSet(v.got)
        BY DEF ToSet
    <3> QED
        BY <2>2, <3>1 DEF Told, Seen
  <2> QED
      BY <2>1, <2>2, <2>5, <2>6
<1> QED
    BY <1>6, <1>7, <1>8 DEF Told

\* A page has only elements of the list.
LEMMA PageOfList ==
    ASSUME NEW s, IsList(s), NEW start \in Nat, NEW count \in Nat
    PROVE  ToSet(page(s, start, count)) \subseteq ToSet(s)
<1>1. s \in Seq(ToSet(s)) /\ Len(s) \in Nat
    BY DEF IsList
<1> DEFINE last == IF count > 0 /\ start + count < Len(s) THEN start + count ELSE Len(s)
<1>2. CASE start >= Len(s)
  <2>1. page(s, start, count) = <<>>
      BY <1>1, <1>2 DEF page
  <2> QED
      BY <2>1 DEF ToSet
<1>3. CASE start < Len(s)
  <2>1. page(s, start, count) = SubSeq(s, start + 1, last)
      BY <1>1, <1>3 DEF page
  <2>2. last \in Nat /\ start + 1 \in 1..Len(s) /\ last \in 1..Len(s)
      BY <1>1, <1>3
  <2>3. SubSeq(s, start + 1, last) \in Seq(ToSet(s))
      BY <1>1, <2>2
  <2> QED
      BY <2>1, <2>3, ListsAre
<1> QED
    BY <1>1, <1>2, <1>3

\* Two lists joined have the elements of both.
LEMMA JoinElements ==
    ASSUME NEW s, NEW r, IsList(s), IsList(r)
    PROVE  ToSet(s \o r) \subseteq ToSet(s) \cup ToSet(r)
<1> DEFINE T == ToSet(s) \cup ToSet(r)
<1>1. s \in Seq(T) /\ r \in Seq(T)
  <2>1. s \in Seq(ToSet(s)) /\ r \in Seq(ToSet(r))
      BY DEF IsList
  <2> HIDE DEF T
  <2>2. ToSet(s) \subseteq T /\ ToSet(r) \subseteq T
      BY DEF T
  <2> QED
      BY <2>1, <2>2
<1> HIDE DEF T
<1>2. s \o r \in Seq(T)
    BY <1>1
<1> QED
    BY <1>2, ListsAre DEF T

\* A TV is sent a page of the folder it is in.
LEMMA AnswerTold ==
    ASSUME TreeInv, NEW t \in TVs, Successive(t), Told(t), Answer(t), cfg' = cfg
    PROVE  Told(t)'
<1>0. tv[t].call = "children" /\ Missing(t) = <<>> /\ IsTV(tv[t]) /\ BrowsingInv /\ UNCHANGED <<hour, copies>>
    BY DEF Answer, TVsInv, TreeInv
<1>1. PICK order \in MapOrders :
        LET req    == parseSortCriteria(Criteria[t])
            answer == browse(cfg, tv[t].at, copies, Now(order), req)
            sent   == page(answer.children, Len(tv[t].got), Count[t])
        IN  tv' = [tv EXCEPT ![t] = IF answer.found
                     THEN [tv[t] EXCEPT !.call = "none", !.got = @ \o sent,
                                        !.total = Len(answer.children)]
                     ELSE Arrived(cfg.start, -1)]
    BY DEF Answer
<1> DEFINE cs == Children(t, order)
           sent == page(cs, Len(tv[t].got), Count[t])
           found == browse(cfg, tv[t].at, copies, Now(order), parseSortCriteria(Criteria[t])).found
           v == tv[t]
           total == Len(cs)
           got == v.got \o sent
<1>2. tv' = [tv EXCEPT ![t] = IF found
               THEN [v EXCEPT !.call = "none", !.got = @ \o sent, !.total = total]
               ELSE Arrived(cfg.start, -1)]
    BY <1>1 DEF Children
<1>3. ToSet(Needs(cfg, v.at, Today[hour])) \subseteq DOMAIN copies
    BY <1>0, CallHasItsListings
<1>4. IsNodes(cs)
    BY <1>0, <1>3, ChildrenInSort DEF IsTV, TreeInv
<1>5. total \in Nat /\ Count[t] \in Nat /\ IsNodes(v.got) /\ Len(v.got) \in Nat
    BY <1>0, <1>4, RequestsAreUsable DEF IsTV, IsNodes, IsList, RequestsAreUsable
<1>6. ToSet(cs) \subseteq Offered(t)
    BY DEF Offered
<1>7. \A k \in Offered(t) : WellNamed(k.id)
    BY <1>3, FolderAgrees DEF Told, Met, Agrees
<1> HIDE DEF cs, found
<1>8. IsNodes(sent) /\ ToSet(sent) \subseteq Offered(t)
    BY <1>4, <1>5, <1>6, NodesPage, PageOfList DEF IsNodes
<1>9. CASE ~found
  <2>1. tv'[t] = Arrived(cfg.start, -1)
      BY <1>2, <1>9 DEF TreeInv, TVsInv
  <2>2. WellNamed(cfg.start)
      BY <1>0, StartTold DEF BrowsingInv
  <2> QED
      BY <2>1, <2>2, ArrivesTold
<1>10. CASE found
  <2> HIDE DEF v, sent, total, got
  <2>1. PICK w : w = [v EXCEPT !.call = "none", !.got = @ \o sent, !.total = total]
      OBVIOUS
  <2>2. /\ w.at = v.at /\ w.got = got /\ w.total = total /\ w.steady = v.steady /\ w.of = v.of
        /\ w.meta = v.meta /\ w.promised = v.promised
    <3>1. v = [at |-> v.at, got |-> v.got, total |-> v.total, call |-> v.call, of |-> v.of,
               meta |-> v.meta, promised |-> v.promised, steady |-> v.steady]
        BY <1>0 DEF IsTV, v
    <3> QED
        BY ONLY <2>1, <3>1 DEF got
  <2>3. tv'[t] = w
      BY <1>2, <1>10, <2>1 DEF TreeInv, TVsInv
  <2>4. \A o : Children(t, o)' = Children(t, o)
      BY <1>0, <2>2, <2>3 DEF Children, Now, v
  <2>5. Offered(t)' = Offered(t)
      BY <2>4 DEF Offered
  <2>6. ToSet(got) \subseteq ToSet(v.got) \cup ToSet(sent) /\ IsList(got)
    <3>1. IsList(v.got) /\ IsList(sent) /\ IsNodes(got)
        BY <1>5, <1>8, NodesJoin DEF IsNodes, v, got
    <3> QED
        BY <3>1, JoinElements DEF IsNodes, got
  <2>7. Met(t)'
    <3>1. \A k \in ToSet(v.got) : WellNamed(k.id)
        BY DEF Told, Met, ToSet, v
    <3>2. \A k \in ToSet(got) : WellNamed(k.id)
        BY <1>7, <1>8, <2>6, <3>1
    <3>3. \A i \in DOMAIN got : WellNamed(got[i].id)
        BY <3>2 DEF ToSet
    <3> QED
        BY <2>2, <2>3, <3>3 DEF Told, Met, v
  <2>8. Seen(t)'
    <3> SUFFICES ASSUME v.steady PROVE ToSet(got) \subseteq Offered(t)
        BY <2>2, <2>3, <2>5 DEF Seen
    <3>1. ToSet(v.got) \subseteq Offered(t)
      <4>1. CASE v.got = <<>>
          BY <4>1 DEF ToSet
      <4>2. CASE v.got # <<>>
          BY <4>2 DEF Told, Seen, v
      <4> QED
          BY <4>1, <4>2
    <3> QED
        BY <1>8, <2>6, <3>1
  <2>9. MetaTold(t)'
    <3> SUFFICES ASSUME v.steady, v.meta # None
                 PROVE  /\ got # <<>> /\ v.meta.found
                        /\ v.meta.parent = v.at \/ IsItem(v.of)
                        /\ CountsIn(cfg, v.of) => \A k \in Offered(t) : k.id = v.of => v.meta.count = k.count
        BY <2>2, <2>3, <2>5 DEF MetaTold
    <3>1. /\ v.got # <<>> /\ v.meta.found
          /\ v.meta.parent = v.at \/ IsItem(v.of)
          /\ CountsIn(cfg, v.of) => \A k \in Offered(t) : k.id = v.of => v.meta.count = k.count
        BY DEF Told, MetaTold, v
    <3>2. got # <<>>
      <4>1. v.got \in Seq(ToSet(v.got)) /\ sent \in Seq(ToSet(sent))
          BY <1>5, <1>8 DEF IsNodes, IsList, v
      <4>2. Len(got) = Len(v.got) + Len(sent) /\ Len(sent) \in Nat /\ Len(v.got) \in Nat /\ Len(v.got) # 0
          BY <3>1, <4>1 DEF got
      <4>3. Len(got) # 0
          BY <4>2
      <4> QED
          BY <4>3
    <3> QED
        BY <3>1, <3>2
  <2>10. PromiseTold(t)'
    <3> SUFFICES ASSUME v.promised # -1, CountsIn(cfg, v.at)
                 PROVE  /\ v.at.path[1] \notin {"random", "onthisday"} /\ total \in {-1, v.promised}
                        /\ \/ v.at.path = <<"0">>
                           \/ ToSet(Needs(cfg, v.at, Today[hour])) \subseteq DOMAIN copies
                        /\ \A o \in MapOrders : Len(Children(t, o)) = v.promised
        BY <1>0, <2>2, <2>3, <2>4 DEF PromiseTold
    <3> QED
        BY DEF Told, PromiseTold, v, total, cs
  <2> QED
      BY <2>7, <2>8, <2>9, <2>10 DEF Told
<1> QED
    BY <1>9, <1>10

ToldInv == \A t \in TVs : Told(t)

\* Initially no TV has been told anything.
LEMMA ToldInvInit == Init => ToldInv
<1> SUFFICES ASSUME Init, NEW t \in TVs PROVE Told(t)
    BY DEF ToldInv
<1>1. tv[t] = Arrived(cfg.start, -1) /\ cfg \in Configs
    BY DEF Init
<1>2. WellNamed(cfg.start)
    BY <1>1, StartTold
<1> DEFINE w == tv[t]
<1>3. w.at = cfg.start /\ w.got = <<>> /\ w.total = -1 /\ w.meta = None /\ w.promised = -1
    BY <1>1 DEF Arrived
<1> QED
    BY <1>2, <1>3 DEF Told, Met, Seen, MetaTold, PromiseTold

\* Every step keeps what the TVs were told true.
LEMMA ToldInvNext == TreeInv /\ SuccInv /\ ToldInv /\ [Next]_vars => ToldInv'
<1> SUFFICES ASSUME TreeInv, SuccInv, ToldInv, [Next]_vars, NEW t \in TVs PROVE Told(t)'
    BY DEF ToldInv
<1>0. /\ Successive(t) /\ Told(t) /\ cfg' = cfg /\ t \in DOMAIN tv /\ tv = [u \in TVs |-> tv[u]] /\ IsTV(tv[t])
    BY ConfigStays DEF SuccInv, ToldInv, TreeInv, TVsInv
<1> DEFINE needs == ToSet(Needs(cfg, tv[t].at, Today[hour]))
           Still == /\ tv'[t].at = tv[t].at /\ tv'[t].got = tv[t].got /\ tv'[t].total = tv[t].total
                    /\ tv'[t].meta = tv[t].meta /\ (tv'[t].of = tv[t].of \/ tv[t].meta = None)
                    /\ tv'[t].promised \in {-1, tv[t].promised} /\ (tv'[t].steady => tv[t].steady)
<1>1. ASSUME Still,
             tv'[t].steady /\ tv[t].got # <<>> /\ needs \subseteq DOMAIN copies => Unmoved(t),
             tv'[t].promised # -1 /\ tv[t].at.path[1] \notin {"random", "onthisday"} /\ needs \subseteq DOMAIN copies
                 => Unmoved(t)
      PROVE  Told(t)'
    BY <1>0, <1>1, StillTold
<1>2. ASSUME UNCHANGED <<hour, copies>>, Still PROVE Told(t)'
  <2>1. needs \subseteq DOMAIN copies => Unmoved(t)
      BY <1>2 DEF Unmoved
  <2> QED
      BY <1>1, <1>2, <2>1
<1> HIDE DEF Still, needs
<1>4. CASE UNCHANGED vars \/ LoadStep \/ ChangeLibrary \/ \E u \in TVs : Load(u) \/ Open(u)
  <2>1. UNCHANGED <<hour, copies, tv>>
      BY <1>4 DEF vars, LoadStep, ChangeLibrary, Load, Open
  <2> QED
      BY <1>2, <2>1 DEF Still
<1>5. ASSUME NEW u \in TVs, Ask(u) \/ AskMetadata(u) \/ GiveUp(u) PROVE Told(t)'
  <2>1. UNCHANGED <<hour, copies>>
      BY <1>5 DEF Ask, AskMetadata, GiveUp
  <2>2. Still
    <3>1. CASE Ask(u)
        BY <1>0, <3>1 DEF Ask, IsTV, Still
    <3>2. CASE AskMetadata(u)
        BY <1>0, <3>2 DEF AskMetadata, IsTV, Still
    <3>3. CASE GiveUp(u)
        BY <1>0, <3>3 DEF GiveUp, IsTV, Still
    <3> QED
        BY <1>5, <3>1, <3>2, <3>3
  <2> QED
      BY <1>2, <2>1, <2>2
<1>6. ASSUME NEW u \in TVs, u # t, Answer(u) \/ Descend(u) \/ AnswerMetadata(u) PROVE Told(t)'
  <2>1. UNCHANGED <<hour, copies>>
      BY <1>6 DEF Answer, Descend, AnswerMetadata
  <2>2. tv'[t] = tv[t]
    <3>1. CASE Answer(u) \/ Descend(u)
      <4>1. \E w : tv' = [tv EXCEPT ![u] = w]
          BY <3>1 DEF Answer, Descend
      <4> QED
          BY <1>0, <1>6, <4>1
    <3>2. CASE AnswerMetadata(u)
        BY <1>0, <1>6, <3>2 DEF AnswerMetadata
    <3> QED
        BY <1>6, <3>1, <3>2
  <2> QED
      BY <1>2, <2>1, <2>2 DEF Still
<1>7. CASE Answer(t)
    BY <1>0, <1>7, AnswerTold
<1>8. CASE Descend(t)
    BY <1>0, <1>8, DescendTold
<1>9. CASE AnswerMetadata(t)
    BY <1>0, <1>9, AnswerMetadataTold
<1>10. CASE LoadEnds
  <2>1. hour' = hour /\ Still
    <3>1. hour' = hour
        BY <1>10 DEF LoadEnds
    <3>2. tv'[t] = tv[t] \/ tv'[t] = [tv[t] EXCEPT !.call = "none"]
        BY <1>10 DEF LoadEnds
    <3> QED
        BY <1>0, <3>1, <3>2 DEF IsTV, Still
  <2>2. needs \subseteq DOMAIN copies => Unmoved(t)
    <3>1. CASE LoadFails
        BY <1>10, <2>1, <3>1 DEF LoadEnds, Unmoved, needs
    <3>2. CASE ~LoadFails
      <4>1. job.key \notin DOMAIN copies
        <5>1. job # Idle
            BY <1>10 DEF LoadEnds, EndLoad, Settled, Idle
        <5> QED
            BY <5>1 DEF TreeInv, CopiesInv
      <4> QED
          BY <1>10, <2>1, <3>2, <4>1, CopiesAfterLoad DEF Unmoved, needs
    <3> QED
        BY <3>1, <3>2
  <2> QED
      BY <1>1, <2>1, <2>2
<1>11. ASSUME NEW key \in DOMAIN copies, Expire(key) PROVE Told(t)'
  <2>1. /\ copies' = [k \in DOMAIN copies \ {key} |-> copies[k]] /\ hour' = hour
        /\ tv'[t] = IF key \in needs THEN [tv[t] EXCEPT !.steady = @ /\ tv[t].got = <<>>, !.promised = -1]
                    ELSE tv[t]
      BY <1>11 DEF Expire, needs
  <2>2. CASE key \notin needs
    <3>1. tv'[t] = tv[t]
        BY <2>1, <2>2
    <3>2. needs \subseteq DOMAIN copies => Unmoved(t)
        BY <2>1, <2>2 DEF Unmoved, needs
    <3> QED
        BY <1>1, <3>1, <3>2 DEF Still
  <2>3. CASE key \in needs
    <3>1. PICK w : w = [tv[t] EXCEPT !.steady = @ /\ tv[t].got = <<>>, !.promised = -1]
        OBVIOUS
    <3>2. tv'[t] = w
        BY <2>1, <2>3, <3>1
    <3>3. /\ w.at = tv[t].at /\ w.got = tv[t].got /\ w.total = tv[t].total /\ w.meta = tv[t].meta
          /\ w.of = tv[t].of /\ w.promised = -1 /\ w.steady = (tv[t].steady /\ tv[t].got = <<>>)
        BY <1>0, <3>1 DEF IsTV
    <3> QED
        BY <1>1, <3>2, <3>3 DEF Still
  <2> QED
      BY <2>2, <2>3
<1>12. CASE Tick
  <2> DEFINE turns == tv[t].got # <<>> /\ tv[t].at.path[1] \in {"random", "onthisday"}
  <2>1. copies' = copies /\ tv'[t] = [tv[t] EXCEPT !.steady = @ /\ ~turns]
      BY <1>12 DEF Tick
  <2>2. /\ tv'[t].at = tv[t].at /\ tv'[t].got = tv[t].got /\ tv'[t].total = tv[t].total
        /\ tv'[t].meta = tv[t].meta /\ tv'[t].of = tv[t].of /\ tv'[t].promised = tv[t].promised
        /\ tv'[t].steady = (tv[t].steady /\ ~turns)
      BY <1>0, <2>1 DEF IsTV
  <2>3. ~(tv[t].at.path[1] \in {"random", "onthisday"}) => Unmoved(t) \/ ~(needs \subseteq DOMAIN copies)
      BY <2>1 DEF Unmoved, needs
  <2> QED
      BY <1>1, <2>2, <2>3 DEF Still
<1> QED
  <2>1. \/ UNCHANGED vars \/ LoadStep \/ ChangeLibrary \/ (\E u \in TVs : Load(u) \/ Open(u))
        \/ (\E u \in TVs : Ask(u) \/ AskMetadata(u) \/ GiveUp(u))
        \/ (\E u \in TVs : Answer(u) \/ Descend(u) \/ AnswerMetadata(u)) \/ LoadEnds
        \/ (\E key \in DOMAIN copies : Expire(key)) \/ Tick
      BY DEF Next
  <2> QED
      BY <1>4, <1>5, <1>6, <1>7, <1>8, <1>9, <1>10, <1>11, <1>12, <2>1

\* What the TVs were told is what the tree promises.
LEMMA ToldTree == TreeInv /\ ToldInv => TreeIsConsistent
<1> SUFFICES ASSUME TreeInv, ToldInv, NEW t \in TVs
             PROVE  /\ tv[t].steady /\ tv[t].meta # None =>
                         /\ tv[t].meta.found
                         /\ tv[t].meta.parent = tv[t].at \/ IsItem(tv[t].of)
                         /\ \A i \in DOMAIN tv[t].got :
                              tv[t].got[i].id = tv[t].of /\ CountsChildren(tv[t].of) =>
                                  tv[t].meta.count = tv[t].got[i].count
                    /\ tv[t].promised # -1 /\ tv[t].total # -1 /\ CountsChildren(tv[t].at) =>
                         tv[t].total = tv[t].promised
    BY DEF TreeIsConsistent
<1> DEFINE v == tv[t]
<1>1. Seen(t) /\ MetaTold(t) /\ PromiseTold(t)
    BY DEF ToldInv, Told
<1>2. \A id : CountsChildren(id) <=> CountsIn(cfg, id)
    BY DEF CountsChildren, CountsIn
<1>3. ASSUME v.steady, v.meta # None
      PROVE  /\ v.meta.found
             /\ v.meta.parent = v.at \/ IsItem(v.of)
             /\ \A i \in DOMAIN v.got :
                  v.got[i].id = v.of /\ CountsChildren(v.of) => v.meta.count = v.got[i].count
  <2>1. /\ v.got # <<>> /\ v.meta.found
        /\ v.meta.parent = v.at \/ IsItem(v.of)
        /\ CountsIn(cfg, v.of) => \A k \in Offered(t) : k.id = v.of => v.meta.count = k.count
      BY <1>1, <1>3 DEF MetaTold
  <2>2. \A i \in DOMAIN v.got : v.got[i] \in Offered(t)
      BY <1>1, <1>3, <2>1 DEF Seen, ToSet
  <2> QED
      BY <1>2, <2>1, <2>2
<1>4. v.promised # -1 /\ v.total # -1 /\ CountsChildren(v.at) => v.total = v.promised
    BY <1>1, <1>2 DEF PromiseTold
<1> QED
    BY <1>3, <1>4

\* Whatever the library, the configuration, the listings and the order a map yields its keys in, a
\* folder that a TV is sent is there when it asks for it: its metadata names the folder it was found
\* in, and the childCount it was listed with is the number of children that a Browse of it counts.
\* (The ObjectIDs of browseUserScope, browseTimeline and browsePlaces, and their BrowseMetadata.)
THEOREM TreeAgrees == Spec => []TreeIsConsistent
<1>1. Init => TreeInv /\ SuccInv /\ ToldInv
    BY TreeInvInit, ToldInvInit DEF Init, SuccInv, Successive, Arrived
<1>2. TreeInv /\ SuccInv /\ ToldInv /\ [Next]_vars => (TreeInv /\ SuccInv /\ ToldInv)'
    BY TreeInvNext, SuccInvNext, ToldInvNext
<1> QED
    BY <1>1, <1>2, ToldTree, PTL DEF Spec
=============================================================================
