--------------------------- MODULE BrowsingProofs ---------------------------
(***************************************************************************)
(* Proofs about Browsing.                                                  *)
(***************************************************************************)
EXTENDS Browsing, AlgorithmProofs, FunctionTheorems

-----------------------------------------------------------------------------
(* Opened items. *)

LEMMA ConfigStays == ASSUME [Next]_vars PROVE cfg' = cfg
BY DEF Next, vars, Ask, AskMetadata, Load, Answer, AnswerMetadata, Descend, GiveUp, Open, LoadStep,
       LoadEnds, Expire, Tick, ChangeLibrary

\* Only Open opens an item.
LEMMA OpenedStays ==
    ASSUME [Next]_vars
    PROVE  opened' = opened \/ \E t \in TVs : Open(t)
BY DEF Next, vars, Ask, AskMetadata, Load, Answer, AnswerMetadata, Descend, GiveUp, LoadStep,
       LoadEnds, Expire, Tick, ChangeLibrary

\* What the next television that opens the item is sent, from the cache or fetched anew, rests on
\* how the file was listed and on what the cache was filled with, so that comes with the promises.
OpenedInv ==
    /\ cfg \in Configs
    /\ opened # None =>
         /\ opened.file \in Files
         /\ opened.item = buildAssetItem(cfg, opened.file)
         /\ \E lookup \in {"ok", "failed"} : opened.cached = cacheFill(cfg, opened.file, lookup)
         /\ ShownAsPromised(cfg, opened.file, opened.sent)
         /\ SentAsListed(cfg, opened.file, opened.item, opened.sent)

\* RenditionAsPromised, for a file and a configuration of this specification.
LEMMA SentIsAsPromised ==
    ASSUME NEW c \in Configs, NEW file \in Files, NEW lookup \in {"ok", "failed"}, NEW sent,
           \/ sent \in {cacheFill(c, file, lookup), handleMedia(c, file, lookup)}
           \/ isVideoMimeType(cacheFill(c, file, lookup).mime) /\ sent = proxied(c, file)
    PROVE  ShownAsPromised(c, file, sent) /\ SentAsListed(c, file, buildAssetItem(c, file), sent)
<1>1. c.maxW \in Nat /\ c.maxH \in Nat /\ IsFile(file)
    BY ConfigsAreUsable, FilesAreFiles DEF ConfigsAreUsable, FilesAreFiles
<1>2. \A s \in {cacheFill(c, file, lookup), handleMedia(c, file, lookup)}
              \cup {p \in {proxied(c, file)} : isVideoMimeType(cacheFill(c, file, lookup).mime)} :
          ShownAsPromised(c, file, s) /\ SentAsListed(c, file, buildAssetItem(c, file), s)
    BY <1>1, RenditionAsPromised
<1> QED
    BY <1>2

LEMMA OpenedInvHolds == Spec => []OpenedInv
<1>1. Init => OpenedInv
    BY DEF Init, OpenedInv
<1>2. OpenedInv /\ [Next]_vars => OpenedInv'
  <2> SUFFICES ASSUME OpenedInv, [Next]_vars PROVE OpenedInv'
      OBVIOUS
  <2>1. cfg' = cfg /\ cfg \in Configs
      BY ConfigStays DEF OpenedInv
  <2>2. CASE opened' = opened
      BY <2>1, <2>2 DEF OpenedInv
  <2>3. ASSUME NEW t \in TVs, Open(t) PROVE OpenedInv'
    \* After a miss.
    <3>1. ASSUME NEW file \in Files, NEW lookup \in {"ok", "failed"},
                 opened' = [file |-> file, item |-> buildAssetItem(cfg, file),
                            cached |-> cacheFill(cfg, file, lookup),
                            sent |-> handleMedia(cfg, file, lookup)]
          PROVE  OpenedInv'
      <4>1. /\ opened'.file = file /\ opened'.item = buildAssetItem(cfg, file)
            /\ opened'.cached = cacheFill(cfg, file, lookup)
            /\ opened'.sent = handleMedia(cfg, file, lookup)
          BY <3>1
      <4>2. /\ ShownAsPromised(cfg, file, handleMedia(cfg, file, lookup))
            /\ SentAsListed(cfg, file, buildAssetItem(cfg, file), handleMedia(cfg, file, lookup))
          BY <2>1, SentIsAsPromised
      <4> QED
          BY <2>1, <4>1, <4>2 DEF OpenedInv
    \* From the cache, or from Immich while the cache is being filled with a video.
    <3>2. ASSUME opened # None, NEW sent, opened' = [opened EXCEPT !.sent = sent],
                 \/ sent = opened.cached
                 \/ isVideoMimeType(opened.cached.mime) /\ sent = proxied(cfg, opened.file)
          PROVE  OpenedInv'
      <4>1. PICK lookup \in {"ok", "failed"} : opened.cached = cacheFill(cfg, opened.file, lookup)
          BY <3>2 DEF OpenedInv
      <4>2. opened.file \in Files /\ opened.item = buildAssetItem(cfg, opened.file)
          BY <3>2 DEF OpenedInv
      <4>3. ShownAsPromised(cfg, opened.file, sent) /\ SentAsListed(cfg, opened.file, opened.item, sent)
          BY <2>1, <3>2, <4>1, <4>2, SentIsAsPromised
      <4>4. /\ opened'.file = opened.file /\ opened'.item = opened.item
            /\ opened'.cached = opened.cached /\ opened'.sent = sent
          BY <3>2
      <4> QED
          BY <2>1, <4>1, <4>2, <4>3, <4>4 DEF OpenedInv
    <3> QED
        BY <2>3, <3>1, <3>2 DEF Open, OpenedInv
  <2> QED
      BY <2>2, <2>3, OpenedStays
<1> QED
    BY <1>1, <1>2, PTL DEF Spec

\* Whatever is opened, in whatever order things happen, fetched or found in the cache, a picture is
\* sent upright, whole and within MAX_RESOLUTION, and anything else as Immich sent it: for files and
\* pictures of every size.  (handleMedia's transform, server.go:252-255; imageproc/.)
THEOREM OpenedPictureIsAsPromised == Spec => []PictureAsPromised
<1>1. OpenedInv => PictureAsPromised
    BY DEF OpenedInv, PictureAsPromised
<1> QED
    BY <1>1, OpenedInvHolds, PTL

\* Whatever is opened, the rendition and the type that were listed are sent, unless it was fetched
\* when the lookup of the asset failed; and what was listed with a size is the original's bytes, with
\* the exceptions of SentAsListed.  (buildAssetItem, mediaVariantFor and openRange.)
THEOREM OpenedItemIsSentAsListed == Spec => []ItemsAreSentAsListed
<1>1. OpenedInv => ItemsAreSentAsListed
    BY DEF OpenedInv, ItemsAreSentAsListed
<1> QED
    BY <1>1, OpenedInvHolds, PTL

-----------------------------------------------------------------------------
(* Loads. *)

\* What is asked for on this day is asked for by a date.
IsKey(key) == IsOnThisDay(key) => \E y, d \in Nat : key = <<"onthisday", y, d>>

IsSearch(s) ==
    /\ s = [year |-> s.year, want |-> s.want, pc |-> s.pc, page |-> s.page, items |-> s.items]
    /\ s.year \in Nat /\ s.page \in Nat \ {0}
    /\ s.pc \in {"queued", "asking", "ended", "failed"}

Searching(S) == \E n \in Nat : S = [i \in 1..n |-> S[i]] /\ \A i \in 1..n : IsSearch(S[i])

\* The most recently captured of a set.
IsFirstOf(items, set) == \E k \in 0..Cardinality(set) : items = SubSeq(NewestFirst(set), 1, k)

LEMMA NoneIsFirst == ASSUME NEW set \in SUBSET Assets PROVE IsFirstOf(<<>>, set)
<1>1. 0 \in 0..Cardinality(set)
    BY SubsetsAreFinite
<1>2. SubSeq(NewestFirst(set), 1, 0) = <<>>
    BY SubSeqEmpty
<1> QED
    BY <1>1, <1>2 DEF IsFirstOf

\* How far a search of a library that does not change has come.
Progress(s, lib, cut) ==
    LET found == s.want \cap lib
    IN  /\ IsFirstOf(s.items, found)
        /\ s.pc \in {"queued", "asking"} =>
             /\ (s.page - 1) * PageSize <= Cardinality(found)
             /\ s.items = SubSeq(NewestFirst(found), 1, (s.page - 1) * PageSize)
        /\ s.pc = "ended" /\ ~cut => s.items = NewestFirst(found)

\* No year is searched twice, and none is missing in which an asset was captured on the day.
Covers(S, key, lib) ==
    \A a \in lib, y \in MinYear..key[2] - 1 :
        LocalCaptureDate(a) = <<y, key[3]>> => \E i \in DOMAIN S : S[i].year = y
AskingOf(S) == {i \in DOMAIN S : S[i].pc = "asking"}
SearchesOfDay(S, key) ==
    /\ \A i \in DOMAIN S : S[i].year \in MinYear..key[2] - 1 /\ S[i].want = Window(S[i].year, key[3])
    /\ \A i, j \in DOMAIN S : i < j => S[i].year > S[j].year
    /\ Cardinality(AskingOf(S)) <= Concurrency

\* One search; what was got is one that has ended.
SearchAlone(S, key) ==
    /\ DOMAIN S = {1} /\ S[1].year = 0
    /\ IF IsGet(key) THEN S[1].pc = "ended" /\ S[1].items = Get(key) ELSE S[1].want = Filter(key)

SearchesInv(S, key, lib, steady, cut) ==
    /\ Searching(S)
    /\ IF IsOnThisDay(key) THEN SearchesOfDay(S, key) ELSE SearchAlone(S, key)
    /\ ~IsGet(key) => \A i \in DOMAIN S : S[i].items \in Seq(Assets)
    /\ steady /\ ~IsGet(key) => \A i \in DOMAIN S : Progress(S[i], lib, cut)
    /\ steady /\ IsOnThisDay(key) /\ (\A a \in lib : CapturedAt(a) # Zero) => Covers(S, key, lib)

JobInv ==
    /\ job = [key |-> job.key, phase |-> job.phase, searches |-> job.searches,
              steady |-> job.steady, cut |-> job.cut]
    /\ job.phase \in {"idle", "get", "oldest", "search", "failed"}
    /\ job.steady \in BOOLEAN /\ job.cut \in BOOLEAN
    /\ job.phase = "idle" => job = Idle
    /\ job.phase # "idle" => IsKey(job.key)
    /\ job.phase = "get" => IsGet(job.key)
    /\ job.phase = "oldest" => IsOnThisDay(job.key)
    /\ job.phase # "search" => job.searches = <<>>
    /\ job.phase = "search" => SearchesInv(job.searches, job.key, library, job.steady, job.cut)

LoadInv == library \subseteq Assets /\ changes \in 0..MaxChanges /\ JobInv

LEMMA NotBoth == \A key : ~(IsOnThisDay(key) /\ IsGet(key))
BY DEF IsOnThisDay, IsGet

\* One step of search i, from s to z.
LEMMA SearchStep ==
    ASSUME NEW S, NEW key, NEW lib, NEW steady \in BOOLEAN, NEW cut \in BOOLEAN, NEW more \in BOOLEAN,
           SearchesInv(S, key, lib, steady, cut), ~IsGet(key),
           NEW i \in DOMAIN S, NEW z, IsSearch(z), z.year = S[i].year, z.want = S[i].want,
           z.items \in Seq(Assets), steady => Progress(z, lib, cut \/ more),
           z.pc = "asking" => \/ S[i].pc = "asking"
                              \/ ~IsOnThisDay(key) \/ Cardinality(AskingOf(S)) < Concurrency
    PROVE  SearchesInv([S EXCEPT ![i] = z], key, lib, steady, cut \/ more)
<1> DEFINE R == [S EXCEPT ![i] = z]
<1>1. PICK n \in Nat : S = [j \in 1..n |-> S[j]] /\ \A j \in 1..n : IsSearch(S[j])
    BY DEF SearchesInv, Searching
<1>2. DOMAIN S = 1..n /\ DOMAIN R = 1..n /\ R = [j \in 1..n |-> R[j]]
    BY <1>1
<1>3. R[i] = z /\ \A j \in DOMAIN S : j # i => R[j] = S[j]
    BY <1>2
<1> HIDE DEF R
<1>4. Searching(R)
    BY <1>1, <1>2, <1>3 DEF Searching
<1>5. \A j \in DOMAIN S : R[j].year = S[j].year /\ R[j].want = S[j].want
    BY <1>3
<1>6. ASSUME IsOnThisDay(key) PROVE SearchesOfDay(R, key)
  <2>1. SearchesOfDay(S, key)
      BY <1>6 DEF SearchesInv
  <2>2. IsFiniteSet(AskingOf(S)) /\ Cardinality(AskingOf(S)) \in Nat
    <3>1. IsFiniteSet(1..n)
        BY FS_Interval
    <3> QED
        BY <1>2, <3>1, FS_Subset, FS_CardinalityType DEF AskingOf
  <2>3. Cardinality(AskingOf(R)) <= Concurrency
    <3>1. CASE z.pc = "asking" /\ S[i].pc # "asking"
      <4>1. AskingOf(R) = AskingOf(S) \cup {i} /\ i \notin AskingOf(S)
          BY <1>2, <1>3, <3>1 DEF AskingOf
      <4>2. Cardinality(AskingOf(R)) = Cardinality(AskingOf(S)) + 1
          BY <2>2, <4>1, FS_AddElement
      <4> QED
          BY <1>6, <2>2, <3>1, <4>2, SearchBounds DEF SearchBounds
    <3>2. CASE ~(z.pc = "asking" /\ S[i].pc # "asking")
      <4>1. AskingOf(R) \subseteq AskingOf(S)
          BY <1>2, <1>3, <3>2 DEF AskingOf
      <4>2. Cardinality(AskingOf(R)) <= Cardinality(AskingOf(S)) /\ Cardinality(AskingOf(R)) \in Nat
          BY <2>2, <4>1, FS_Subset, FS_CardinalityType
      <4> QED
          BY <2>1, <2>2, <4>2, SearchBounds DEF SearchesOfDay, SearchBounds
    <3> QED
        BY <3>1, <3>2
  <2> QED
      BY <1>2, <1>5, <2>1, <2>3 DEF SearchesOfDay
<1>7. ~IsOnThisDay(key) => SearchAlone(R, key)
    BY <1>2, <1>5 DEF SearchesInv, SearchAlone
<1>8. \A j \in DOMAIN R : R[j].items \in Seq(Assets)
    BY <1>2, <1>3 DEF SearchesInv
<1>9. ASSUME steady, NEW j \in DOMAIN R PROVE Progress(R[j], lib, cut \/ more)
    BY <1>2, <1>3, <1>9 DEF SearchesInv, Progress
<1>10. Covers(S, key, lib) => Covers(R, key, lib)
    BY <1>2, <1>5, SMTT(20) DEF Covers
<1> QED
    BY <1>4, <1>6, <1>7, <1>8, <1>9, <1>10 DEF SearchesInv, R

LEMMA IdleInv == job = Idle => JobInv
BY DEF JobInv, Idle

LEMMA StartLoadInv ==
    ASSUME LoadInv, NEW key, IsKey(key), StartLoad(key)
    PROVE  LoadInv'
<1>1. job.phase = "idle"
    BY DEF StartLoad, Idle
<1> DEFINE S == IF IsOnThisDay(key) \/ IsGet(key) THEN <<>> ELSE <<Search(0, Filter(key), "asking")>>
           phase == IF IsOnThisDay(key) THEN "oldest" ELSE IF IsGet(key) THEN "get" ELSE "search"
<1>2. job' = [key |-> key, phase |-> phase, searches |-> S, steady |-> TRUE, cut |-> FALSE]
    BY DEF StartLoad, Idle
<1>3. library' = library /\ changes' = changes
    BY DEF StartLoad
<1>4. CASE phase # "search"
    BY <1>2, <1>3, <1>4, NotBoth DEF LoadInv, JobInv
<1>5. CASE phase = "search"
  <2>1. ~IsOnThisDay(key) /\ ~IsGet(key) /\ S = <<Search(0, Filter(key), "asking")>>
      BY <1>5
  <2> DEFINE z == Search(0, Filter(key), "asking")
  <2>2. IsSearch(z) /\ z.year = 0 /\ z.want = Filter(key) /\ z.pc = "asking" /\ z.page = 1 /\ z.items = <<>>
      BY DEF IsSearch, Search
  <2>3. Progress(z, library, FALSE)
    <3> DEFINE found == z.want \cap library
    <3>1. Cardinality(found) \in Nat
        BY SubsetsAreFinite DEF LoadInv
    <3>2. (1 - 1) * PageSize = 0
        BY SizesArePositive DEF SizesArePositive
    <3>3. SubSeq(NewestFirst(found), 1, 0) = <<>>
        BY SubSeqEmpty
    <3>4. IsFirstOf(<<>>, found)
        BY NoneIsFirst DEF LoadInv
    <3> HIDE DEF z, found
    <3> QED
        BY <2>2, <3>1, <3>2, <3>3, <3>4 DEF Progress, found
  <2> HIDE DEF z
  <2>4. S = <<z>>
      BY <2>1 DEF z
  <2>5. S = [i \in 1..1 |-> S[i]] /\ DOMAIN S = {1} /\ S[1] = z
      BY <2>4
  <2> HIDE DEF S
  <2>6. SearchesInv(S, key, library, TRUE, FALSE)
    <3>1. Searching(S)
      <4>1. \A i \in 1..1 : IsSearch(S[i])
          BY <2>2, <2>5
      <4> QED
          BY <2>5, <4>1 DEF Searching
    <3>2. SearchAlone(S, key)
        BY <2>1, <2>2, <2>5 DEF SearchAlone
    <3>3. \A i \in DOMAIN S : S[i].items \in Seq(Assets) /\ Progress(S[i], library, FALSE)
      <4>1. <<>> \in Seq(Assets)
          OBVIOUS
      <4>2. z.items \in Seq(Assets)
          BY <2>2, <4>1
      <4> QED
          BY <2>3, <2>5, <4>2
    <3> QED
        BY <2>1, <3>1, <3>2, <3>3 DEF SearchesInv
  <2> QED
      BY <1>2, <1>3, <1>5, <2>6 DEF LoadInv, JobInv
<1> QED
    BY <1>4, <1>5

LEMMA GetAnswersInv == LoadInv /\ GetAnswers => LoadInv'
<1> SUFFICES ASSUME LoadInv, GetAnswers PROVE LoadInv'
    OBVIOUS
<1> DEFINE z == [Search(0, {}, "ended") EXCEPT !.items = Get(job.key)]
           S == <<z>>
<1>1. job' = [job EXCEPT !.phase = "search", !.searches = S] /\ IsGet(job.key) /\ job.phase = "get"
    BY DEF GetAnswers, LoadInv, JobInv
<1>2. library' = library /\ changes' = changes
    BY DEF GetAnswers
<1>3. ~IsOnThisDay(job.key)
    BY <1>1, NotBoth
<1>4. IsSearch(z) /\ z.year = 0 /\ z.pc = "ended" /\ z.items = Get(job.key)
  <2> DEFINE s == Search(0, {}, "ended")
  <2>0. s = [year |-> 0, want |-> {}, pc |-> "ended", page |-> 1, items |-> <<>>]
      BY DEF Search
  <2>2. z = [s EXCEPT !.items = Get(job.key)]
      OBVIOUS
  <2> DEFINE all == Get(job.key)
             e == <<>>
             w == {}
  <2> HIDE DEF s, z, all, e, w
  <2>3. [s EXCEPT !.items = all] = [year |-> 0, want |-> w, pc |-> "ended", page |-> 1, items |-> all]
    <3>1. s = [year |-> 0, want |-> w, pc |-> "ended", page |-> 1, items |-> e]
        BY <2>0 DEF e, w
    <3> QED
        BY <3>1
  <2>1. z = [year |-> 0, want |-> {}, pc |-> "ended", page |-> 1, items |-> Get(job.key)]
      BY <2>2, <2>3 DEF all, w
  <2> HIDE DEF z
  <2> QED
      BY <2>1 DEF IsSearch
<1> HIDE DEF z
<1>5. S = [i \in 1..1 |-> S[i]] /\ DOMAIN S = {1} /\ S[1] = z
    OBVIOUS
<1> HIDE DEF S
<1>6. SearchesInv(S, job.key, library, job.steady, job.cut)
  <2>1. Searching(S)
    <3>1. \A i \in 1..1 : IsSearch(S[i])
        BY <1>4, <1>5
    <3> QED
        BY <1>5, <3>1 DEF Searching
  <2>2. SearchAlone(S, job.key)
      BY <1>1, <1>4, <1>5 DEF SearchAlone
  <2> QED
      BY <1>1, <1>3, <2>1, <2>2 DEF SearchesInv
<1>7. job' = [key |-> job.key, phase |-> "search", searches |-> S, steady |-> job.steady, cut |-> job.cut]
    BY <1>1 DEF LoadInv, JobInv
<1> QED
    BY <1>1, <1>2, <1>3, <1>6, <1>7 DEF LoadInv, JobInv

LEMMA FirstFailsInv == LoadInv /\ FirstFails => LoadInv'
<1> SUFFICES ASSUME LoadInv, FirstFails PROVE LoadInv'
    OBVIOUS
<1>1. job' = [key |-> job.key, phase |-> "failed", searches |-> job.searches, steady |-> job.steady,
              cut |-> job.cut]
    BY DEF FirstFails, LoadInv, JobInv
<1> QED
    BY <1>1 DEF FirstFails, LoadInv, JobInv

\* A step of one of the searches.
LEMMA OneSearchInv ==
    ASSUME LoadInv, job.phase = "search", NEW i \in DOMAIN job.searches, NEW z, NEW more \in BOOLEAN,
           job.searches[i].pc \in {"queued", "asking"},
           job' = [job EXCEPT !.searches = [@ EXCEPT ![i] = z], !.cut = @ \/ more],
           library' = library, changes' = changes,
           IsSearch(z), z.year = job.searches[i].year, z.want = job.searches[i].want,
           z.items \in Seq(Assets), job.steady => Progress(z, library, job.cut \/ more),
           z.pc = "asking" => \/ job.searches[i].pc = "asking"
                              \/ Cardinality(AskingOf(job.searches)) < Concurrency
    PROVE  LoadInv'
<1> DEFINE S == job.searches
           R == [S EXCEPT ![i] = z]
<1>1. SearchesInv(S, job.key, library, job.steady, job.cut)
    BY DEF LoadInv, JobInv
<1>2. ~IsGet(job.key)
  <2>1. CASE IsGet(job.key)
    <3>1. S[1].pc = "ended" /\ i = 1
        BY <1>1, <2>1, NotBoth DEF SearchesInv, SearchAlone
    <3> QED
        BY <3>1
  <2> QED
      BY <2>1
<1>3. job.steady \in BOOLEAN /\ job.cut \in BOOLEAN
    BY DEF LoadInv, JobInv
<1>4. SearchesInv(R, job.key, library, job.steady, job.cut \/ more)
    BY <1>1, <1>2, <1>3, SearchStep
<1> DEFINE c == job.cut \/ more
<1>5. job' = [key |-> job.key, phase |-> "search", searches |-> R, steady |-> job.steady, cut |-> c]
    BY DEF LoadInv, JobInv
<1> HIDE DEF R, S
<1>6. c \in BOOLEAN
    OBVIOUS
<1> HIDE DEF c
<1>7. /\ job'.key = job.key /\ job'.phase = "search" /\ job'.searches = R /\ job'.steady = job.steady
      /\ job'.cut = c
  <2> HIDE DEF LoadInv
  <2> QED
      BY ONLY <1>5
<1>8. JobInv'
  <2>1. SearchesInv(job'.searches, job'.key, library', job'.steady, job'.cut)
      BY <1>4, <1>7 DEF c
  <2>2. job' = [key |-> job'.key, phase |-> job'.phase, searches |-> job'.searches,
                steady |-> job'.steady, cut |-> job'.cut]
      BY <1>5, <1>7
  <2>3. IsKey(job.key)
      BY DEF LoadInv, JobInv
  <2> QED
      BY <1>3, <1>6, <1>7, <2>1, <2>2, <2>3 DEF JobInv
<1> QED
    BY <1>8 DEF LoadInv

LEMMA AcquireInv ==
    ASSUME LoadInv, NEW i \in DOMAIN job.searches, Acquire(i)
    PROVE  LoadInv'
<1> DEFINE s == job.searches[i]
           z == [s EXCEPT !.pc = "asking"]
<1>1. job.phase = "search" /\ s.pc = "queued" /\ Cardinality(AskingOf(job.searches)) < Concurrency
    BY DEF Acquire, At, Running, AskingOf
<1>2. SearchesInv(job.searches, job.key, library, job.steady, job.cut)
    BY <1>1 DEF LoadInv, JobInv
<1>3. IsSearch(s)
    BY <1>2 DEF SearchesInv, Searching
<1>4. z = [year |-> s.year, want |-> s.want, pc |-> "asking", page |-> s.page, items |-> s.items]
    BY <1>3 DEF IsSearch
<1>5. job' = [job EXCEPT !.searches = [@ EXCEPT ![i] = z], !.cut = @ \/ FALSE]
    BY DEF Acquire, LoadInv, JobInv
<1>6. ~IsGet(job.key)
    BY <1>1, <1>2, NotBoth DEF SearchesInv, SearchAlone
<1> HIDE DEF z
<1>7. IsSearch(z) /\ z.year = s.year /\ z.want = s.want /\ z.items = s.items /\ z.pc = "asking"
      /\ z.page = s.page
    BY <1>3, <1>4 DEF IsSearch
<1>8. s.items \in Seq(Assets) /\ (job.steady => Progress(z, library, job.cut \/ FALSE))
  <2>1. s.items \in Seq(Assets) /\ (job.steady => Progress(s, library, job.cut))
      BY <1>2, <1>6 DEF SearchesInv
  <2>2. Progress(s, library, job.cut) => Progress(z, library, job.cut \/ FALSE)
      BY <1>1, <1>7 DEF Progress
  <2> QED
      BY <2>1, <2>2
<1>9. library' = library /\ changes' = changes
    BY DEF Acquire
<1> HIDE DEF s
<1> QED
    BY <1>1, <1>5, <1>7, <1>8, <1>9, OneSearchInv DEF s

LEMMA AskFailsInv ==
    ASSUME LoadInv, NEW i \in DOMAIN job.searches, AskFails(i)
    PROVE  LoadInv'
<1> DEFINE s == job.searches[i]
           z == [s EXCEPT !.pc = "failed", !.items = <<>>]
<1>1. job.phase = "search" /\ s.pc = "asking"
    BY DEF AskFails, At
<1>2. IsSearch(s)
    BY <1>1 DEF LoadInv, JobInv, SearchesInv, Searching
<1>3. z = [year |-> s.year, want |-> s.want, pc |-> "failed", page |-> s.page, items |-> <<>>]
  <2>1. s = [year |-> s.year, want |-> s.want, pc |-> s.pc, page |-> s.page, items |-> s.items]
      BY <1>2 DEF IsSearch
  <2> DEFINE u == [s EXCEPT !.pc = "failed"]
             e == <<>>
  <2>2. u = [year |-> s.year, want |-> s.want, pc |-> "failed", page |-> s.page, items |-> s.items]
    <3> HIDE DEF s
    <3> QED
        BY <2>1
  <2>3. z = [u EXCEPT !.items = e]
    <3> HIDE DEF s, e
    <3> QED
        BY DEF e
  <2> HIDE DEF u, z, e
  <2>4. [u EXCEPT !.items = e] =
            [year |-> s.year, want |-> s.want, pc |-> "failed", page |-> s.page, items |-> e]
      BY <2>2
  <2> QED
      BY <2>3, <2>4 DEF e
<1>4. job' = [job EXCEPT !.searches = [@ EXCEPT ![i] = z], !.cut = @ \/ FALSE]
    BY DEF AskFails, LoadInv, JobInv
<1> HIDE DEF z
<1>5. /\ IsSearch(z) /\ z.year = s.year /\ z.want = s.want /\ z.items = <<>> /\ z.pc = "failed"
      /\ Progress(z, library, job.cut \/ FALSE)
  <2>1. IsFirstOf(<<>>, s.want \cap library)
      BY NoneIsFirst DEF LoadInv
  <2> QED
      BY <1>2, <1>3, <2>1 DEF IsSearch, Progress
<1>6. <<>> \in Seq(Assets) /\ library' = library /\ changes' = changes
    BY DEF AskFails
<1> HIDE DEF s
<1> QED
    BY <1>1, <1>4, <1>5, <1>6, OneSearchInv DEF s

LEMMA AskPageInv ==
    ASSUME LoadInv, NEW i \in DOMAIN job.searches, AskPage(i)
    PROVE  LoadInv'
<1> DEFINE s == job.searches[i]
           found == s.want \cap library
           p == PageOf(found, s.page)
           z(pc, n) == [s EXCEPT !.items = @ \o p.items, !.pc = pc, !.page = n]
<1>1. job.phase = "search" /\ s.pc = "asking" /\ library' = library /\ changes' = changes
    BY DEF AskPage, At
<1>2. SearchesInv(job.searches, job.key, library, job.steady, job.cut)
    BY <1>1 DEF LoadInv, JobInv
<1>3. ~IsGet(job.key)
    BY <1>1, <1>2, NotBoth DEF SearchesInv, SearchAlone
<1>4. IsSearch(s) /\ s.items \in Seq(Assets) /\ (job.steady => Progress(s, library, job.cut))
    BY <1>2, <1>3 DEF SearchesInv, Searching
<1>5. PICK pc \in {"asking", "ended"}, n \in {s.page, s.page + 1}, more \in BOOLEAN :
         /\ job' = [job EXCEPT !.searches = [@ EXCEPT ![i] = z(pc, n)], !.cut = @ \/ more]
         /\ \/ p.more /\ pc = "asking" /\ n = s.page + 1 /\ more = FALSE
            \/ p.more /\ pc = "ended" /\ more = TRUE
            \/ ~p.more /\ pc = "ended" /\ more = FALSE
  <2> DEFINE next(pc, n, more) == job' = [job EXCEPT !.searches = [@ EXCEPT ![i] = z(pc, n)], !.cut = @ \/ more]
  <2>1. \/ p.more /\ next("asking", s.page + 1, FALSE)
        \/ p.more /\ next("ended", s.page, TRUE)
        \/ ~p.more /\ next("ended", s.page, FALSE)
    <3> DEFINE ask(pc, n, more) == job' = [job EXCEPT !.searches[i] = z(pc, n), !.cut = @ \/ more]
    <3>1. \/ p.more /\ ask("asking", s.page + 1, FALSE)
          \/ p.more /\ ask("ended", s.page, TRUE)
          \/ ~p.more /\ ask("ended", s.page, FALSE)
        BY DEF AskPage
    <3>2. ASSUME NEW pc, NEW n, NEW more, ask(pc, n, more) PROVE next(pc, n, more)
      <4> HIDE DEF z
      <4> QED
          BY <3>2
    <3> HIDE DEF ask, next, p, s
    <3> QED
        BY <3>1, <3>2
  <2> HIDE DEF next, s, p
  <2>2. CASE p.more /\ next("asking", s.page + 1, FALSE)
      BY <2>2 DEF next
  <2>3. CASE p.more /\ next("ended", s.page, TRUE)
      BY <2>3 DEF next
  <2>4. CASE ~p.more /\ next("ended", s.page, FALSE)
      BY <2>4 DEF next
  <2> QED
      BY <2>1, <2>2, <2>3, <2>4
<1> DEFINE c == job.cut \/ more
<1>6. z(pc, n) = [year |-> s.year, want |-> s.want, pc |-> pc, page |-> n, items |-> s.items \o p.items]
  <2>1. s = [year |-> s.year, want |-> s.want, pc |-> s.pc, page |-> s.page, items |-> s.items]
      BY <1>4 DEF IsSearch
  <2> DEFINE items == s.items \o p.items
             u == [s EXCEPT !.items = items]
             v == [u EXCEPT !.pc = pc]
  <2>2. z(pc, n) = [v EXCEPT !.page = n]
    <3> HIDE DEF s, p
    <3> QED
        OBVIOUS
  <2> HIDE DEF s, p, items
  <2>3. u = [year |-> s.year, want |-> s.want, pc |-> s.pc, page |-> s.page, items |-> items]
      BY <2>1
  <2> HIDE DEF u
  <2>4. v = [year |-> s.year, want |-> s.want, pc |-> pc, page |-> s.page, items |-> items]
      BY <2>3
  <2> HIDE DEF v, z
  <2>5. [v EXCEPT !.page = n] = [year |-> s.year, want |-> s.want, pc |-> pc, page |-> n, items |-> items]
      BY <2>4
  <2> QED
      BY <2>2, <2>5 DEF items
<1> DEFINE y == z(pc, n)
<1> HIDE DEF z
<1>7. s.page \in Nat \ {0} /\ n \in Nat \ {0}
    BY <1>4 DEF IsSearch
<1> HIDE DEF p
<1>8. /\ IsSearch(y) /\ y.year = s.year /\ y.want = s.want /\ y.pc = pc /\ y.page = n
      /\ y.items = s.items \o p.items
  <2> HIDE DEF y
  <2>1. s.year \in Nat
      BY <1>4 DEF IsSearch
  <2>2. /\ y = [year |-> s.year, want |-> s.want, pc |-> pc, page |-> n, items |-> s.items \o p.items]
        /\ pc \in {"queued", "asking", "ended", "failed"}
      BY <1>6 DEF y
  <2> DEFINE items == s.items \o p.items
  <2> HIDE DEF s, items
  <2>3. y.year = s.year /\ y.want = s.want /\ y.pc = pc /\ y.page = n /\ y.items = items
      BY <2>2 DEF items
  <2> QED
      BY <1>7, <2>1, <2>2, <2>3 DEF IsSearch, items
<1> HIDE DEF y
<1>9. p.items \in Seq(Assets) /\ y.items \in Seq(Assets)
    <2>1. found \in SUBSET Assets
        BY DEF LoadInv
    <2>2. p.items \in Seq(Assets)
        BY <1>7, <2>1, PageIsSeq DEF p
    <2> HIDE DEF s
    <2> QED
        BY <1>4, <1>8, <2>2, ConcatProperties
<1>10. ASSUME job.steady PROVE Progress(y, library, c)
  <2>1. Progress(s, library, job.cut)
      BY <1>4, <1>10
  <2>2. found \in SUBSET Assets /\ (s.page - 1) * PageSize <= Cardinality(found)
        /\ s.items = SubSeq(NewestFirst(found), 1, (s.page - 1) * PageSize)
      BY <1>1, <2>1 DEF Progress, LoadInv
  <2> DEFINE all == NewestFirst(found)
             k == s.page
  <2>3. /\ p.more => k * PageSize <= Cardinality(found) /\ s.items \o p.items = SubSeq(all, 1, k * PageSize)
        /\ ~p.more => s.items \o p.items = all
    <3> HIDE DEF found
    <3> QED
        BY <1>7, <2>2, PageProperties DEF p
  <2>4. y.want \cap library = found
      BY <1>8
  <2>5. (s.page + 1) - 1 = k
      BY <1>7
  <2>9. IsFirstOf(y.items, found)
    <3>1. /\ k * PageSize \in Nat /\ Cardinality(found) \in Nat
          /\ SubSeq(all, 1, Cardinality(found)) = all
      <4>1. Lists(all, found)
          BY <2>2, NewestFirstProperties
      <4>2. all \in Seq(found) /\ Len(all) = Cardinality(found)
        <5> HIDE DEF all
        <5> QED
            BY <4>1 DEF Lists
      <4>3. Cardinality(found) \in Nat /\ k * PageSize \in Nat
          BY <1>7, <2>2, SubsetsAreFinite, SizesArePositive DEF SizesArePositive
      <4> QED
          BY <4>2, <4>3, SubSeqFull
    <3>2. (y.items = SubSeq(all, 1, k * PageSize) /\ k * PageSize <= Cardinality(found)) \/ y.items = all
        BY <1>8, <2>3
    <3> HIDE DEF found, all, s, k
    <3> QED
        BY <3>1, <3>2 DEF IsFirstOf, all
  <2> HIDE DEF found, all, s
  <2>6. CASE p.more /\ pc = "asking" /\ n = s.page + 1 /\ more = FALSE
    <3>1. (n - 1) * PageSize = k * PageSize
        BY <2>5, <2>6
    <3> QED
        BY <1>8, <2>3, <2>4, <2>6, <2>9, <3>1 DEF Progress, all
  <2>7. CASE p.more /\ pc = "ended" /\ more = TRUE
      BY <1>8, <2>4, <2>7, <2>9 DEF Progress
  <2>8. CASE ~p.more /\ pc = "ended" /\ more = FALSE
      BY <1>8, <2>3, <2>4, <2>8, <2>9 DEF Progress, all
  <2> QED
      BY <1>5, <2>6, <2>7, <2>8
<1> HIDE DEF s
<1>11. job' = [job EXCEPT !.searches = [@ EXCEPT ![i] = y], !.cut = @ \/ more]
    BY <1>5 DEF y
<1> QED
    BY <1>1, <1>8, <1>9, <1>10, <1>11, OneSearchInv DEF s

LEMMA EndLoadInv == LoadInv /\ EndLoad => LoadInv'
<1> SUFFICES ASSUME LoadInv, EndLoad PROVE LoadInv'
    OBVIOUS
<1>1. job' = Idle /\ library' = library /\ changes' = changes
    BY DEF EndLoad
<1> QED
    BY <1>1 DEF LoadInv, JobInv, Idle

LEMMA ChangeInv == LoadInv /\ Change => LoadInv'
<1> SUFFICES ASSUME LoadInv, Change PROVE LoadInv'
    OBVIOUS
<1>1. library' \subseteq Assets /\ changes' \in 0..MaxChanges
    BY ComersAreAssets, SearchBounds DEF Change, LoadInv, ComersAreAssets, SearchBounds
<1>2. CASE job = Idle
  <2>1. job' = Idle
      BY <1>2 DEF Change
  <2> QED
      BY <1>1, <2>1 DEF LoadInv, JobInv, Idle
<1>3. CASE job # Idle
  <2>1. job' = [key |-> job.key, phase |-> job.phase, searches |-> job.searches, steady |-> FALSE,
                cut |-> job.cut]
      BY <1>3 DEF Change, LoadInv, JobInv
  <2>2. job.phase # "idle"
      BY <1>3 DEF LoadInv, JobInv
  <2>3. job.phase = "search" => SearchesInv(job.searches, job.key, library', FALSE, job.cut)
      BY DEF LoadInv, JobInv, SearchesInv
  <2> QED
      BY <1>1, <2>1, <2>2, <2>3 DEF LoadInv, JobInv
<1> QED
    BY <1>2, <1>3

LEMMA OldestProperties ==
    ASSUME library \subseteq Assets, library # {}
    PROVE  /\ Oldest \in Nat \/ Oldest = Zero
           /\ \E a \in library : Captured[a] = Oldest
           /\ \A a \in library : Oldest <= Captured[a]
<1> DEFINE S == {Captured[x] + 1 : x \in library}
           Least(x) == \A z \in library : Captured[x] <= Captured[z]
<1>1. \A x \in library : Captured[x] \in Nat \/ Captured[x] = -1
    BY AssetsAreDescribed DEF AssetsAreDescribed, Zero
<1>2. S \in SUBSET Nat /\ S # {}
    BY <1>1
<1>3. PICK n \in S : \A y \in S : n <= y
    BY <1>2, LeastNat
<1>4. PICK x \in library : n = Captured[x] + 1
    BY <1>3
<1>5. Least(x)
  <2>1. ASSUME NEW z \in library PROVE Captured[x] <= Captured[z]
    <3>1. n <= Captured[z] + 1
        BY <1>3
    <3> QED
        BY <1>1, <1>4, <3>1
  <2> QED
      BY <2>1
<1> DEFINE a == CHOOSE w \in library : Least(w)
<1>6. a \in library /\ Least(a)
  <2> HIDE DEF Least
  <2> QED
      BY <1>4, <1>5
<1>7. Oldest = Captured[a]
    BY DEF Oldest, CapturedAt
<1> HIDE DEF a
<1> QED
    BY <1>1, <1>6, <1>7 DEF Zero

LEMMA CountingDown ==
    ASSUME NEW Y \in Nat, NEW last \in Nat
    PROVE  LET years == [i \in 1..Y - last |-> Y - i]
           IN  /\ years \in Seq(Int) /\ ToSet(years) = last..Y - 1
               /\ \A i, j \in DOMAIN years : i < j => years[i] > years[j]
<1> DEFINE years == [i \in 1..Y - last |-> Y - i]
<1>1. years \in Seq(Int)
  <2>1. CASE Y - last \in Nat
      BY <2>1
  <2>2. CASE Y - last \notin Nat
    <3>1. 1..Y - last = 1..0
        BY <2>2
    <3>2. years \in [1..0 -> Int]
        BY <3>1
    <3> HIDE DEF years
    <3> QED
        BY <3>2
  <2> QED
      BY <2>1, <2>2
<1>2. ToSet(years) = last..Y - 1
  <2>1. ASSUME NEW y \in last..Y - 1 PROVE y \in ToSet(years)
    <3>1. Y - y \in 1..Y - last /\ Y - (Y - y) = y
        OBVIOUS
    <3>2. Y - y \in DOMAIN years /\ years[Y - y] = y
        BY <3>1
    <3> HIDE DEF years
    <3> QED
        BY <3>2 DEF ToSet
  <2>2. \A i \in DOMAIN years : years[i] \in last..Y - 1
      OBVIOUS
  <2> HIDE DEF years
  <2> QED
      BY <2>1, <2>2 DEF ToSet
<1> QED
    BY <1>1, <1>2

\* The years searched: each once, all of them earlier, and from the year before the oldest asset's
\* on none is missing that has the day.
GoodYears(ys, Y, d) ==
    /\ ys \in Seq(Int) /\ \A i \in DOMAIN ys : ys[i] \in MinYear..Y - 1
    /\ \A i, j \in DOMAIN ys : i < j => ys[i] > ys[j]
YearsFrom(ys, Y, d, first) ==
    \A y \in MinYear..Y - 1 : first <= y /\ d <= DaysIn(y) => \E i \in DOMAIN ys : ys[i] = y

LEMMA SearchYearsProperties ==
    ASSUME NEW Y \in Nat, NEW d \in Nat, Oldest \in Nat
    PROVE  LET ys == SearchYears(<<"onthisday", Y, d>>)
           IN  GoodYears(ys, Y, d) /\ YearsFrom(ys, Y, d, YearOf(Oldest) - 1)
<1> DEFINE key == <<"onthisday", Y, d>>
           first == YearOf(Oldest) - 1
           last == IF first > MinYear THEN first ELSE MinYear
           years == [i \in 1..Y - last |-> Y - i]
           has == {y \in ToSet(years) : d <= DaysIn(y)}
           ys == Where(years, has)
<1>1. SearchYears(key) = ys
    BY DEF SearchYears
<1>2. last \in Nat /\ last >= MinYear /\ last >= first /\ MinYear \in Nat /\ first \in Int
      /\ (last = MinYear \/ last = first)
    BY YearProperties, SearchBounds DEF SearchBounds
<1> HIDE DEF first, last, key
<1>3. /\ years \in Seq(Int) /\ ToSet(years) = last..Y - 1
      /\ \A i, j \in DOMAIN years : i < j => years[i] > years[j]
    BY <1>2, CountingDown
<1> HIDE DEF years
<1>4. has = {y \in last..Y - 1 : d <= DaysIn(y)}
    BY <1>3
<1>5. ys \in Seq(Int) /\ ToSet(ys) = ToSet(years) \cap has /\ \E h : Within(ys, years, h)
    BY <1>3, WhereProperties
<1> HIDE DEF ys
<1>6. ToSet(ys) = {y \in last..Y - 1 : d <= DaysIn(y)}
    BY <1>3, <1>4, <1>5
<1>7. \A i \in DOMAIN ys : ys[i] \in MinYear..Y - 1
  <2>1. \A i \in DOMAIN ys : ys[i] \in last..Y - 1
      BY <1>6 DEF ToSet
  <2> QED
      BY <1>2, <2>1
<1>8. ASSUME NEW i \in DOMAIN ys, NEW j \in DOMAIN ys, i < j PROVE ys[i] > ys[j]
  <2>1. PICK h : Within(ys, years, h)
      BY <1>5
  <2>2. h[i] \in DOMAIN years /\ h[j] \in DOMAIN years /\ ys[i] = years[h[i]] /\ ys[j] = years[h[j]]
      BY <2>1 DEF Within
  <2>3. i \in Int /\ j \in Int /\ h[i] \in Int /\ h[j] \in Int
      BY <1>3, <1>5, <2>2, SMTT(20)
  <2>4. h[i] < h[j]
      BY <1>8, <2>1, <2>3 DEF Within
  <2> QED
      BY <1>3, <2>2, <2>4
<1>9. ASSUME NEW y \in MinYear..Y - 1, first <= y, d <= DaysIn(y) PROVE \E i \in DOMAIN ys : ys[i] = y
  <2>1. y \in last..Y - 1
      BY <1>2, <1>9
  <2> QED
      BY <1>6, <1>9, <2>1 DEF ToSet
<1> QED
    BY <1>1, <1>5, <1>7, <1>8, <1>9 DEF GoodYears, YearsFrom, first, key

LEMMA LocalIsNat ==
    ASSUME NEW a \in Assets, Captured[a] # Zero
    PROVE  /\ Captured[a] \in Nat /\ Captured[a] >= 12
           /\ Zone[a] \in -12..14 /\ Captured[a] + Zone[a] \in Nat
<1>1. /\ Captured[a] \in Nat \cup {Zero} /\ (Captured[a] >= 12 \/ Captured[a] = Zero)
      /\ Zone[a] \in -12..14
    BY AssetsAreDescribed DEF AssetsAreDescribed
<1> QED
    BY <1>1 DEF Zero

\* An asset of the day is in the window of its year, and that year is at most one before the
\* year, by UTC, of an asset that is older.
LEMMA DayProperties ==
    ASSUME NEW a \in Assets, Captured[a] # Zero, NEW y, NEW d, LocalCaptureDate(a) = <<y, d>>
    PROVE  /\ y \in Nat /\ d \in Int /\ d <= DaysIn(y) /\ a \in Window(y, d)
           /\ \A t \in Nat : t <= Captured[a] => YearOf(t) - 1 <= y
<1> DEFINE t == Captured[a] + Zone[a]
<1>1. Captured[a] \in Nat /\ Zone[a] \in -12..14 /\ t \in Nat
    BY LocalIsNat
<1>2. DateOf(t) = <<y, d>>
    BY DEF LocalCaptureDate
<1> HIDE DEF t
<1>3. /\ y \in Nat /\ t < Midnight(y + 1, 1) /\ d \in 1..DaysIn(y)
      /\ Midnight(y, d) <= t /\ t < Midnight(y, d) + 24
    BY <1>1, <1>2, DateProperties
<1>4. Midnight(y, d) \in Int /\ DaysIn(y) \in Nat /\ d \in Int /\ d <= DaysIn(y)
    BY <1>3, DaysOfYear, MidnightIsInt
<1>5. a \in Window(y, d)
    BY <1>1, <1>3, <1>4 DEF Window, t
<1>6. ASSUME NEW o \in Nat, o <= Captured[a] PROVE YearOf(o) - 1 <= y
  <2> DEFINE z == YearOf(o)
  <2>1. z \in Nat /\ Midnight(z, 1) <= o
      BY YearProperties
  <2> HIDE DEF z
  <2>2. CASE z - 1 <= y
      BY <2>2 DEF z
  <2>3. CASE ~(z - 1 <= y)
    <3>1. y + 2 <= z /\ y + 1 \in Nat /\ y + 2 \in Nat /\ (y + 1) + 1 = y + 2
        BY <1>3, <2>1, <2>3
    <3>2. Midnight(y + 2, 1) + 24 * (Days * (z - (y + 2))) <= Midnight(z, 1)
        BY <2>1, <3>1, LaterYears
    <3>3. Days * (z - (y + 2)) \in Nat
        BY <2>1, <3>1, AtLeastAsMany
    <3>4. Midnight(y + 2, 1) = Midnight(y + 1, 1) + 24 * DaysIn(y + 1) /\ DaysIn(y + 1) >= 1
          /\ DaysIn(y + 1) \in Nat
      <4>1. Midnight((y + 1) + 1, 1) = Midnight(y + 1, 1) + 24 * DaysIn(y + 1) /\ DaysIn(y + 1) \in Nat
            /\ DaysIn(y + 1) >= Days
          BY <3>1, DaysOfYear
      <4> QED
          BY <3>1, <4>1, YearsHaveDays DEF YearsHaveDays
    <3>5. Midnight(y + 1, 1) \in Int /\ Midnight(y + 2, 1) \in Int /\ Midnight(z, 1) \in Int
        BY <2>1, <3>1, MidnightIsInt
    <3>6. Captured[a] < Midnight(y + 1, 1) + 12
        BY <1>1, <1>3, <3>5 DEF t
    <3> QED
        BY <1>1, <1>6, <2>1, <3>2, <3>3, <3>4, <3>5, <3>6
  <2> QED
      BY <2>2, <2>3
<1> QED
    BY <1>3, <1>4, <1>5, <1>6

LEMMA SpawnSearchesInv == LoadInv /\ SpawnSearches => LoadInv'
<1> SUFFICES ASSUME LoadInv, SpawnSearches PROVE LoadInv'
    OBVIOUS
<1> DEFINE key == job.key
           ys == IF library = {} \/ Oldest = Zero THEN <<>> ELSE SearchYears(key)
           z(y) == Search(y, Window(y, key[3]), "queued")
           S == [i \in DOMAIN ys |-> z(ys[i])]
<1>1. job.phase = "oldest" /\ IsOnThisDay(key) /\ ~IsGet(key)
    BY NotBoth DEF SpawnSearches, LoadInv, JobInv
<1>2. PICK Y \in Nat, d \in Nat : key = <<"onthisday", Y, d>>
    BY <1>1 DEF LoadInv, JobInv, IsKey
<1>3. key[2] = Y /\ key[3] = d
    BY <1>2
<1>4. job' = [key |-> key, phase |-> "search", searches |-> S, steady |-> job.steady, cut |-> job.cut]
    BY DEF SpawnSearches, LoadInv, JobInv
<1>5. library' = library /\ changes' = changes /\ library \subseteq Assets
    BY DEF SpawnSearches, LoadInv
<1>6. library # {} => /\ Oldest \in Nat \/ Oldest = Zero
                      /\ \A a \in library : Oldest <= Captured[a]
    BY <1>5, OldestProperties
<1>7. GoodYears(ys, Y, d)
  <2>1. CASE library = {} \/ Oldest = Zero
    <3>1. ys = <<>>
        BY <2>1
    <3>2. <<>> \in Seq(Int) /\ DOMAIN <<>> = {}
        OBVIOUS
    <3> HIDE DEF ys
    <3> QED
        BY <3>1, <3>2 DEF GoodYears
  <2>2. CASE ~(library = {} \/ Oldest = Zero)
      BY <1>2, <1>6, <2>2, SearchYearsProperties
  <2> QED
      BY <2>1, <2>2
<1>8. ASSUME \A a \in library : CapturedAt(a) # Zero, NEW a \in library, NEW y \in MinYear..Y - 1,
             LocalCaptureDate(a) = <<y, d>>
      PROVE  \E i \in DOMAIN ys : ys[i] = y
  <2>1. Captured[a] # Zero /\ a \in Assets
      BY <1>5, <1>8 DEF CapturedAt
  <2>2. Captured[a] \in Nat /\ Oldest \in Int /\ Oldest <= Captured[a]
      BY <1>6, <2>1, LocalIsNat DEF Zero
  <2>3. Oldest \in Nat
    <3>1. PICK b \in library : Captured[b] = Oldest
        BY <1>5, <1>8, OldestProperties
    <3> QED
        BY <1>5, <1>8, <3>1, LocalIsNat DEF CapturedAt
  <2>4. ys = SearchYears(key)
      BY <1>8, <2>3 DEF Zero
  <2>5. YearsFrom(ys, Y, d, YearOf(Oldest) - 1)
      BY <1>2, <2>3, <2>4, SearchYearsProperties
  <2>6. d <= DaysIn(y) /\ YearOf(Oldest) - 1 <= y
      BY <1>8, <2>1, <2>2, <2>3, DayProperties
  <2> HIDE DEF ys
  <2> QED
      BY <2>5, <2>6 DEF YearsFrom
<1> HIDE DEF ys
<1>9. PICK n \in Nat : DOMAIN ys = 1..n
    BY <1>7 DEF GoodYears
<1>10. DOMAIN S = 1..n /\ S = [i \in 1..n |-> S[i]] /\ \A i \in 1..n : S[i] = z(ys[i])
    BY <1>9
<1>11. \A i \in 1..n : /\ S[i].year = ys[i] /\ S[i].want = Window(ys[i], d) /\ S[i].pc = "queued"
                       /\ S[i].page = 1 /\ S[i].items = <<>>
                       /\ S[i] = [year |-> S[i].year, want |-> S[i].want, pc |-> S[i].pc,
                                  page |-> S[i].page, items |-> S[i].items]
    BY <1>3, <1>10 DEF Search
<1>12. \A i \in 1..n : ys[i] \in MinYear..Y - 1 /\ ys[i] \in Nat
    BY <1>7, <1>9, SearchBounds DEF GoodYears, SearchBounds
<1> HIDE DEF S
<1>13. Searching(S)
  <2>1. \A i \in 1..n : IsSearch(S[i])
    <3> SUFFICES ASSUME NEW i \in 1..n PROVE IsSearch(S[i])
        OBVIOUS
    <3> DEFINE s == S[i]
    <3>1. /\ s.year = ys[i] /\ s.pc = "queued" /\ s.page = 1
          /\ s = [year |-> s.year, want |-> s.want, pc |-> s.pc, page |-> s.page, items |-> s.items]
        BY <1>11
    <3>2. ys[i] \in Nat
        BY <1>12
    <3> HIDE DEF s
    <3>3. IsSearch(s)
        BY <3>1, <3>2 DEF IsSearch
    <3> QED
        BY <3>3 DEF s
  <2> QED
      BY <1>10, <2>1 DEF Searching
<1>14. SearchesOfDay(S, key)
  <2>1. AskingOf(S) = {}
      BY <1>10, <1>11 DEF AskingOf
  <2>2. Cardinality(AskingOf(S)) <= Concurrency
      BY <2>1, FS_EmptySet, SearchBounds DEF SearchBounds
  <2>3. \A i, j \in 1..n : i < j => S[i].year > S[j].year
    <3>1. \A i, j \in 1..n : i < j => ys[i] > ys[j]
        BY <1>7, <1>9 DEF GoodYears
    <3>2. \A i \in 1..n : S[i].year = ys[i]
        BY <1>11
    <3> QED
        BY <3>1, <3>2
  <2> QED
      BY <1>3, <1>10, <1>11, <1>12, <2>2, <2>3 DEF SearchesOfDay
<1>15. ASSUME NEW i \in DOMAIN S
       PROVE  S[i].items \in Seq(Assets) /\ Progress(S[i], library, job.cut)
  <2> DEFINE s == S[i]
             found == s.want \cap library
  <2>1. s.pc = "queued" /\ s.page = 1 /\ s.items = <<>> /\ <<>> \in Seq(Assets)
      BY <1>10, <1>11
  <2>2. Cardinality(found) \in Nat
      BY <1>5, SubsetsAreFinite
  <2>3. (1 - 1) * PageSize = 0
      BY SizesArePositive DEF SizesArePositive
  <2>4. SubSeq(NewestFirst(found), 1, 0) = <<>>
      BY SubSeqEmpty
  <2>6. IsFirstOf(<<>>, found)
      BY <1>5, NoneIsFirst
  <2> HIDE DEF s, found
  <2>5. Progress(s, library, job.cut)
      BY <2>1, <2>2, <2>3, <2>4, <2>6 DEF Progress, found
  <2> QED
      BY <2>1, <2>5 DEF s
<1>16. (\A a \in library : CapturedAt(a) # Zero) => Covers(S, key, library)
    BY <1>3, <1>8, <1>9, <1>10, <1>11 DEF Covers
<1>17. SearchesInv(S, key, library, job.steady, job.cut)
    BY <1>1, <1>13, <1>14, <1>15, <1>16 DEF SearchesInv
<1> HIDE DEF z
<1> QED
    BY <1>1, <1>4, <1>5, <1>17 DEF LoadInv, JobInv

LEMMA LoadStepsInv == LoadInv /\ LoadSteps => LoadInv'
BY GetAnswersInv, FirstFailsInv, SpawnSearchesInv, AcquireInv, AskPageInv, AskFailsInv DEF LoadSteps

\* The listings of a call are asked for by keys.
Keys(s) == s \in Seq(ToSet(s)) /\ \A key \in ToSet(s) : IsKey(key)

LEMMA KeysOfFew ==
    /\ Keys(<<>>)
    /\ \A x : IsKey(x) => Keys(<<x>>)
    /\ \A x, y : IsKey(x) /\ IsKey(y) => Keys(<<x, y>>)
<1>1. Keys(<<>>)
    BY DEF Keys, ToSet
<1>2. ASSUME NEW x, IsKey(x) PROVE Keys(<<x>>)
  <2> DEFINE s == <<x>>
  <2>1. ToSet(s) = {x}
      BY DEF ToSet
  <2>2. s \in Seq({x})
      OBVIOUS
  <2> HIDE DEF s
  <2>3. s \in Seq(ToSet(s))
      BY <2>1, <2>2
  <2>4. \A key \in ToSet(s) : IsKey(key)
      BY <1>2, <2>1
  <2>5. Keys(s)
      BY <2>3, <2>4 DEF Keys
  <2> QED
      BY <2>5 DEF s
<1>3. ASSUME NEW x, NEW y, IsKey(x), IsKey(y) PROVE Keys(<<x, y>>)
  <2> DEFINE s == <<x, y>>
  <2>1. ToSet(s) = {x, y}
      BY DEF ToSet
  <2>2. s \in Seq({x, y})
      OBVIOUS
  <2> HIDE DEF s
  <2>3. s \in Seq(ToSet(s))
      BY <2>1, <2>2
  <2>4. \A key \in ToSet(s) : IsKey(key)
      BY <1>3, <2>1
  <2>5. Keys(s)
      BY <2>3, <2>4 DEF Keys
  <2> QED
      BY <2>5 DEF s
<1> QED
    BY <1>1, <1>2, <1>3

LEMMA NeedsKeys ==
    ASSUME NEW c, NEW id, NEW today \in Nat \X Nat
    PROVE  Keys(Needs(c, id, today)) /\ Keys(MetadataNeeds(c, id))
<1>1. \A x : x[1] # "onthisday" => IsKey(x)
    BY DEF IsKey, IsOnThisDay
<1>2. IsKey(Source(id.path, today))
  <2>1. CASE id.path[1] = "onthisday"
    <3>1. PICK y \in Nat, d \in Nat : today = <<y, d>>
        OBVIOUS
    <3>2. <<"onthisday">> \o <<y, d>> = <<"onthisday", y, d>>
      <4> DEFINE T == {"onthisday"} \cup Nat
                 a == <<"onthisday">>
                 b == <<y, d>>
                 e == <<"onthisday", y, d>>
      <4>1. /\ a \in Seq(T) /\ Len(a) = 1 /\ a[1] = "onthisday"
            /\ b \in Seq(T) /\ Len(b) = 2 /\ b[1] = y /\ b[2] = d
            /\ e \in Seq(T) /\ Len(e) = 3 /\ e[1] = "onthisday" /\ e[2] = y /\ e[3] = d
          OBVIOUS
      <4> HIDE DEF T, a, b, e
      <4>2. /\ a \o b \in Seq(T) /\ Len(a \o b) = 3
            /\ \A i \in 1..3 : (a \o b)[i] = IF i <= 1 THEN a[i] ELSE b[i - 1]
        <5>1. /\ a \o b \in Seq(T) /\ Len(a \o b) = Len(a) + Len(b)
              /\ \A i \in 1..Len(a) + Len(b) : (a \o b)[i] = IF i <= Len(a) THEN a[i] ELSE b[i - Len(a)]
            BY ONLY <4>1, ConcatProperties
        <5>2. Len(a) + Len(b) = 3
            BY <4>1
        <5> QED
            BY <4>1, <5>1, <5>2
      <4>3. \A i \in 1..3 : (a \o b)[i] = e[i]
        <5>1. \A i \in 1..3 : i = 1 \/ i = 2 \/ i = 3
            OBVIOUS
        <5> QED
            BY <4>1, <4>2, <5>1
      <4>4. a \o b = e
          BY <4>1, <4>2, <4>3, SeqEqual
      <4> QED
          BY <4>4 DEF a, b, e
    <3>3. Source(id.path, today) = <<"onthisday", y, d>>
        BY <2>1, <3>1, <3>2 DEF Source
    <3> QED
        BY <3>3 DEF IsKey
  <2>2. CASE id.path[1] # "onthisday"
    <3>1. Source(id.path, today) = <<"timeline">> \/ Source(id.path, today) = id.path
        BY <2>2 DEF Source
    <3>2. <<"timeline">>[1] = "timeline"
        OBVIOUS
    <3> QED
        BY <1>1, <2>2, <3>1, <3>2
  <2> QED
      BY <2>1, <2>2
<1>3. /\ IsKey(<<"albums">>) /\ IsKey(<<"people">>) /\ IsKey(<<"timeline">>)
      /\ \A x : IsKey(<<"getasset", x>>) /\ IsKey(<<"getalbum", x>>) /\ IsKey(<<"getperson", x>>)
    BY <1>1
<1>4. Keys(Needs(c, id, today))
    BY <1>2, <1>3, KeysOfFew DEF Needs
<1>5. Keys(MetadataNeeds(c, id))
    BY <1>1, <1>3, KeysOfFew DEF MetadataNeeds
<1> QED
    BY <1>4, <1>5

LEMMA WantsKeys ==
    ASSUME hour \in Hours, NEW t
    PROVE  Keys(Wants(t))
<1>1. Today[hour] \in Nat \X Nat
    BY TodayIsADate DEF TodayIsADate
<1> QED
    BY <1>1, NeedsKeys, KeysOfFew DEF Wants

\* What a call lacks is wanted, and there is no copy of it.
LEMMA MissingProperties ==
    ASSUME hour \in Hours, NEW t
    PROVE  /\ ToSet(Missing(t)) = ToSet(Wants(t)) \ DOMAIN copies
           /\ Missing(t) = <<>> => ToSet(Wants(t)) \subseteq DOMAIN copies
           /\ Missing(t) # <<>> => /\ Missing(t)[1] \in ToSet(Wants(t)) \ DOMAIN copies
                                   /\ IsKey(Missing(t)[1])
<1> DEFINE W == ToSet(Wants(t))
           M == Missing(t)
<1>1. Wants(t) \in Seq(W) /\ \A key \in W : IsKey(key)
    BY WantsKeys DEF Keys
<1> HIDE DEF W
<1>2. M \in Seq(W) /\ ToSet(M) = W \cap (W \ DOMAIN copies)
    BY <1>1, WhereProperties DEF Missing, W
<1> HIDE DEF M
<1>3. M # <<>> => M[1] \in ToSet(M)
  <2>1. M # <<>> => 1 \in DOMAIN M
      BY <1>2
  <2> QED
      BY <2>1 DEF ToSet
<1>4. M = <<>> => ToSet(M) = {}
    BY DEF ToSet
<1>5. ToSet(M) = W \ DOMAIN copies
    BY <1>2
<1> QED
    BY <1>1, <1>3, <1>4, <1>5 DEF W, M

BrowsingInv == cfg \in Configs /\ hour \in Hours /\ LoadInv

LEMMA BrowsingInvInit == Init => BrowsingInv
<1> SUFFICES ASSUME Init PROVE BrowsingInv
    OBVIOUS
<1>1. library \subseteq Assets
    BY ConfigsAreUsable DEF Init, ConfigsAreUsable
<1> QED
    BY <1>1, IdleInv, SearchBounds DEF Init, BrowsingInv, LoadInv, SearchBounds

LEMMA BrowsingInvNext == BrowsingInv /\ [Next]_vars => BrowsingInv'
<1> SUFFICES ASSUME BrowsingInv, [Next]_vars PROVE BrowsingInv'
    OBVIOUS
<1>1. cfg' \in Configs /\ hour' \in Hours
    BY ConfigStays DEF BrowsingInv, Next, vars, Ask, AskMetadata, Load, Answer, AnswerMetadata, Descend,
                       GiveUp, Open, LoadStep, LoadEnds, Expire, Tick, ChangeLibrary
<1>2. CASE UNCHANGED searchVars
    BY <1>1, <1>2 DEF BrowsingInv, LoadInv, JobInv, searchVars
<1>3. ASSUME NEW t \in TVs, Load(t) PROVE LoadInv'
  <2>1. IsKey(Missing(t)[1])
      BY <1>3, MissingProperties DEF Load, BrowsingInv
  <2> QED
      BY <1>3, <2>1, StartLoadInv DEF Load, BrowsingInv
<1>4. CASE LoadStep
    BY <1>1, <1>4, LoadStepsInv DEF LoadStep, BrowsingInv
<1>5. CASE LoadEnds
    BY <1>1, <1>5, EndLoadInv DEF LoadEnds, BrowsingInv
<1>6. CASE ChangeLibrary
    BY <1>1, <1>6, ChangeInv DEF ChangeLibrary, BrowsingInv
<1>7. \/ UNCHANGED searchVars \/ \E t \in TVs : Load(t)
      \/ LoadStep \/ LoadEnds \/ ChangeLibrary
    BY DEF Next, vars, searchVars, Ask, AskMetadata, Answer, AnswerMetadata, Descend,
           GiveUp, Open, Expire, Tick
<1> QED
    BY <1>1, <1>2, <1>3, <1>4, <1>5, <1>6, <1>7 DEF BrowsingInv

LEMMA BrowsingInvHolds == Spec => []BrowsingInv
BY BrowsingInvInit, BrowsingInvNext, PTL DEF Spec

\* No search is under way beyond those that hold a slot.  (The semaphore of onThisDaySearch,
\* extrafolders.go:174-197.)
Slots == Cardinality(Running) <= IF job # Idle /\ IsOnThisDay(job.key) THEN Concurrency ELSE 1

LEMMA SlotsSuffice == BrowsingInv => Slots
<1> SUFFICES ASSUME BrowsingInv PROVE Slots
    OBVIOUS
<1> DEFINE S == job.searches
<1>1. Running = AskingOf(S)
    BY DEF Running, AskingOf
<1>2. CASE job.phase # "search"
  <2>1. Running = {}
      BY <1>2 DEF BrowsingInv, LoadInv, JobInv, Running
  <2>2. Cardinality(Running) = 0
      BY <2>1, FS_EmptySet
  <2> QED
      BY <2>2, SearchBounds DEF SearchBounds, Slots
<1>3. CASE job.phase = "search"
  <2>1. SearchesInv(S, job.key, library, job.steady, job.cut) /\ job # Idle
      BY <1>3 DEF BrowsingInv, LoadInv, JobInv, Idle
  <2>2. CASE IsOnThisDay(job.key)
      BY <1>1, <2>1, <2>2 DEF SearchesInv, SearchesOfDay, Slots
  <2>3. CASE ~IsOnThisDay(job.key)
    <3>1. Running \subseteq {1}
        BY <2>1, <2>3 DEF SearchesInv, SearchAlone, Running
    <3>2. IsFiniteSet({1}) /\ Cardinality({1}) = 1
        BY FS_Singleton
    <3>3. Cardinality(Running) <= 1
        BY <3>1, <3>2, FS_Subset
    <3> QED
        BY <2>3, <3>3 DEF Slots
  <2> QED
      BY <2>2, <2>3
<1> QED
    BY <1>2, <1>3

\* What an ended search keeps of what it was sent.
LEMMA KeptOfDay ==
    ASSUME NEW s, IsSearch(s), s.year # 0, s.items \in Seq(Assets), IsInjective(s.items)
    PROVE  /\ Kept(s) \in Seq(Assets) /\ IsInjective(Kept(s))
           /\ ToSet(Kept(s)) = {a \in ToSet(s.items) : LocalCaptureDate(a) = <<s.year, job.key[3]>>}
<1> DEFINE items == s.items
           of == {a \in ToSet(items) : LocalCaptureDate(a) = <<s.year, job.key[3]>>}
           kept == Where(items, of)
<1>1. Kept(s) = kept
    BY DEF Kept
<1>2. kept \in Seq(Assets) /\ ToSet(kept) = ToSet(items) \cap of /\ \E h : Within(kept, items, h)
    BY WhereProperties
<1>3. IsInjective(kept)
  <2>1. PICK h : Within(kept, items, h)
      BY <1>2
  <2> HIDE DEF kept, items
  <2>2. DOMAIN kept \subseteq Int /\ DOMAIN items \subseteq Int
      BY <1>2 DEF items
  <2> SUFFICES ASSUME NEW i \in DOMAIN kept, NEW j \in DOMAIN kept, kept[i] = kept[j], i # j PROVE FALSE
      BY DEF IsInjective
  <2>3. items[h[i]] = items[h[j]] /\ h[i] \in DOMAIN items /\ h[j] \in DOMAIN items
      BY <2>1 DEF Within
  <2>4. h[i] = h[j]
      BY <2>3 DEF IsInjective, items
  <2> QED
      BY <2>1, <2>2, <2>3, <2>4 DEF Within
<1>4. ToSet(items) \cap of = of
    OBVIOUS
<1> QED
    BY <1>1, <1>2, <1>3, <1>4

\* Whatever the library, the day, the time zones of the assets, the size of a page and the order
\* in which the searches answer, a listing that is loaded while the library does not change has
\* every asset that it should have, once.  (SearchAssets, client.go:296-320; onThisDaySearch,
\* extrafolders.go:156-205.)
LEMMA LoadedIsComplete == BrowsingInv => ListingsAreComplete
<1> SUFFICES ASSUME BrowsingInv,
                    job.phase = "search", Settled, ~LoadFails, ~IsGet(job.key), job.steady, ~job.cut,
                    IsOnThisDay(job.key) => \A a \in library : CapturedAt(a) # Zero
             PROVE  LET day    == Tail(job.key)
                        wanted == IF IsOnThisDay(job.key)
                                  THEN {a \in library : \E y \in MinYear..day[1] - 1 :
                                            LocalCaptureDate(a) = <<y, day[2]>>}
                                  ELSE Filter(job.key) \cap library
                    IN  ToSet(Loaded) = wanted /\ IsInjective(Loaded)
    BY DEF ListingsAreComplete
<1> DEFINE S == job.searches
           ss == [i \in DOMAIN S |-> Kept(S[i])]
<1>1. SearchesInv(S, job.key, library, TRUE, FALSE) /\ library \subseteq Assets
    BY DEF BrowsingInv, LoadInv, JobInv
<1>2. PICK n \in Nat : S = [i \in 1..n |-> S[i]] /\ \A i \in 1..n : IsSearch(S[i])
    BY <1>1 DEF SearchesInv, Searching
<1>3. DOMAIN S = 1..n
    BY <1>2
<1>4. \A i \in 1..n : S[i].pc = "ended"
    BY <1>3 DEF Settled, LoadFails
<1>5. ASSUME NEW i \in 1..n
      PROVE  LET found == S[i].want \cap library
             IN  S[i].items \in Seq(Assets) /\ ToSet(S[i].items) = found /\ IsInjective(S[i].items)
  <2> DEFINE found == S[i].want \cap library
             all == NewestFirst(found)
  <2>1. S[i].items = all /\ S[i].items \in Seq(Assets)
      BY <1>1, <1>3, <1>4 DEF SearchesInv, Progress
  <2>2. Lists(all, found)
      BY <1>1, NewestFirstProperties
  <2> HIDE DEF all, found
  <2> QED
      BY <2>1, <2>2 DEF Lists, found
<1>6. Loaded = FlattenSeq(ss)
    BY DEF Loaded
<1>7. CASE IsOnThisDay(job.key)
  <2>1. PICK Y \in Nat, d \in Nat : job.key = <<"onthisday", Y, d>>
      BY <1>7 DEF BrowsingInv, LoadInv, JobInv, IsKey
  <2>2. job.key[2] = Y /\ job.key[3] = d /\ Tail(job.key)[1] = Y /\ Tail(job.key)[2] = d
      BY <2>1
  <2> DEFINE wanted == {a \in library : \E y \in MinYear..Y - 1 : LocalCaptureDate(a) = <<y, d>>}
  <2>3. SearchesOfDay(S, job.key) /\ Covers(S, job.key, library)
      BY <1>1, <1>7 DEF SearchesInv
  <2>4. \A i \in 1..n : /\ S[i].year \in MinYear..Y - 1 /\ S[i].year # 0
                        /\ S[i].want = Window(S[i].year, d)
      BY <1>3, <2>2, <2>3, SearchBounds DEF SearchesOfDay, SearchBounds
  <2>5. ASSUME NEW i \in 1..n
        PROVE  /\ ss[i] \in Seq(Assets) /\ IsInjective(ss[i])
               /\ ToSet(ss[i]) = {a \in library : LocalCaptureDate(a) = <<S[i].year, d>>}
    <3>1. /\ ss[i] \in Seq(Assets) /\ IsInjective(ss[i])
          /\ ToSet(ss[i]) = {a \in ToSet(S[i].items) : LocalCaptureDate(a) = <<S[i].year, d>>}
        BY <1>2, <1>3, <1>5, <2>2, <2>4, KeptOfDay
    <3>2. ASSUME NEW a \in library, LocalCaptureDate(a) = <<S[i].year, d>> PROVE a \in S[i].want
      <4>1. a \in Window(S[i].year, d)
          BY <1>1, <1>7, <3>2, DayProperties DEF CapturedAt
      <4> QED
          BY <2>4, <4>1
    <3> HIDE DEF ss
    <3> QED
        BY <1>5, <3>1, <3>2
  <2>6. ss \in [1..n -> Seq(Assets)]
      BY <1>3, <2>5
  <2>7. Apart(ss, n)
    <3>1. ASSUME NEW i \in 1..n, NEW j \in 1..n, i # j PROVE ToSet(ss[i]) \cap ToSet(ss[j]) = {}
      <4>1. S[i].year # S[j].year
        <5>1. S[i].year \in Int /\ S[j].year \in Int /\ (i < j \/ j < i)
            BY <2>4, <3>1
        <5> QED
            BY <1>3, <2>3, <5>1 DEF SearchesOfDay
      <4>2. \A a : LocalCaptureDate(a) = <<S[i].year, d>> => LocalCaptureDate(a) # <<S[j].year, d>>
          BY <4>1
      <4> HIDE DEF ss
      <4> QED
          BY <2>5, <4>2
    <3> QED
        BY <2>5, <3>1 DEF Apart
  <2> HIDE DEF ss
  <2>8. Joins(Loaded, ss, n, Assets)
      BY <1>6, <2>6, FlattenProperties
  <2>9. UNION {ToSet(ss[i]) : i \in 1..n} = wanted
    <3>1. ASSUME NEW i \in 1..n, NEW a \in ToSet(ss[i]) PROVE a \in wanted
        BY <2>4, <2>5
    <3>2. ASSUME NEW a \in wanted PROVE \E i \in 1..n : a \in ToSet(ss[i])
      <4>1. PICK y \in MinYear..Y - 1 : LocalCaptureDate(a) = <<y, d>>
          OBVIOUS
      <4>2. PICK i \in DOMAIN S : S[i].year = y
          BY <2>2, <2>3, <4>1 DEF Covers
      <4> QED
          BY <1>3, <2>5, <4>1, <4>2
    <3> HIDE DEF wanted
    <3> QED
        BY <3>1, <3>2
  <2> QED
      BY <1>7, <2>2, <2>7, <2>8, <2>9 DEF Joins
<1>8. CASE ~IsOnThisDay(job.key)
  <2>1. n = 1 /\ S[1].year = 0 /\ S[1].want = Filter(job.key)
    <3>1. DOMAIN S = {1} /\ S[1].year = 0 /\ S[1].want = Filter(job.key)
        BY <1>1, <1>8 DEF SearchesInv, SearchAlone
    <3>2. CASE n = 0
        BY <1>3, <3>1, <3>2
    <3>3. CASE n > 1
      <4>1. 2 \in DOMAIN S
          BY <1>3, <3>3
      <4> QED
          BY <3>1, <4>1
    <3> QED
        BY <3>1, <3>2, <3>3
  <2>2. ss[1] = S[1].items
      BY <1>3, <2>1 DEF Kept
  <2>3. ss \in [1..n -> Seq(Assets)] /\ Apart(ss, n)
    <3>1. \A i \in 1..n : i = 1
        BY <2>1
    <3>2. DOMAIN ss = 1..n /\ ss = [i \in 1..n |-> ss[i]]
        BY <1>3
    <3> HIDE DEF ss
    <3> QED
        BY <1>5, <2>2, <3>1, <3>2 DEF Apart
  <2> HIDE DEF ss
  <2>4. Joins(Loaded, ss, n, Assets)
      BY <1>6, <2>3, FlattenProperties
  <2>5. UNION {ToSet(ss[i]) : i \in 1..n} = Filter(job.key) \cap library
    <3>1. \A i : i \in 1..n <=> i = 1
        BY <2>1
    <3>2. ToSet(ss[1]) = Filter(job.key) \cap library
        BY <1>5, <2>1, <2>2
    <3> QED
        BY <3>1, <3>2
  <2> QED
      BY <1>8, <2>3, <2>4, <2>5 DEF Joins
<1> QED
    BY <1>7, <1>8

\* A complete listing is what every step leads to: LoadedIsComplete, of every reachable state, with
\* any mix of failures, expiries and library changes before.  (cachedListing's load,
\* listcache.go:66-86; SearchAssets, client.go:296-320; onThisDaySearch, extrafolders.go:156-205.)
THEOREM ListingsComplete == Spec => []ListingsAreComplete
BY BrowsingInvHolds, LoadedIsComplete, PTL

-----------------------------------------------------------------------------
(* Children.  What a Browse answers is a list of nodes, whatever the folder. *)

IsList(s) == s \in Seq(ToSet(s))

LEMMA ListsAre == ASSUME NEW T, NEW s \in Seq(T) PROVE IsList(s) /\ ToSet(s) \subseteq T
<1>1. s \in [1..Len(s) -> T] /\ Len(s) \in Nat
    OBVIOUS
<1>2. s \in [1..Len(s) -> ToSet(s)]
    BY <1>1 DEF ToSet
<1> QED
    BY <1>1, <1>2 DEF IsList, ToSet

LEMMA ListLen == ASSUME NEW s, IsList(s)
                 PROVE  Len(s) \in Nat /\ DOMAIN s = 1..Len(s) /\ \A i \in 1..Len(s) : s[i] \in ToSet(s)
BY DEF IsList

LEMMA ListOf == ASSUME NEW n \in Nat, NEW s, s = [i \in 1..n |-> s[i]]
                PROVE  IsList(s) /\ Len(s) = n /\ DOMAIN s = 1..n
<1>1. s \in [1..n -> ToSet(s)]
    BY DEF ToSet
<1> QED
    BY <1>1 DEF IsList

\* A path that names something, and children with such paths.
IsPath(p)   == IsList(p) /\ p # <<>> /\ (p[1] = "asset" => \E a \in Assets : p = <<"asset", a>>)
IsNodes(cs) == IsList(cs) /\ \A i \in DOMAIN cs : IsPath(cs[i].id.path)

LEMMA NodesJoin ==
    ASSUME NEW s, NEW r, IsNodes(s), IsNodes(r)
    PROVE  IsNodes(s \o r)
<1> DEFINE T == ToSet(s) \cup ToSet(r)
<1>1. s \in Seq(T) /\ r \in Seq(T)
  <2>1. s \in Seq(ToSet(s)) /\ r \in Seq(ToSet(r))
      BY DEF IsNodes, IsList
  <2> HIDE DEF T
  <2>2. ToSet(s) \subseteq T /\ ToSet(r) \subseteq T
      BY DEF T
  <2> QED
      BY <2>1, <2>2
<1>2. \A c \in T : IsPath(c.id.path)
    BY DEF IsNodes, ToSet
<1> HIDE DEF T
<1>3. s \o r \in Seq(T)
    BY <1>1
<1>4. IsList(s \o r) /\ ToSet(s \o r) \subseteq T
    BY <1>3, ListsAre
<1> QED
    BY <1>2, <1>4 DEF IsNodes, ToSet

LEMMA NodesPage ==
    ASSUME NEW s, IsNodes(s), NEW start \in Nat, NEW count \in Nat
    PROVE  IsNodes(page(s, start, count))
<1>1. s \in Seq(ToSet(s)) /\ Len(s) \in Nat
    BY DEF IsNodes, IsList
<1> DEFINE last == IF count > 0 /\ start + count < Len(s) THEN start + count ELSE Len(s)
<1>2. CASE start >= Len(s)
  <2>1. page(s, start, count) = <<>>
      BY <1>1, <1>2 DEF page
  <2> QED
      BY <2>1 DEF IsNodes, IsList, ToSet
<1>3. CASE start < Len(s)
  <2>1. page(s, start, count) = SubSeq(s, start + 1, last)
      BY <1>1, <1>3 DEF page
  <2>2. last \in Nat /\ start + 1 \in 1..Len(s) /\ last \in 1..Len(s)
      BY <1>1, <1>3
  <2>3. SubSeq(s, start + 1, last) \in Seq(ToSet(s))
      BY <1>1, <2>2
  <2>4. IsList(page(s, start, count)) /\ ToSet(page(s, start, count)) \subseteq ToSet(s)
      BY <2>1, <2>3, ListsAre
  <2> QED
      BY <2>4 DEF IsNodes, ToSet
<1> QED
    BY <1>1, <1>2, <1>3

\* r is s in another order.
Reorders(r, s) == IsList(r) /\ Len(r) = Len(s) /\ ToSet(r) = ToSet(s) /\ (IsInjective(s) => IsInjective(r))

LEMMA SortedReorders ==
    ASSUME NEW s, IsList(s), NEW key, \A y \in ToSet(s) : key[y] \in Int
    PROVE  Reorders(SortFunc(s, key), s) /\ InOrder(SortFunc(s, key), key)
<1>1. SortedInto(SortFunc(s, key), ToSet(s), s, key)
    BY SortFuncProperties DEF IsList
<1> QED
    BY <1>1, ListsAre DEF SortedInto, Reorders

\* sortByTitle, of things whose titles have the ranks key.
LEMMA TitleReorders ==
    ASSUME NEW s, IsList(s), NEW key, DOMAIN key = ToSet(s), \A y \in ToSet(s) : key[y] \in Int, NEW down
    PROVE  LET k == [x \in ToSet(s) |-> IF down THEN -key[x] ELSE key[x]]
           IN  Reorders(SortFunc(s, k), s) /\ InOrder(SortFunc(s, k), k)
<1> DEFINE k == [x \in ToSet(s) |-> IF down THEN -key[x] ELSE key[x]]
<1>1. \A y \in ToSet(s) : k[y] \in Int
    OBVIOUS
<1> HIDE DEF k
<1>2. Reorders(SortFunc(s, k), s) /\ InOrder(SortFunc(s, k), k)
    BY <1>1, SortedReorders
<1> QED
    BY <1>2 DEF k

LEMMA SameReorders == ASSUME NEW s, IsList(s) PROVE Reorders(s, s)
BY DEF Reorders

\* Sorting photos.
LEMMA SortPhotosProperties ==
    ASSUME NEW s \in Seq(Assets), NEW req
    PROVE  Reorders(sortPhotos(s, req), s) /\ sortPhotos(s, req) \in Seq(Assets)
<1>1. IsList(s) /\ ToSet(s) \subseteq Assets
    BY ListsAre
<1> DEFINE k1 == [x \in ToSet(s) |-> IF req.descending THEN -Captured[x] ELSE Captured[x]]
           k2 == [x \in ToSet(s) |-> IF req.descending THEN -Title[x] ELSE Title[x]]
<1>2. \A y \in ToSet(s) : k1[y] \in Int /\ k2[y] \in Int
  <2>1. \A y \in ToSet(s) : Captured[y] \in Int /\ Title[y] \in Int
      BY <1>1, CapturedIsInt, TitlesAreRanked DEF TitlesAreRanked
  <2> QED
      BY <2>1
<1>3. \/ sortPhotos(s, req) = SortFunc(s, k1) \/ sortPhotos(s, req) = SortFunc(s, k2)
      \/ sortPhotos(s, req) = s
    BY DEF sortPhotos, sortByTitle, SortBy, CapturedAt
<1> HIDE DEF k1, k2
<1>4. Reorders(sortPhotos(s, req), s)
    BY <1>1, <1>2, <1>3, SortedReorders, SameReorders
<1>5. IsList(sortPhotos(s, req)) /\ ToSet(sortPhotos(s, req)) \subseteq Assets
    BY <1>1, <1>4 DEF Reorders
<1>6. sortPhotos(s, req) \in Seq(Assets)
    BY <1>5 DEF IsList
<1> QED
    BY <1>4, <1>6

LEMMA ItemsAreNodes ==
    ASSUME NEW user, NEW s \in Seq(Assets)
    PROVE  /\ IsNodes(Items(user, s)) /\ DOMAIN Items(user, s) = DOMAIN s
           /\ \A i \in DOMAIN s : Items(user, s)[i] = Child(Id(user, <<"asset", s[i]>>), -1)
<1> DEFINE cs == Items(user, s)
<1>1. Len(s) \in Nat /\ DOMAIN s = 1..Len(s) /\ \A i \in 1..Len(s) : s[i] \in Assets
    OBVIOUS
<1>2. cs = [i \in 1..Len(s) |-> Child(Id(user, <<"asset", s[i]>>), -1)]
    BY <1>1 DEF Items
<1>3. \A i \in 1..Len(s) : cs[i].id.path = <<"asset", s[i]>>
    BY <1>2 DEF Child, Id
<1>4. cs = [i \in 1..Len(s) |-> cs[i]]
    BY <1>2
<1> HIDE DEF cs
<1>5. IsList(cs) /\ Len(cs) = Len(s) /\ DOMAIN cs = 1..Len(s)
    BY <1>1, <1>4, ListOf
<1>6. \A a \in Assets : IsPath(<<"asset", a>>)
  <2> SUFFICES ASSUME NEW a \in Assets PROVE IsPath(<<"asset", a>>)
      OBVIOUS
  <2>1. IsList(<<"asset", a>>) /\ <<"asset", a>> # <<>>
      BY DEF IsList, ToSet
  <2> QED
      BY <2>1, Zenon DEF IsPath
<1>7. IsNodes(cs)
    BY <1>1, <1>3, <1>5, <1>6 DEF IsNodes
<1> QED
    BY <1>1, <1>2, <1>5, <1>7 DEF cs

LEMMA WhereLists ==
    ASSUME NEW T, NEW s \in Seq(T), NEW set
    PROVE  /\ IsList(Where(s, set)) /\ Where(s, set) \in Seq(T) /\ ToSet(Where(s, set)) = ToSet(s) \cap set
           /\ IsInjective(s) => IsInjective(Where(s, set))
<1> DEFINE w == Where(s, set)
<1>1. w \in Seq(T) /\ ToSet(w) = ToSet(s) \cap set /\ \E h : Within(w, s, h)
    BY WhereProperties
<1>2. PICK h : Within(w, s, h)
    BY <1>1
<1> HIDE DEF w
<1>3. DOMAIN w \subseteq Int
    BY <1>1
<1>4. ASSUME IsInjective(s), NEW i \in DOMAIN w, NEW j \in DOMAIN w, w[i] = w[j] PROVE i = j
  <2>1. s[h[i]] = s[h[j]] /\ h[i] \in DOMAIN s /\ h[j] \in DOMAIN s
      BY <1>2, <1>4 DEF Within
  <2>2. h[i] = h[j]
      BY <1>4, <2>1 DEF IsInjective
  <2>3. DOMAIN s \subseteq Int
      OBVIOUS
  <2>4. ~(i < j) /\ ~(j < i)
      BY <1>2, <2>1, <2>2, <2>3 DEF Within
  <2> QED
      BY <1>3, <2>4
<1>5. IsList(w)
    BY <1>1, ListsAre
<1>6. IsInjective(s) => IsInjective(w)
    BY <1>4 DEF IsInjective
<1> QED
    BY <1>1, <1>5, <1>6 DEF w

\* The set of the values that f has on a list is finite.
LEMMA ValuesAreFinite ==
    ASSUME NEW s, IsList(s), NEW f
    PROVE  IsFiniteSet({f[x] : x \in ToSet(s)})
<1> DEFINE S == {f[x] : x \in ToSet(s)}
           g == [i \in 1..Len(s) |-> f[s[i]]]
<1>1. Len(s) \in Nat /\ DOMAIN s = 1..Len(s)
    BY ListLen
<1>2. \A i \in 1..Len(s) : g[i] \in S
    BY <1>1 DEF ToSet
<1>3. \A y \in S : \E i \in 1..Len(s) : g[i] = y
    BY <1>1 DEF ToSet
<1>4. g \in [1..Len(s) -> S]
    BY <1>2
<1> HIDE DEF g, S
<1>5. g \in Surjection(1..Len(s), S)
    BY <1>3, <1>4 DEF Surjection
<1>6. IsFiniteSet(1..Len(s))
    BY <1>1, FS_Interval
<1>7. IsFiniteSet(S)
    BY <1>5, <1>6, FS_Surjection
<1> QED
    BY <1>7 DEF S

\* Any sequence of a finite set's elements has each of them once.
LEMMA SetToSeqProperties ==
    ASSUME NEW S, IsFiniteSet(S)
    PROVE  /\ IsList(SetToSeq(S)) /\ Len(SetToSeq(S)) = Cardinality(S)
           /\ ToSet(SetToSeq(S)) = S /\ IsInjective(SetToSeq(S))
<1> DEFINE n == Cardinality(S)
           a == SetToSeq(S)
<1>1. n \in Nat
    BY FS_CardinalityType
<1>2. PICK f : f \in Bijection(1..n, S)
    BY FS_CardinalityType DEF ExistsBijection
<1>3. f \in [1..n -> S] /\ IsInjective(f)
    BY <1>2 DEF Bijection, Injection, IsInjective
<1>4. a \in [1..n -> S] /\ IsInjective(a)
    BY <1>3 DEF SetToSeq
<1> HIDE DEF a
<1>5. a = [i \in 1..n |-> a[i]]
    BY <1>4
<1>6. IsList(a) /\ Len(a) = n /\ DOMAIN a = 1..n
    BY <1>1, <1>5, ListOf
<1>7. a \in Injection(1..n, S)
    BY <1>4, Fun_IsInj DEF IsInjective
<1>8. IsFiniteSet(1..n) /\ Cardinality(1..n) = n
    BY <1>1, FS_Interval
<1>9. a \in Surjection(1..n, S)
    BY <1>7, <1>8, FS_Injection
<1>10. ToSet(a) = S
    BY <1>4, <1>6, <1>9 DEF Surjection, ToSet
<1> QED
    BY <1>4, <1>6, <1>10 DEF a

-----------------------------------------------------------------------------
(* The timeline. *)

\* A bucket: a year, a year and its day, or Unknown.
IsMonth(b)    == \E y, d \in Nat : b = <<y, d>>
IsYear(b)     == \E y \in Nat : b = <<y>>

LEMMA BucketsAre ==
    ASSUME NEW a \in Assets
    PROVE  /\ IsYear(timelineBucket(a, FALSE))
           /\ timelineBucket(a, TRUE) = Unknown \/ IsMonth(timelineBucket(a, TRUE))
           /\ timelineBucket(a, TRUE)[1] = timelineBucket(a, FALSE)[1]
<1>1. Captured[a] = Zero \/ (Captured[a] \in Nat /\ Captured[a] # Zero)
    BY AssetsAreDescribed DEF AssetsAreDescribed
<1>2. CASE Captured[a] = Zero
    BY <1>2 DEF timelineBucket, CapturedAt, Unknown, IsYear
<1>3. CASE Captured[a] \in Nat /\ Captured[a] # Zero
  <2> DEFINE t == Captured[a]
             y == YearOf(t)
             d == 1 + (t - Midnight(y, 1)) \div 24
  <2>1. DateOf(t) = <<y, d>>
      BY DEF DateOf
  <2> HIDE DEF d
  <2>2. y \in Nat /\ d \in 1..DaysIn(y)
    <3> HIDE DEF y
    <3>1. /\ y = YearOf(t) /\ y \in Nat /\ Midnight(y, 1) <= t /\ t < Midnight(y + 1, 1)
          /\ d \in 1..DaysIn(y)
        BY <1>3, <2>1, DateProperties
    <3> QED
        BY <3>1
  <2>3. timelineBucket(a, FALSE) = <<y>> /\ timelineBucket(a, TRUE) = <<y, d>>
      BY <1>3, <2>1 DEF timelineBucket, CapturedAt
  <2> HIDE DEF y
  <2>4. d \in Nat
      BY <2>2 DEF DaysIn
  <2>5. IsYear(timelineBucket(a, FALSE))
      BY <2>2, <2>3 DEF IsYear
  <2>6. IsMonth(timelineBucket(a, TRUE))
      BY <2>2, <2>3, <2>4 DEF IsMonth
  <2>7. timelineBucket(a, TRUE)[1] = timelineBucket(a, FALSE)[1]
    <3>1. <<y, d>>[1] = <<y>>[1]
        OBVIOUS
    <3> QED
        BY <2>3, <3>1, Zenon
  <2> QED
      BY <2>5, <2>6, <2>7
<1> QED
    BY <1>1, <1>2, <1>3

LEMMA LabelIsInt == ASSUME NEW b, IsYear(b) \/ IsMonth(b) PROVE Label(b) \in Int
<1>1. CASE IsYear(b)
    BY <1>1 DEF IsYear, Label
<1>2. CASE IsMonth(b)
    BY <1>2 DEF IsMonth, Label
<1> QED
    BY <1>1, <1>2

\* What groupTimeline keeps, and the buckets it finds.
GroupsOf(groups, kept, month) ==
    /\ IsList(groups)
    /\ \A i \in DOMAIN groups :
         /\ groups[i] = [bucket |-> groups[i].bucket,
                         assets |-> Where(kept, {a \in ToSet(kept) : timelineBucket(a, month) = groups[i].bucket})]
         /\ groups[i].bucket \in {timelineBucket(a, month) : a \in ToSet(kept)}
    /\ \A a \in ToSet(kept) : \E i \in DOMAIN groups : groups[i].bucket = timelineBucket(a, month)
    /\ \A i, j \in DOMAIN groups : groups[i].bucket = groups[j].bucket => i = j
    /\ \A i, j \in DOMAIN groups : i < j =>
           LET key(b) == IF b = Unknown THEN 1 ELSE -Label(b)
           IN  key(groups[i].bucket) <= key(groups[j].bucket)
KeptOf(media, month, year) == Where(media, {a \in ToSet(media) : year = 0 \/ timelineBucket(a, month)[1] = year})

LEMMA BucketKinds ==
    ASSUME NEW a \in Assets, NEW month \in BOOLEAN
    PROVE  IsYear(timelineBucket(a, month)) \/ IsMonth(timelineBucket(a, month))
<1>1. IsYear(Unknown)
    BY DEF IsYear, Unknown
<1> QED
    BY <1>1, BucketsAre

LEMMA GroupTimelineProperties ==
    ASSUME NEW media \in Seq(Assets), NEW month \in BOOLEAN, NEW year
    PROVE  GroupsOf(groupTimeline(media, month, year), KeptOf(media, month, year), month)
<1> DEFINE kept == KeptOf(media, month, year)
           bucket == [a \in ToSet(kept) |-> timelineBucket(a, month)]
           found == {timelineBucket(a, month) : a \in ToSet(kept)}
           key == [b \in found |-> IF b = Unknown THEN 1 ELSE -Label(b)]
           buckets == SortFunc(SetToSeq(found), key)
           group(b) == [bucket |-> b, assets |-> Where(kept, {a \in ToSet(kept) : timelineBucket(a, month) = b})]
           groups == groupTimeline(media, month, year)
<1>1. groups = [i \in DOMAIN buckets |-> group(buckets[i])]
    BY DEF groupTimeline, KeptOf
<1>2. kept \in Seq(Assets) /\ IsList(kept)
    BY WhereLists DEF KeptOf
<1> HIDE DEF kept
<1>3. IsFiniteSet(found)
  <2>1. found = {bucket[a] : a \in ToSet(kept)}
      OBVIOUS
  <2>2. IsFiniteSet({bucket[a] : a \in ToSet(kept)})
    <3> HIDE DEF bucket
    <3> QED
        BY <1>2, ValuesAreFinite
  <2> QED
      BY <2>1, <2>2
<1>4. \A b \in found : IsYear(b) \/ IsMonth(b)
  <2>1. ToSet(kept) \subseteq Assets
      BY <1>2, ListsAre
  <2> QED
      BY <2>1, BucketKinds
<1>5. \A b \in found : key[b] \in Int
    BY <1>4, LabelIsInt
<1> HIDE DEF found
<1>6. IsList(SetToSeq(found)) /\ ToSet(SetToSeq(found)) = found /\ IsInjective(SetToSeq(found))
    BY <1>3, SetToSeqProperties
<1>7. Reorders(buckets, SetToSeq(found)) /\ InOrder(buckets, key)
  <2> HIDE DEF key
  <2> QED
      BY <1>5, <1>6, SortedReorders
<1>8. \A b \in found : key[b] = IF b = Unknown THEN 1 ELSE -Label(b)
    OBVIOUS
<1> HIDE DEF buckets, key
<1>9. IsList(buckets) /\ ToSet(buckets) = found /\ IsInjective(buckets)
    BY <1>6, <1>7 DEF Reorders
<1>10. DOMAIN buckets = 1..Len(buckets) /\ Len(buckets) \in Nat /\ \A i \in 1..Len(buckets) : buckets[i] \in found
    BY <1>9, ListLen
<1>11. \A i \in DOMAIN buckets : groups[i] = group(buckets[i]) /\ groups[i].bucket = buckets[i]
    BY <1>1
<1>12. groups = [i \in 1..Len(buckets) |-> groups[i]]
    BY <1>1, <1>10
<1> HIDE DEF groups
<1>13. IsList(groups) /\ DOMAIN groups = DOMAIN buckets
    BY <1>10, <1>12, ListOf
<1>14. \A i \in DOMAIN groups : groups[i] = group(groups[i].bucket) /\ groups[i].bucket \in found
    BY <1>10, <1>11, <1>13
<1>15. \A a \in ToSet(kept) : \E i \in DOMAIN groups : groups[i].bucket = timelineBucket(a, month)
  <2> SUFFICES ASSUME NEW a \in ToSet(kept)
               PROVE  \E i \in DOMAIN groups : groups[i].bucket = timelineBucket(a, month)
      OBVIOUS
  <2>1. timelineBucket(a, month) \in ToSet(buckets)
      BY <1>9 DEF found
  <2> QED
      BY <1>11, <1>13, <2>1 DEF ToSet
<1>16. \A i, j \in DOMAIN groups : groups[i].bucket = groups[j].bucket => i = j
    BY <1>9, <1>11, <1>13 DEF IsInjective
<1>17. \A i, j \in DOMAIN groups : i < j => key[groups[i].bucket] <= key[groups[j].bucket]
  <2>1. \A i, j \in DOMAIN buckets : i < j => key[buckets[i]] <= key[buckets[j]]
      BY <1>7 DEF InOrder
  <2> TAKE i, j \in DOMAIN groups
  <2>2. groups[i].bucket = buckets[i] /\ groups[j].bucket = buckets[j]
      BY <1>11, <1>13
  <2> QED
      BY <1>13, <2>1, <2>2
<1>18. \A i, j \in DOMAIN groups : i < j =>
           LET k(b) == IF b = Unknown THEN 1 ELSE -Label(b)
           IN  k(groups[i].bucket) <= k(groups[j].bucket)
    BY <1>8, <1>14, <1>17
<1> QED
    BY <1>13, <1>14, <1>15, <1>16, <1>18 DEF GroupsOf, found, kept, groups


-----------------------------------------------------------------------------
(* Children in order. *)

\* Most recently captured first.
LatestFirst(s) == \A i, j \in DOMAIN s : i < j => Captured[s[i]] >= Captured[s[j]]

LEMMA LatestFirstWhere ==
    ASSUME NEW s \in Seq(Assets), LatestFirst(s), NEW set
    PROVE  LatestFirst(Where(s, set))
<1> DEFINE w == Where(s, set)
<1>1. PICK h : Within(w, s, h)
    BY WhereProperties
<1> HIDE DEF w
<1> SUFFICES ASSUME NEW i \in DOMAIN w, NEW j \in DOMAIN w, i < j
             PROVE  Captured[w[i]] >= Captured[w[j]]
    BY DEF LatestFirst, w
<1>2. w[i] = s[h[i]] /\ w[j] = s[h[j]] /\ h[i] \in DOMAIN s /\ h[j] \in DOMAIN s /\ h[i] < h[j]
    BY <1>1 DEF Within
<1> QED
    BY <1>2 DEF LatestFirst

\* What parseSortCriteria returns.
IsReq(req) == req = NoSort \/ \E p \in {"dc:title", "dc:date"}, d \in BOOLEAN : req = [property |-> p, descending |-> d]

LEMMA ParsedIsReq ==
    ASSUME NEW criteria \in Seq(STRING)
    PROVE  IsReq(parseSortCriteria(criteria))
<1> DEFINE known == Where(criteria, DOMAIN Sorts)
           names == {"+dc:title", "-dc:title", "+dc:date", "-dc:date"}
<1>1. known \in Seq(STRING) /\ ToSet(known) = ToSet(criteria) \cap DOMAIN Sorts
    BY WhereProperties
<1>2. DOMAIN Sorts = names
    BY DEF Sorts
<1>3. ASSUME NEW p \in names PROVE IsReq(Sorts[p])
  <2> DEFINE q == IF p \in {"+dc:title", "-dc:title"} THEN "dc:title" ELSE "dc:date"
             d == p \in {"-dc:title", "-dc:date"}
  <2>1. Sorts[p] = [property |-> q, descending |-> d]
      BY DEF Sorts
  <2>2. q \in {"dc:title", "dc:date"} /\ d \in BOOLEAN
      OBVIOUS
  <2> HIDE DEF q, d
  <2> QED
      BY <2>1, <2>2, Zenon DEF IsReq
<1>4. CASE known = <<>>
    BY <1>4 DEF parseSortCriteria, IsReq
<1>5. CASE known # <<>>
  <2> HIDE DEF known
  <2>1. 1 \in DOMAIN known
      BY <1>1, <1>5
  <2>2. known[1] \in names
      BY <1>1, <1>2, <2>1 DEF ToSet
  <2>3. parseSortCriteria(criteria) = Sorts[known[1]]
      BY <1>5 DEF parseSortCriteria, known
  <2> QED
      BY <1>3, <2>2, <2>3
<1> QED
    BY <1>4, <1>5

\* The children of a folder, in the order asked for.
InSort(cs, folder, req) ==
    \A i, j \in DOMAIN cs : i < j => SortKey(folder, cs[i].id, req) <= SortKey(folder, cs[j].id, req)

LEMMA SortKeyOfItem ==
    ASSUME NEW folder, NEW user, NEW a, NEW req
    PROVE  SortKey(folder, Id(user, <<"asset", a>>), req) =
               IF req.property = "dc:date" THEN (IF req.descending THEN -Captured[a] ELSE Captured[a])
               ELSE IF req.property = "dc:title" THEN (IF req.descending THEN -Title[a] ELSE Title[a])
               ELSE IF folder.path[1] = "random" THEN 0 ELSE -Captured[a]
<1> DEFINE id == Id(user, <<"asset", a>>)
<1>1. id.path = <<"asset", a>>
    BY DEF Id
<1>2. id.path[1] = "asset" /\ id.path[Len(id.path)] = a
    BY <1>1, SMTT(20)
<1> HIDE DEF id
<1>3. SortKey(folder, id, req) =
               IF req.property = "dc:date" THEN (IF req.descending THEN -Captured[a] ELSE Captured[a])
               ELSE IF req.property = "dc:title" THEN (IF req.descending THEN -Title[a] ELSE Title[a])
               ELSE IF folder.path[1] = "random" THEN 0 ELSE -Captured[a]
    BY <1>2 DEF SortKey, IsItem
<1> QED
    BY <1>3 DEF id

\* The items of a folder, sorted.
LEMMA SortedItems ==
    ASSUME NEW s \in Seq(Assets), NEW req, IsReq(req), NEW user, NEW folder
    PROVE  LET cs == assetItems(user, s, req).children
           IN  /\ IsNodes(cs)
               /\ folder.path[1] = "random" \/ req # NoSort \/ LatestFirst(s) => InSort(cs, folder, req)
<1> DEFINE w == sortPhotos(s, req)
           cs == Items(user, w)
<1>1. assetItems(user, s, req).children = cs
    BY DEF assetItems, Listing
<1>2. w \in Seq(Assets)
    BY SortPhotosProperties
<1>3. /\ IsNodes(cs) /\ DOMAIN cs = DOMAIN w
      /\ \A i \in DOMAIN w : cs[i] = Child(Id(user, <<"asset", w[i]>>), -1)
    BY <1>2, ItemsAreNodes
<1> DEFINE up(n) == IF req.descending THEN -n ELSE n
           key(a) == IF req.property = "dc:date" THEN up(Captured[a])
                     ELSE IF req.property = "dc:title" THEN up(Title[a])
                     ELSE IF folder.path[1] = "random" THEN 0 ELSE -Captured[a]
<1>4. \A i \in DOMAIN w : SortKey(folder, cs[i].id, req) = key(w[i])
  <2> TAKE i \in DOMAIN w
  <2>1. cs[i].id = Id(user, <<"asset", w[i]>>)
      BY <1>3 DEF Child
  <2> HIDE DEF cs, w
  <2>2. SortKey(folder, Id(user, <<"asset", w[i]>>), req) = key(w[i])
      BY SortKeyOfItem, ZenonT(60)
  <2> QED
      BY <2>1, <2>2
<1> HIDE DEF cs
<1>5. \A a \in Assets : Captured[a] \in Int /\ Title[a] \in Int
    BY CapturedIsInt, TitlesAreRanked DEF TitlesAreRanked
<1>6. IsList(s) /\ ToSet(s) \subseteq Assets
    BY ListsAre
<1>7. \A i \in DOMAIN w : w[i] \in ToSet(s)
  <2>1. ToSet(w) = ToSet(s)
      BY SortPhotosProperties DEF Reorders
  <2> HIDE DEF w
  <2> QED
      BY <2>1 DEF ToSet
<1> DEFINE k1 == [x \in ToSet(s) |-> up(Captured[x])]
           k2 == [x \in ToSet(s) |-> up(Title[x])]
<1>8. \A y \in ToSet(s) : k1[y] \in Int /\ k2[y] \in Int
  <2>1. \A y \in ToSet(s) : Captured[y] \in Int /\ Title[y] \in Int
      BY <1>5, <1>6
  <2> QED
      BY <2>1
<1>9. ASSUME folder.path[1] = "random" \/ req # NoSort \/ LatestFirst(s)
      PROVE  \A i, j \in DOMAIN w : i < j => key(w[i]) <= key(w[j])
  <2>1. CASE req.property = "dc:date"
    <3>1. w = SortFunc(s, k1)
        BY <2>1 DEF sortPhotos, SortBy, CapturedAt
    <3>2. \A a \in ToSet(s) : key(a) = k1[a]
        BY <2>1
    <3> HIDE DEF k1, w, key
    <3>3. InOrder(w, k1)
        BY <1>6, <1>8, <3>1, SortedReorders
    <3> QED
        BY <1>7, <3>2, <3>3 DEF InOrder
  <2>2. CASE req.property = "dc:title"
    <3>1. w = SortFunc(s, k2)
        BY <2>2 DEF sortPhotos, sortByTitle, SortBy
    <3>2. \A a \in ToSet(s) : key(a) = k2[a]
        BY <2>2
    <3> HIDE DEF k2, w, key
    <3>3. InOrder(w, k2)
        BY <1>6, <1>8, <3>1, SortedReorders
    <3> QED
        BY <1>7, <3>2, <3>3 DEF InOrder
  <2>3. CASE req.property \notin {"dc:date", "dc:title"}
    <3>1. req = NoSort /\ w = s
        BY <2>3 DEF IsReq, sortPhotos, sortByTitle
    <3>2. CASE folder.path[1] = "random"
        BY <2>3, <3>2
    <3>3. CASE folder.path[1] # "random"
      <4>1. LatestFirst(s)
          BY <1>9, <3>1, <3>3
      <4>2. \A a : key(a) = -Captured[a]
          BY <2>3, <3>3
      <4> HIDE DEF w, key
      <4> TAKE i, j \in DOMAIN w
      <4>3. Captured[w[i]] \in Int /\ Captured[w[j]] \in Int
          BY <1>5, <1>6, <1>7
      <4> QED
          BY <3>1, <4>1, <4>2, <4>3 DEF LatestFirst
    <3> QED
        BY <3>2, <3>3
  <2> QED
      BY <2>1, <2>2, <2>3
<1>10. ASSUME folder.path[1] = "random" \/ req # NoSort \/ LatestFirst(s) PROVE InSort(cs, folder, req)
  <2> HIDE DEF key, w
  <2> QED
      BY <1>3, <1>4, <1>9, <1>10 DEF InSort
<1> QED
    BY <1>1, <1>3, <1>10

\* Children made of a list, one per element.
LEMMA OnePerElement ==
    ASSUME NEW s, IsList(s), NEW cs, cs = [i \in DOMAIN s |-> cs[i]], \A i \in DOMAIN s : IsPath(cs[i].id.path)
    PROVE  IsNodes(cs) /\ DOMAIN cs = DOMAIN s /\ Len(cs) = Len(s)
<1>1. Len(s) \in Nat /\ DOMAIN s = 1..Len(s)
    BY ListLen
<1>2. cs = [i \in 1..Len(s) |-> cs[i]]
    BY <1>1
<1>3. IsList(cs) /\ Len(cs) = Len(s) /\ DOMAIN cs = 1..Len(s)
    BY <1>1, <1>2, ListOf
<1> QED
    BY <1>1, <1>3 DEF IsNodes

\* sortByTitle, of things whose titles have the ranks key.
LEMMA SortedByTitle ==
    ASSUME NEW s, IsList(s), NEW key, DOMAIN key = ToSet(s), \A y \in ToSet(s) : key[y] \in Int, NEW req,
           NEW w, w = IF req.property = "dc:title"
                      THEN SortFunc(s, [x \in ToSet(s) |-> IF req.descending THEN -key[x] ELSE key[x]]) ELSE s
    PROVE  /\ Reorders(w, s)
           /\ IF req.property = "dc:title"
              THEN \A i, j \in DOMAIN w : i < j =>
                       LET up(n) == IF req.descending THEN -n ELSE n IN up(key[w[i]]) <= up(key[w[j]])
              ELSE w = s
<1>1. CASE req.property = "dc:title"
  <2> DEFINE k == [x \in ToSet(s) |-> IF req.descending THEN -key[x] ELSE key[x]]
  <2>1. \A x \in ToSet(s) : k[x] = IF req.descending THEN -key[x] ELSE key[x]
      OBVIOUS
  <2>2. w = SortFunc(s, k)
      BY <1>1
  <2>3. Reorders(SortFunc(s, k), s) /\ InOrder(SortFunc(s, k), k)
      BY TitleReorders
  <2> HIDE DEF k
  <2>4. Reorders(w, s) /\ InOrder(w, k)
      BY <2>2, <2>3
  <2>5. \A i \in DOMAIN w : w[i] \in ToSet(s)
      BY <2>4 DEF Reorders, ToSet
  <2>6. ASSUME NEW i \in DOMAIN w, NEW j \in DOMAIN w, i < j
        PROVE  LET up(n) == IF req.descending THEN -n ELSE n IN up(key[w[i]]) <= up(key[w[j]])
    <3>1. k[w[i]] <= k[w[j]]
        BY <2>4, <2>6 DEF InOrder
    <3> QED
        BY <2>1, <2>5, <3>1
  <2> QED
      BY <1>1, <2>4, <2>6
<1>2. CASE req.property # "dc:title"
    BY <1>2, SameReorders
<1> QED
    BY <1>1, <1>2

\* Tags and names, as the path of a folder.
LEMMA FolderPaths ==
    /\ \A k : k # "asset" => IsPath(<<k>>)
    /\ \A k, x : k # "asset" => IsPath(<<k, x>>)
    /\ \A k, x, y : k # "asset" => IsPath(<<k, x, y>>)
<1>1. ASSUME NEW k, k # "asset" PROVE IsPath(<<k>>)
  <2>1. IsList(<<k>>) /\ <<k>> # <<>> /\ <<k>>[1] # "asset"
      BY <1>1 DEF IsList, ToSet
  <2> QED
      BY <2>1, Zenon DEF IsPath
<1>2. ASSUME NEW k, NEW x, k # "asset" PROVE IsPath(<<k, x>>)
  <2>1. IsList(<<k, x>>) /\ <<k, x>> # <<>> /\ <<k, x>>[1] # "asset"
      BY <1>2 DEF IsList, ToSet
  <2> QED
      BY <2>1, Zenon DEF IsPath
<1>3. ASSUME NEW k, NEW x, NEW y, k # "asset" PROVE IsPath(<<k, x, y>>)
  <2>1. IsList(<<k, x, y>>) /\ <<k, x, y>> # <<>> /\ <<k, x, y>>[1] # "asset"
      BY <1>3 DEF IsList, ToSet
  <2> QED
      BY <2>1, Zenon DEF IsPath
<1> QED
    BY <1>1, <1>2, <1>3

\* The albums, and the people.
ByTitle(s, req) == sortByTitle(s, LAMBDA a : Title[a], req)

LEMMA SortedNames ==
    ASSUME NEW s, IsList(s), \A x \in ToSet(s) : Title[x] \in Int, NEW req,
           NEW w, w = ByTitle(s, req),
           NEW cs, cs = [i \in DOMAIN w |-> cs[i]],
           \A i \in DOMAIN w : cs[i].id.path \in {<<"album", w[i]>>, <<"person", w[i]>>},
           NEW folder
    PROVE  IsNodes(cs) /\ InSort(cs, folder, req) /\ Len(cs) = Len(s)
<1> DEFINE key == [x \in ToSet(s) |-> Title[x]]
           up(n) == IF req.descending THEN -n ELSE n
<1>1. w = IF req.property = "dc:title"
          THEN SortFunc(s, [x \in ToSet(s) |-> IF req.descending THEN -key[x] ELSE key[x]]) ELSE s
  <2>1. [x \in ToSet(s) |-> IF req.descending THEN -key[x] ELSE key[x]]
        = [x \in ToSet(s) |-> IF req.descending THEN -Title[x] ELSE Title[x]]
      OBVIOUS
  <2> QED
      BY <2>1 DEF ByTitle, sortByTitle, SortBy
<1>2. DOMAIN key = ToSet(s) /\ \A y \in ToSet(s) : key[y] \in Int /\ key[y] = Title[y]
    OBVIOUS
<1>3. cs = [i \in DOMAIN w |-> cs[i]] /\ \A i \in DOMAIN w : cs[i].id.path \in {<<"album", w[i]>>, <<"person", w[i]>>}
    OBVIOUS
<1> HIDE DEF key
<1>4. /\ Reorders(w, s)
      /\ IF req.property = "dc:title"
         THEN \A i, j \in DOMAIN w : i < j => up(key[w[i]]) <= up(key[w[j]])
         ELSE w = s
    BY <1>1, <1>2, SortedByTitle
<1>5. IsList(w) /\ Len(w) = Len(s) /\ \A i \in DOMAIN w : w[i] \in ToSet(s)
    BY <1>4 DEF Reorders, ToSet
<1>6. ASSUME NEW i \in DOMAIN w
      PROVE  /\ IsPath(cs[i].id.path) /\ cs[i].id.path[1] \in {"album", "person"}
             /\ cs[i].id.path[Len(cs[i].id.path)] = w[i]
  <2> DEFINE p == cs[i].id.path
             x == w[i]
  <2>1. PICK kind \in {"album", "person"} : p = <<kind, x>>
      BY <1>3
  <2> HIDE DEF p, x
  <2>2. p[1] = kind /\ p[Len(p)] = x
      BY <2>1
  <2>3. IsPath(p)
      BY <2>1, FolderPaths
  <2> QED
      BY <2>2, <2>3 DEF p, x
<1>7. IsNodes(cs) /\ Len(cs) = Len(s) /\ DOMAIN cs = DOMAIN w
    BY <1>3, <1>5, <1>6, OnePerElement
<1>8. ASSUME NEW i \in DOMAIN w
      PROVE  SortKey(folder, cs[i].id, req) = IF req.property = "dc:title" THEN up(Title[w[i]]) ELSE 0
  <2> DEFINE id == cs[i].id
  <2>1. id.path[1] \in {"album", "person"} /\ id.path[Len(id.path)] = w[i]
      BY <1>6
  <2> HIDE DEF id
  <2>2. SortKey(folder, id, req) = IF req.property = "dc:title" THEN up(Title[w[i]]) ELSE 0
      BY <2>1 DEF SortKey, IsItem
  <2> QED
      BY <2>2 DEF id
<1>9. \A i, j \in DOMAIN cs : i < j => SortKey(folder, cs[i].id, req) <= SortKey(folder, cs[j].id, req)
  <2> TAKE i, j \in DOMAIN cs
  <2>1. /\ SortKey(folder, cs[i].id, req) = IF req.property = "dc:title" THEN up(key[w[i]]) ELSE 0
        /\ SortKey(folder, cs[j].id, req) = IF req.property = "dc:title" THEN up(key[w[j]]) ELSE 0
      BY <1>2, <1>5, <1>7, <1>8
  <2> QED
      BY <1>4, <1>7, <2>1
<1> QED
    BY <1>7, <1>9 DEF InSort

LEMMA Prefixed ==
    /\ \A k, x : <<k>> \o <<x>> = <<k, x>>
    /\ \A k, x, y : <<k>> \o <<x, y>> = <<k, x, y>>
<1>1. ASSUME NEW k, NEW b, IsList(b) PROVE /\ IsList(<<k>> \o b) /\ Len(<<k>> \o b) = 1 + Len(b)
                                           /\ (<<k>> \o b)[1] = k
                                           /\ \A i \in 1..Len(b) : (<<k>> \o b)[i + 1] = b[i]
  <2> DEFINE T == {k} \cup ToSet(b)
             a == <<k>>
  <2>1. a \in Seq(T) /\ Len(a) = 1 /\ a[1] = k
      OBVIOUS
  <2>2. b \in Seq(T) /\ Len(b) \in Nat
      BY <1>1 DEF IsList
  <2> HIDE DEF T, a
  <2>3. /\ a \o b \in Seq(T) /\ Len(a \o b) = Len(a) + Len(b)
        /\ \A i \in 1..Len(a) + Len(b) : (a \o b)[i] = IF i <= Len(a) THEN a[i] ELSE b[i - Len(a)]
      BY ONLY <2>1, <2>2, ConcatProperties
  <2>4. IsList(a \o b)
      BY <2>3, ListsAre
  <2>5. 1 \in 1..Len(a) + Len(b) /\ (a \o b)[1] = k
      BY <2>1, <2>2, <2>3
  <2>6. ASSUME NEW i \in 1..Len(b) PROVE (a \o b)[i + 1] = b[i]
    <3>1. i + 1 \in 1..Len(a) + Len(b) /\ ~(i + 1 <= Len(a)) /\ i + 1 - Len(a) = i
        BY <2>1, <2>2
    <3> QED
        BY <2>3, <3>1
  <2> QED
      BY <2>1, <2>3, <2>4, <2>5, <2>6 DEF a
<1>2. ASSUME NEW k, NEW x PROVE <<k>> \o <<x>> = <<k, x>>
  <2> DEFINE b == <<x>>
             e == <<k, x>>
             p == <<k>> \o b
  <2>1. IsList(b) /\ Len(b) = 1 /\ b[1] = x
      BY DEF IsList, ToSet
  <2>2. IsList(e) /\ Len(e) = 2 /\ e[1] = k /\ e[2] = x
      BY DEF IsList, ToSet
  <2> HIDE DEF b, e
  <2>3. IsList(p) /\ Len(p) = 1 + Len(b) /\ p[1] = k /\ \A i \in 1..Len(b) : p[i + 1] = b[i]
      BY <1>1, <2>1
  <2> HIDE DEF p
  <2>4. Len(p) = 2 /\ p[2] = x
      BY <2>1, <2>3
  <2>5. \A i \in 1..2 : p[i] = e[i]
    <3>1. \A i \in 1..2 : i = 1 \/ i = 2
        OBVIOUS
    <3> QED
        BY <2>2, <2>3, <2>4, <3>1
  <2>6. p = e
      BY <2>2, <2>3, <2>4, <2>5 DEF IsList
  <2> QED
      BY <2>6 DEF p, b, e
<1>3. ASSUME NEW k, NEW x, NEW y PROVE <<k>> \o <<x, y>> = <<k, x, y>>
  <2> DEFINE b == <<x, y>>
             e == <<k, x, y>>
             p == <<k>> \o b
  <2>1. IsList(b) /\ Len(b) = 2 /\ b[1] = x /\ b[2] = y
      BY DEF IsList, ToSet
  <2>2. IsList(e) /\ Len(e) = 3 /\ e[1] = k /\ e[2] = x /\ e[3] = y
      BY DEF IsList, ToSet
  <2> HIDE DEF b, e
  <2>3. IsList(p) /\ Len(p) = 1 + Len(b) /\ p[1] = k /\ \A i \in 1..Len(b) : p[i + 1] = b[i]
      BY <1>1, <2>1
  <2> HIDE DEF p
  <2>4. Len(p) = 3 /\ p[2] = x /\ p[3] = y
    <3>1. 1 \in 1..Len(b) /\ 2 \in 1..Len(b) /\ 1 + 1 = 2 /\ 2 + 1 = 3
        BY <2>1
    <3>2. p[1 + 1] = b[1] /\ p[2 + 1] = b[2]
        BY <2>3, <3>1
    <3> QED
        BY <2>1, <2>3, <3>1, <3>2
  <2>5. \A i \in 1..3 : p[i] = e[i]
    <3>1. \A i \in 1..3 : i = 1 \/ i = 2 \/ i = 3
        OBVIOUS
    <3> QED
        BY <2>2, <2>3, <2>4, <3>1
  <2>6. p = e
      BY <2>2, <2>3, <2>4, <2>5 DEF IsList
  <2> QED
      BY <2>6 DEF p, b, e
<1> QED
    BY <1>2, <1>3

\* The path of a bucket.
LEMMA BucketPaths ==
    ASSUME NEW b, IsYear(b) \/ IsMonth(b)
    PROVE  LET p == <<"timeline">> \o b IN IsPath(p) /\ p[1] = "timeline" /\ Tail(p) = b /\ b # <<>>
<1> DEFINE p == <<"timeline">> \o b
<1>1. CASE IsYear(b)
  <2>1. PICK y \in Nat : b = <<y>>
      BY <1>1 DEF IsYear
  <2>2. p = <<"timeline", y>>
      BY <2>1, Prefixed
  <2> HIDE DEF p
  <2>3. p[1] = "timeline" /\ Tail(p) = b /\ b # <<>>
      BY <2>1, <2>2
  <2>4. IsPath(p)
      BY <2>2, FolderPaths
  <2> QED
      BY <2>3, <2>4 DEF p
<1>2. CASE IsMonth(b)
  <2>1. PICK y \in Nat, d \in Nat : b = <<y, d>>
      BY <1>2 DEF IsMonth
  <2>2. p = <<"timeline", y, d>>
      BY <2>1, Prefixed
  <2> HIDE DEF p
  <2>3. p[1] = "timeline" /\ Tail(p) = b /\ b # <<>>
      BY <2>1, <2>2
  <2>4. IsPath(p)
      BY <2>2, FolderPaths
  <2> QED
      BY <2>3, <2>4 DEF p
<1> QED
    BY <1>1, <1>2

\* The folders of a timeline.
LEMMA SortedGroups ==
    ASSUME NEW media \in Seq(Assets), NEW month \in BOOLEAN, NEW year, NEW req, NEW user, NEW folder
    PROVE  LET groups == groupTimeline(media, month, year)
               cs == GroupFolders(user, groups, req).children
           IN  IsNodes(cs) /\ InSort(cs, folder, req) /\ Len(cs) = Len(groups)
<1> DEFINE kept == KeptOf(media, month, year)
           s == groupTimeline(media, month, year)
           w == sortByTitle(s, LAMBDA g : Label(g.bucket), req)
           cs == [i \in DOMAIN w |-> Child(Id(user, <<"timeline">> \o w[i].bucket), Len(w[i].assets))]
           key == [g \in ToSet(s) |-> Label(g.bucket)]
           up(n) == IF req.descending THEN -n ELSE n
           late(b) == IF b = Unknown THEN 1 ELSE -Label(b)
<1>1. GroupFolders(user, s, req).children = cs
    BY DEF GroupFolders, Listing
<1>2. cs = [i \in DOMAIN w |-> cs[i]] /\ \A i \in DOMAIN w : cs[i].id.path = <<"timeline">> \o w[i].bucket
    BY DEF Child, Id
<1>3. w = IF req.property = "dc:title"
          THEN SortFunc(s, [x \in ToSet(s) |-> IF req.descending THEN -key[x] ELSE key[x]]) ELSE s
  <2> HIDE DEF s
  <2>1. [x \in ToSet(s) |-> IF req.descending THEN -key[x] ELSE key[x]]
        = [x \in ToSet(s) |-> IF req.descending THEN -Label(x.bucket) ELSE Label(x.bucket)]
      OBVIOUS
  <2> QED
      BY <2>1 DEF sortByTitle, SortBy
<1> HIDE DEF w, cs
<1>4. GroupsOf(s, kept, month)
    BY GroupTimelineProperties
<1>5. ToSet(kept) \subseteq Assets
    BY WhereLists, ListsAre DEF KeptOf
<1> HIDE DEF s, kept
<1>6. IsList(s) /\ \A g \in ToSet(s) : IsYear(g.bucket) \/ IsMonth(g.bucket)
  <2>1. ASSUME NEW g \in ToSet(s) PROVE IsYear(g.bucket) \/ IsMonth(g.bucket)
    <3>1. PICK i \in DOMAIN s : g = s[i]
        BY DEF ToSet
    <3>2. \E a \in ToSet(kept) : g.bucket = timelineBucket(a, month)
        BY <1>4, <3>1 DEF GroupsOf
    <3> QED
        BY <1>5, <3>2, BucketKinds
  <2> QED
      BY <1>4, <2>1 DEF GroupsOf
<1>7. DOMAIN key = ToSet(s) /\ \A g \in ToSet(s) : key[g] \in Int /\ key[g] = Label(g.bucket)
    BY <1>6, LabelIsInt
<1> HIDE DEF key
<1>8. /\ Reorders(w, s)
      /\ IF req.property = "dc:title"
         THEN \A i, j \in DOMAIN w : i < j => up(key[w[i]]) <= up(key[w[j]])
         ELSE w = s
    BY <1>3, <1>6, <1>7, SortedByTitle, SMTT(20)
<1>9. IsList(w) /\ Len(w) = Len(s) /\ \A i \in DOMAIN w : w[i] \in ToSet(s)
    BY <1>8 DEF Reorders, ToSet
<1>10. ASSUME NEW i \in DOMAIN w
       PROVE  /\ IsPath(cs[i].id.path)
              /\ SortKey(folder, cs[i].id, req) =
                     IF req.property = "dc:title" THEN up(Label(w[i].bucket)) ELSE late(w[i].bucket)
  <2> DEFINE id == cs[i].id
             b == w[i].bucket
  <2>1. id.path = <<"timeline">> \o b /\ (IsYear(b) \/ IsMonth(b))
      BY <1>2, <1>6, <1>9
  <2> HIDE DEF id, b
  <2>2. IsPath(id.path) /\ id.path[1] = "timeline" /\ Tail(id.path) = b /\ b # <<>>
      BY <2>1, BucketPaths
  <2>3. SortKey(folder, id, req) = IF req.property = "dc:title" THEN up(Label(b)) ELSE late(b)
      BY <2>2 DEF SortKey, IsItem
  <2> QED
      BY <2>2, <2>3 DEF id, b
<1>11. IsNodes(cs) /\ Len(cs) = Len(s) /\ DOMAIN cs = DOMAIN w
    BY <1>2, <1>9, <1>10, OnePerElement
<1>12. ASSUME NEW i \in DOMAIN cs, NEW j \in DOMAIN cs, i < j
       PROVE  SortKey(folder, cs[i].id, req) <= SortKey(folder, cs[j].id, req)
  <2>1. CASE req.property = "dc:title"
    <3>1. up(key[w[i]]) <= up(key[w[j]])
        BY <1>8, <1>11, <1>12, <2>1
    <3>2. key[w[i]] = Label(w[i].bucket) /\ key[w[j]] = Label(w[j].bucket)
        BY <1>7, <1>9, <1>11
    <3> QED
        BY <1>10, <1>11, <2>1, <3>1, <3>2
  <2>2. CASE req.property # "dc:title"
    <3>1. w = s
        BY <1>8, <2>2
    <3>2. late(s[i].bucket) <= late(s[j].bucket)
        BY <1>4, <1>11, <1>12, <3>1 DEF GroupsOf
    <3> QED
        BY <1>10, <1>11, <2>2, <3>1, <3>2
  <2> QED
      BY <2>1, <2>2
<1>13. InSort(cs, folder, req)
    BY <1>12 DEF InSort
<1> QED
    BY <1>1, <1>11, <1>13 DEF s

-----------------------------------------------------------------------------
(* Places.  A map yields its keys in any order. *)

\* Sorting by keys that differ leaves no choice.
LEMMA OneOrder ==
    ASSUME NEW a, NEW b, IsList(a), IsList(b), ToSet(a) = ToSet(b), IsInjective(a), IsInjective(b),
           NEW key, \A x \in ToSet(a) : key[x] \in Int, \A x, y \in ToSet(a) : key[x] = key[y] => x = y,
           InOrder(a, key), InOrder(b, key)
    PROVE  a = b
<1>1. /\ Len(a) \in Nat /\ DOMAIN a = 1..Len(a) /\ Len(b) \in Nat /\ DOMAIN b = 1..Len(b)
      /\ \A i \in DOMAIN a : a[i] \in ToSet(a) /\ \E j \in DOMAIN b : a[i] = b[j]
      /\ \A i \in DOMAIN b : b[i] \in ToSet(a) /\ \E j \in DOMAIN a : b[i] = a[j]
  <2>1. /\ Len(a) \in Nat /\ DOMAIN a = 1..Len(a) /\ Len(b) \in Nat /\ DOMAIN b = 1..Len(b)
      BY ListLen
  <2>2. ToSet(a) = {a[i] : i \in DOMAIN a} /\ ToSet(b) = {b[i] : i \in DOMAIN b}
      BY DEF ToSet
  <2>3. \A i \in DOMAIN a : a[i] \in ToSet(a) /\ \E j \in DOMAIN b : a[i] = b[j]
    <3> TAKE i \in DOMAIN a
    <3>1. a[i] \in ToSet(a)
        BY <2>2
    <3>2. a[i] \in ToSet(b)
        BY <3>1
    <3> QED
        BY <2>2, <3>1, <3>2, Zenon
  <2>4. \A i \in DOMAIN b : b[i] \in ToSet(a) /\ \E j \in DOMAIN a : b[i] = a[j]
    <3> TAKE i \in DOMAIN b
    <3>1. b[i] \in ToSet(b)
        BY <2>2
    <3>2. b[i] \in ToSet(a)
        BY <3>1
    <3> QED
        BY <2>2, <3>2, Zenon
  <2> QED
      BY <2>1, <2>3, <2>4
<1> DEFINE Differ == {i \in Nat : i \in DOMAIN a /\ i \in DOMAIN b /\ a[i] # b[i]}
<1>2. Differ = {}
  <2> SUFFICES ASSUME Differ # {} PROVE FALSE
      OBVIOUS
  <2>1. PICK i \in Differ : \A j \in Differ : i <= j
      BY LeastNat
  <2>2. i \in DOMAIN a /\ i \in DOMAIN b /\ a[i] # b[i] /\ \A j \in DOMAIN a \cap DOMAIN b : j < i => a[j] = b[j]
      BY <1>1, <2>1
  <2>3. PICK j \in DOMAIN b : a[i] = b[j]
      BY <1>1, <2>2
  <2>4. PICK l \in DOMAIN a : b[i] = a[l]
      BY <1>1, <2>2
  <2> HIDE DEF Differ
  <2>5. i < j
    <3>1. i # j
        BY <2>2, <2>3
    <3>2. CASE j < i
      <4>1. j \in DOMAIN a
          BY <1>1, <2>2, <3>2
      <4>2. a[j] = a[i]
          BY <2>2, <2>3, <3>2, <4>1
      <4> QED
          BY <2>2, <3>1, <4>1, <4>2 DEF IsInjective
    <3> QED
        BY <1>1, <2>2, <3>1, <3>2
  <2>6. i < l
    <3>1. i # l
        BY <2>2, <2>4
    <3>2. CASE l < i
      <4>1. l \in DOMAIN b
          BY <1>1, <2>2, <3>2
      <4>2. b[l] = b[i]
          BY <2>2, <2>4, <3>2, <4>1
      <4> QED
          BY <2>2, <3>1, <4>1, <4>2 DEF IsInjective
    <3> QED
        BY <1>1, <2>2, <3>1, <3>2
  <2>7. key[a[i]] <= key[a[l]] /\ key[b[i]] <= key[b[j]]
      BY <2>2, <2>5, <2>6 DEF InOrder
  <2>8. key[a[i]] \in Int /\ key[b[i]] \in Int
      BY <1>1, <2>2
  <2>9. key[a[i]] = key[b[i]]
      BY <2>3, <2>4, <2>7, <2>8
  <2> QED
      BY <1>1, <2>2, <2>9
<1>0. Len(a) \in Nat /\ DOMAIN a = 1..Len(a) /\ Len(b) \in Nat /\ DOMAIN b = 1..Len(b)
    BY ListLen
<1>3. \A i \in DOMAIN a \cap DOMAIN b : a[i] = b[i]
  <2> TAKE i \in DOMAIN a \cap DOMAIN b
  <2>1. i \in Nat /\ i \in DOMAIN a /\ i \in DOMAIN b
      BY <1>0
  <2> QED
      BY <1>2, <2>1
<1>4. ~(Len(a) < Len(b))
  <2> SUFFICES ASSUME Len(a) < Len(b) PROVE FALSE
      OBVIOUS
  <2> DEFINE i == Len(a) + 1
  <2>1. i \in DOMAIN b /\ i \notin DOMAIN a
      BY <1>1
  <2>2. PICK j \in DOMAIN a : b[i] = a[j]
      BY <1>1, <2>1
  <2>3. j \in DOMAIN b /\ b[j] = b[i]
      BY <1>1, <1>3, <2>2
  <2> QED
      BY <2>1, <2>2, <2>3 DEF IsInjective
<1>5. ~(Len(b) < Len(a))
  <2> SUFFICES ASSUME Len(b) < Len(a) PROVE FALSE
      OBVIOUS
  <2> DEFINE i == Len(b) + 1
  <2>1. i \in DOMAIN a /\ i \notin DOMAIN b
      BY <1>1
  <2>2. PICK j \in DOMAIN b : a[i] = b[j]
      BY <1>1, <2>1
  <2>3. j \in DOMAIN a /\ a[j] = a[i]
      BY <1>1, <1>3, <2>2
  <2> QED
      BY <2>1, <2>2, <2>3 DEF IsInjective
<1>6. Len(a) = Len(b)
  <2> DEFINE n == Len(a)
             m == Len(b)
  <2>1. n \in Nat /\ m \in Nat /\ ~(n < m) /\ ~(m < n)
      BY <1>0, <1>4, <1>5
  <2> HIDE DEF n, m
  <2>2. n = m
      BY <2>1
  <2> QED
      BY <2>2 DEF n, m
<1>7. \A i \in 1..Len(a) : a[i] = b[i]
    BY <1>0, <1>3, <1>6
<1> QED
    BY <1>6, <1>7, SeqEqual DEF IsList

\* The names of places in the order of their containers; key is the rank of their titles.
PlacesInOrder(names, order, key, req) ==
    LET found == Where(order, names)
        base  == SortFunc(found, [x \in ToSet(found) |-> key[x]])
    IN  IF req.property = "dc:title"
        THEN SortFunc(base, [x \in ToSet(base) |-> IF req.descending THEN -key[x] ELSE key[x]]) ELSE base

\* The keys they are sorted by.
PlaceKeys(names, key, req) == [x \in names |-> IF req.property = "dc:title" /\ req.descending THEN -key[x] ELSE key[x]]

LEMMA PlacesAreSorted ==
    ASSUME NEW o \in Seq(STRING), IsInjective(o), NEW names, names \subseteq ToSet(o),
           NEW key, key = [x \in names |-> key[x]], \A x \in names : key[x] \in Int, NEW req
    PROVE  LET w == PlacesInOrder(names, o, key, req)
           IN  IsList(w) /\ ToSet(w) = names /\ IsInjective(w) /\ InOrder(w, PlaceKeys(names, key, req))
<1> DEFINE f == Where(o, names)
           b == SortFunc(f, [x \in ToSet(f) |-> key[x]])
           k == PlaceKeys(names, key, req)
           w == PlacesInOrder(names, o, key, req)
<1>1. IsList(f) /\ ToSet(f) = names /\ IsInjective(f)
  <2>1. ToSet(f) = ToSet(o) \cap names /\ IsList(f) /\ IsInjective(f)
      BY WhereLists
  <2> QED
      BY <2>1
<1>2. w = IF req.property = "dc:title"
          THEN SortFunc(b, [x \in ToSet(b) |-> IF req.descending THEN -key[x] ELSE key[x]]) ELSE b
    BY DEF PlacesInOrder
<1> HIDE DEF f
<1>3. IsList(b) /\ ToSet(b) = names /\ IsInjective(b) /\ InOrder(b, key)
  <2>1. [x \in ToSet(f) |-> key[x]] = key
      BY <1>1
  <2>2. Reorders(SortFunc(f, key), f) /\ InOrder(SortFunc(f, key), key)
      BY <1>1, SortedReorders
  <2>3. b = SortFunc(f, key)
      BY <2>1
  <2> HIDE DEF b
  <2> QED
      BY <1>1, <2>2, <2>3 DEF Reorders
<1> HIDE DEF b, w
<1>4. \A x \in names : k[x] \in Int
    BY DEF PlaceKeys
<1>5. CASE req.property = "dc:title"
  <2>1. [x \in ToSet(b) |-> IF req.descending THEN -key[x] ELSE key[x]] = k
      BY <1>3, <1>5 DEF PlaceKeys
  <2>2. w = SortFunc(b, k)
      BY <1>2, <1>5, <2>1
  <2> HIDE DEF k
  <2>3. Reorders(SortFunc(b, k), b) /\ InOrder(SortFunc(b, k), k)
      BY <1>3, <1>4, SortedReorders
  <2> QED
      BY <1>3, <2>2, <2>3 DEF Reorders, w, k
<1>6. CASE req.property # "dc:title"
  <2>1. k = key
    <3>1. k = [x \in names |-> key[x]]
        BY <1>6 DEF PlaceKeys
    <3> QED
        BY <3>1
  <2> HIDE DEF k
  <2>2. IsList(w) /\ ToSet(w) = names /\ IsInjective(w) /\ InOrder(w, k)
      BY <1>2, <1>3, <1>6, <2>1
  <2> QED
      BY <2>2 DEF w, k
<1> QED
    BY <1>5, <1>6

LEMMA PlacesInAnyOrder ==
    ASSUME NEW o \in Seq(STRING), IsInjective(o), NEW names, names \subseteq ToSet(o),
           NEW other \in Seq(STRING), IsInjective(other), names \subseteq ToSet(other),
           NEW key, key = [x \in names |-> key[x]], \A x \in names : key[x] \in Int, NEW req,
           \A x, y \in names : key[x] = key[y] => x = y
    PROVE  PlacesInOrder(names, other, key, req) = PlacesInOrder(names, o, key, req)
<1> DEFINE a == PlacesInOrder(names, o, key, req)
           b == PlacesInOrder(names, other, key, req)
           k == PlaceKeys(names, key, req)
<1>1. IsList(a) /\ ToSet(a) = names /\ IsInjective(a) /\ InOrder(a, k)
    BY PlacesAreSorted
<1>2. IsList(b) /\ ToSet(b) = names /\ IsInjective(b) /\ InOrder(b, k)
    BY PlacesAreSorted
<1>3. (\A x \in names : k[x] \in Int) /\ \A x, y \in names : k[x] = k[y] => x = y
    BY DEF PlaceKeys
<1> HIDE DEF a, b, k
<1>4. b = a
    BY <1>1, <1>2, <1>3, OneOrder
<1> QED
    BY <1>4 DEF a, b

\* Two places of the same title, among the children of a folder.
Ties(cs, folder) ==
    \E i, j \in DOMAIN cs :
        /\ i # j /\ cs[i].id.path[1] = "place" /\ cs[j].id.path[1] = "place"
        /\ SortKey(folder, cs[i].id, NoSort) = SortKey(folder, cs[j].id, NoSort)

\* The containers F of places.
Places(names, order, key, F, req) ==
    [i \in DOMAIN PlacesInOrder(names, order, key, req) |-> F[PlacesInOrder(names, order, key, req)[i]]]

\* The map's order does not matter where there are no ties.
OneListing(names, order, key, F, folder, req) ==
    ~Ties(Places(names, order, key, F, NoSort), folder) =>
        \A other \in MapOrders : Places(names, other, key, F, req) = Places(names, order, key, F, req)

LEMMA PlacesAreListed ==
    ASSUME NEW order \in MapOrders, NEW names, \A o \in MapOrders : names \subseteq ToSet(o),
           NEW key, key = [x \in names |-> key[x]], \A x \in names : key[x] \in Int /\ key[x] = Title[cityTitle(x)],
           NEW F, \A x \in names : LET p == F[x].id.path IN IsPath(p) /\ p[1] = "place" /\ p[Len(p)] = x,
           NEW folder, NEW req, IsReq(req)
    PROVE  /\ IsNodes(Places(names, order, key, F, req))
           /\ InSort(Places(names, order, key, F, req), folder, req)
           /\ OneListing(names, order, key, F, folder, req)
<1> DEFINE w(r) == PlacesInOrder(names, order, key, r)
           k(r, x) == IF r.property = "dc:title" /\ r.descending THEN -key[x] ELSE key[x]
           cs(r) == Places(names, order, key, F, r)
<1>1. ASSUME NEW r PROVE /\ IsList(w(r)) /\ ToSet(w(r)) = names
                         /\ \A i, j \in DOMAIN w(r) : i < j => k(r, w(r)[i]) <= k(r, w(r)[j])
  <2>1. order \in Seq(STRING) /\ IsInjective(order) /\ names \subseteq ToSet(order)
      BY MapsYieldAllKeys DEF MapsYieldAllKeys
  <2>2. \A x \in names : key[x] \in Int
      OBVIOUS
  <2> DEFINE v == w(r)
             q == PlaceKeys(names, key, r)
  <2>3. IsList(v) /\ ToSet(v) = names /\ InOrder(v, q)
      BY <2>1, <2>2, PlacesAreSorted
  <2>4. \A x \in names : q[x] = k(r, x)
      BY DEF PlaceKeys
  <2> HIDE DEF v, q
  <2>5. \A i \in DOMAIN v : v[i] \in names
      BY <2>3 DEF ToSet
  <2>6. \A i, j \in DOMAIN v : i < j => q[v[i]] <= q[v[j]]
      BY <2>3 DEF InOrder
  <2>7. \A i, j \in DOMAIN v : i < j => k(r, v[i]) <= k(r, v[j])
      BY <2>4, <2>5, <2>6
  <2> HIDE DEF k
  <2> QED
      BY <2>3, <2>7 DEF v
<1>2. ASSUME NEW r PROVE /\ cs(r) = [i \in DOMAIN w(r) |-> cs(r)[i]]
                         /\ \A i \in DOMAIN w(r) : cs(r)[i] = F[w(r)[i]] /\ w(r)[i] \in names
  <2>1. cs(r) = [i \in DOMAIN w(r) |-> F[w(r)[i]]]
      BY DEF Places
  <2>2. ToSet(w(r)) = names
      BY <1>1
  <2> HIDE DEF w, cs
  <2> QED
      BY <2>1, <2>2 DEF ToSet
<1> HIDE DEF w, cs
<1>3. ASSUME NEW r PROVE IsNodes(cs(r)) /\ DOMAIN cs(r) = DOMAIN w(r)
  <2>1. \A i \in DOMAIN w(r) : IsPath(cs(r)[i].id.path)
      BY <1>2
  <2> QED
      BY <1>1, <1>2, <2>1, OnePerElement, ZenonT(60)
<1>4. ASSUME NEW r, IsReq(r), NEW i \in DOMAIN w(r)
      PROVE  SortKey(folder, cs(r)[i].id, r) = k(r, w(r)[i]) /\ cs(r)[i].id.path[1] = "place"
  <2> DEFINE id == cs(r)[i].id
             x == w(r)[i]
             p == F[x].id.path
  <2>1. id.path = p /\ x \in names
      BY <1>2
  <2>2. p[1] = "place" /\ p[Len(p)] = x /\ key[x] = Title[cityTitle(x)]
      BY <2>1
  <2>3. id.path[1] = "place" /\ id.path[Len(id.path)] = x
      BY <2>1, <2>2
  <2> HIDE DEF id, x, p
  <2>4. SortKey(folder, id, r) = IF r.property = "dc:title"
                                 THEN (IF r.descending THEN -key[x] ELSE key[x]) ELSE key[x]
      BY <2>2, <2>3 DEF SortKey, IsItem
  <2> QED
      BY <2>3, <2>4 DEF id, x
<1>5. InSort(cs(req), folder, req)
  <2> SUFFICES ASSUME NEW i \in DOMAIN cs(req), NEW j \in DOMAIN cs(req), i < j
               PROVE  SortKey(folder, cs(req)[i].id, req) <= SortKey(folder, cs(req)[j].id, req)
      BY DEF InSort
  <2>1. i \in DOMAIN w(req) /\ j \in DOMAIN w(req)
      BY <1>3
  <2>2. /\ SortKey(folder, cs(req)[i].id, req) = k(req, w(req)[i])
        /\ SortKey(folder, cs(req)[j].id, req) = k(req, w(req)[j])
      BY <1>4, <2>1
  <2>3. k(req, w(req)[i]) <= k(req, w(req)[j])
      BY <1>1, <2>1
  <2> QED
      BY <2>2, <2>3
<1>6. ASSUME ~Ties(cs(NoSort), folder), NEW other \in MapOrders
      PROVE  Places(names, other, key, F, req) = cs(req)
  <2>1. \A x, y \in names : key[x] = key[y] => x = y
    <3> SUFFICES ASSUME NEW x \in names, NEW y \in names, key[x] = key[y], x # y PROVE FALSE
        OBVIOUS
    <3> DEFINE v == w(NoSort)
               c == cs(NoSort)
    <3>1. ToSet(v) = names /\ DOMAIN c = DOMAIN v
        BY <1>1, <1>3
    <3>2. IsReq(NoSort) /\ NoSort.property = ""
        BY DEF IsReq, NoSort
    <3>3. \A i \in DOMAIN v : SortKey(folder, c[i].id, NoSort) = key[v[i]] /\ c[i].id.path[1] = "place"
        BY <1>4, <3>2
    <3> HIDE DEF v, c
    <3>4. PICK i \in DOMAIN v, j \in DOMAIN v : v[i] = x /\ v[j] = y
        BY <3>1 DEF ToSet
    <3>5. /\ i \in DOMAIN c /\ j \in DOMAIN c /\ i # j
          /\ c[i].id.path[1] = "place" /\ c[j].id.path[1] = "place"
          /\ SortKey(folder, c[i].id, NoSort) = SortKey(folder, c[j].id, NoSort)
      <4>1. i \in DOMAIN c /\ j \in DOMAIN c /\ i # j
          BY <3>1, <3>4
      <4>2. c[i].id.path[1] = "place" /\ c[j].id.path[1] = "place"
          BY <3>3
      <4>3. SortKey(folder, c[i].id, NoSort) = key[x] /\ SortKey(folder, c[j].id, NoSort) = key[y]
        <5>1. SortKey(folder, c[i].id, NoSort) = key[v[i]] /\ SortKey(folder, c[j].id, NoSort) = key[v[j]]
            BY <3>3
        <5> QED
            BY <3>4, <5>1
      <4> QED
          BY <4>1, <4>2, <4>3
    <3>6. Ties(c, folder)
        BY <3>5, Zenon DEF Ties
    <3> QED
        BY <1>6, <3>6 DEF c
  <2>2. PlacesInOrder(names, other, key, req) = w(req)
    <3>1. /\ order \in Seq(STRING) /\ IsInjective(order) /\ names \subseteq ToSet(order)
          /\ other \in Seq(STRING) /\ IsInjective(other) /\ names \subseteq ToSet(other)
        BY <1>6, MapsYieldAllKeys DEF MapsYieldAllKeys
    <3>0. \A x \in names : key[x] \in Int
        OBVIOUS
    <3>2. PlacesInOrder(names, other, key, req) = PlacesInOrder(names, order, key, req)
        BY <2>1, <3>1, <3>0, PlacesInAnyOrder
    <3> QED
        BY <3>2 DEF w
  <2> QED
      BY <2>2 DEF Places, cs, w
<1>7. OneListing(names, order, key, F, folder, req)
    BY <1>6 DEF OneListing, cs
<1> QED
    BY <1>3, <1>5, <1>7 DEF cs

LEMMA PlacesFound ==
    ASSUME NEW order \in MapOrders, NEW names, names \subseteq ToSet(order),
           NEW key, \A x \in names : key[x] \in Int
    PROVE  LET found == Where(order, names)
           IN  /\ ToSet(found) = names
               /\ ToSet(SortFunc(found, [x \in ToSet(found) |-> key[x]])) = names
<1> DEFINE f == Where(order, names)
           k == [x \in ToSet(f) |-> key[x]]
<1>1. order \in Seq(STRING)
    BY MapsYieldAllKeys DEF MapsYieldAllKeys
<1>2. ToSet(f) = ToSet(order) \cap names /\ IsList(f)
    BY <1>1, WhereLists
<1>3. ToSet(f) = names
    BY <1>2
<1>4. \A y \in ToSet(f) : k[y] \in Int
    BY <1>3
<1> HIDE DEF f, k
<1>5. Reorders(SortFunc(f, k), f)
    BY <1>2, <1>4, SortedReorders
<1> QED
    BY <1>3, <1>5 DEF Reorders, f, k

\* The assets of a place, and the places of assets.
LEMMA PlacesOfAssets ==
    ASSUME NEW media \in Seq(Assets), NEW c, NEW city
    PROVE  /\ InCity(media, c, city) \in Seq(Assets)
           /\ LatestFirst(media) => LatestFirst(InCity(media, c, city))
           /\ \A x \in Countries(media) : x # "" /\ \E a \in Assets : x = Place[a][1]
           /\ \A x \in Cities(media, c) : \E a \in Assets : x = Place[a][2]
<1> DEFINE located == {a \in ToSet(media) : Place[a][1] # ""}
           l == Where(media, located)
           incountry == {a \in ToSet(media) : Place[a][1] = c}
           k == Where(l, incountry)
           incity == {a \in ToSet(media) : Place[a][2] = city}
<1>1. l \in Seq(Assets) /\ ToSet(l) = ToSet(media) \cap located /\ (LatestFirst(media) => LatestFirst(l))
    BY WhereLists, LatestFirstWhere
<1>2. Located(media) = l
    BY DEF Located
<1>3. ToSet(l) \subseteq Assets /\ \A a \in ToSet(l) : Place[a][1] # ""
    BY <1>1, ListsAre
<1> HIDE DEF l
<1>4. InCountry(media, c) = k
    BY <1>2 DEF InCountry
<1>5. k \in Seq(Assets) /\ ToSet(k) \subseteq Assets /\ (LatestFirst(media) => LatestFirst(k))
    BY <1>1, WhereLists, LatestFirstWhere, ListsAre
<1> HIDE DEF k
<1>6. InCity(media, c, city) = Where(k, incity)
    BY <1>4 DEF InCity
<1>7. InCity(media, c, city) \in Seq(Assets) /\ (LatestFirst(media) => LatestFirst(InCity(media, c, city)))
    BY <1>5, <1>6, WhereLists, LatestFirstWhere
<1>8. Countries(media) = {Place[a][1] : a \in ToSet(l)}
    BY <1>2 DEF Countries
<1>9. Cities(media, c) = {Place[a][2] : a \in ToSet(k)}
    BY <1>4 DEF Cities
<1> QED
    BY <1>3, <1>5, <1>7, <1>8, <1>9

LEMMA CountriesListed ==
    ASSUME NEW media \in Seq(Assets), NEW order \in MapOrders, NEW id, id.path = <<"places">>
    PROVE  LET names == Countries(media)
               key == [c \in names |-> Title[c]]
               F == [c \in names |-> Child(Id(id.user, <<"place">> \o <<c>>), Cardinality(Cities(media, c)))]
           IN  /\ \A x \in names : key[x] \in Int /\ key[x] = Title[cityTitle(x)]
               /\ \A o \in MapOrders : names \subseteq ToSet(o)
               /\ \A x \in names : LET p == F[x].id.path IN IsPath(p) /\ p[1] = "place" /\ p[Len(p)] = x
               /\ \A req : browsePlaces(id, media, order, req) = Listing(Places(names, order, key, F, req))
<1> DEFINE names == Countries(media)
           key == [c \in names |-> Title[c]]
           child(c) == Child(Id(id.user, <<"place">> \o <<c>>), Cardinality(Cities(media, c)))
           F == [c \in names |-> child(c)]
<1>1. \A x \in names : x # "" /\ \E a \in Assets : x = Place[a][1]
    BY PlacesOfAssets
<1> HIDE DEF names
<1>2. \A x \in names : key[x] \in Int /\ key[x] = Title[cityTitle(x)]
    BY <1>1, TitlesAreRanked DEF TitlesAreRanked, cityTitle
<1>3. \A o \in MapOrders : names \subseteq ToSet(o)
    BY <1>1, MapsYieldAllKeys DEF MapsYieldAllKeys
<1>4. ASSUME NEW x \in names PROVE LET p == F[x].id.path IN IsPath(p) /\ p[1] = "place" /\ p[Len(p)] = x
  <2> DEFINE p == F[x].id.path
  <2>1. p = <<"place">> \o <<x>>
      BY DEF Child, Id
  <2>2. p = <<"place", x>>
      BY <2>1, Prefixed
  <2> HIDE DEF p
  <2>3. p[1] = "place" /\ p[Len(p)] = x
      BY <2>2
  <2>4. IsPath(p)
      BY <2>2, FolderPaths
  <2> QED
      BY <2>3, <2>4 DEF p
<1>5. ASSUME NEW req PROVE browsePlaces(id, media, order, req) = Listing(Places(names, order, key, F, req))
  <2> DEFINE found == Where(order, names)
             base == SortFunc(found, [x \in ToSet(found) |-> key[x]])
             w == PlacesInOrder(names, order, key, req)
  <2>1. ToSet(found) = names /\ ToSet(base) = names
    <3>1. names \subseteq ToSet(order) /\ \A x \in names : key[x] \in Int
        BY <1>2, <1>3
    <3> HIDE DEF key
    <3> QED
        BY <3>1, PlacesFound
  <2>2. [x \in ToSet(found) |-> IF FALSE THEN -Title[x] ELSE Title[x]] = [x \in ToSet(found) |-> key[x]]
    <3> HIDE DEF found
    <3> QED
        BY <2>1
  <2>3. [x \in ToSet(base) |-> IF req.descending THEN -Title[x] ELSE Title[x]]
        = [x \in ToSet(base) |-> IF req.descending THEN -key[x] ELSE key[x]]
    <3> HIDE DEF base
    <3> QED
        BY <2>1
  <2>4. SortBy(found, LAMBDA x : Title[x], FALSE) = base
      BY <2>2 DEF SortBy
  <2>5. sortByTitle(base, LAMBDA x : Title[x], req) = w
      BY <2>3 DEF sortByTitle, SortBy, PlacesInOrder
  <2>6. PlaceFolders(names, order, LAMBDA c : c, LAMBDA c : child(c), req) = Listing([i \in DOMAIN w |-> child(w[i])])
    <3> HIDE DEF child, w, base, found
    <3> QED
        BY <2>4, <2>5 DEF PlaceFolders, found
  <2>7. \A i \in DOMAIN w : w[i] \in names
    <3>1. order \in Seq(STRING) /\ IsInjective(order) /\ names \subseteq ToSet(order)
        BY <1>3, MapsYieldAllKeys DEF MapsYieldAllKeys
    <3>2. ToSet(w) = names
        BY <1>2, <3>1, PlacesAreSorted
    <3> HIDE DEF w
    <3> QED
        BY <3>2 DEF ToSet
  <2>8. [i \in DOMAIN w |-> child(w[i])] = Places(names, order, key, F, req)
    <3>1. [i \in DOMAIN w |-> child(w[i])] = [i \in DOMAIN w |-> F[w[i]]]
      <4> HIDE DEF w, child
      <4> QED
          BY <2>7
    <3> QED
        BY <3>1 DEF Places
  <2>9. browsePlaces(id, media, order, req) = PlaceFolders(names, order, LAMBDA c : c, LAMBDA c : child(c), req)
      BY DEF browsePlaces, names
  <2> QED
      BY <2>6, <2>8, <2>9
<1> QED
    BY <1>2, <1>3, <1>4, <1>5 DEF names

LEMMA NothingInSort == \A folder, req : IsNodes(<<>>) /\ InSort(<<>>, folder, req)
BY DEF IsNodes, IsList, InSort, ToSet

LEMMA CitiesListed ==
    ASSUME NEW media \in Seq(Assets), NEW order \in MapOrders, NEW id,
           Len(id.path) = 2, id.path # <<"places">>, id.path[2] \in Countries(media)
    PROVE  LET names == Cities(media, id.path[2])
               key == [c \in names |-> Title[cityTitle(c)]]
               F == [c \in names |-> Child(Id(id.user, <<"place">> \o <<id.path[2], c>>), Len(InCity(media, id.path[2], c)))]
           IN  /\ \A x \in names : key[x] \in Int /\ key[x] = Title[cityTitle(x)]
               /\ \A o \in MapOrders : names \subseteq ToSet(o)
               /\ \A x \in names : LET p == F[x].id.path IN IsPath(p) /\ p[1] = "place" /\ p[Len(p)] = x
               /\ \A req : browsePlaces(id, media, order, req) = Listing(Places(names, order, key, F, req))
<1> DEFINE names == Cities(media, id.path[2])
           key == [c \in names |-> Title[cityTitle(c)]]
           child(c) == Child(Id(id.user, <<"place">> \o <<id.path[2], c>>), Len(InCity(media, id.path[2], c)))
           F == [c \in names |-> child(c)]
<1>1. \A x \in names : \E a \in Assets : x = Place[a][2]
    BY PlacesOfAssets
<1> HIDE DEF names
<1>2. \A x \in names : key[x] \in Int /\ key[x] = Title[cityTitle(x)]
    BY <1>1, TitlesAreRanked DEF TitlesAreRanked
<1>3. \A o \in MapOrders : names \subseteq ToSet(o)
    BY <1>1, MapsYieldAllKeys DEF MapsYieldAllKeys
<1>4. ASSUME NEW x \in names PROVE LET p == F[x].id.path IN IsPath(p) /\ p[1] = "place" /\ p[Len(p)] = x
  <2> DEFINE p == F[x].id.path
  <2>1. p = <<"place">> \o <<id.path[2], x>>
      BY DEF Child, Id
  <2>2. p = <<"place", id.path[2], x>>
      BY <2>1, Prefixed
  <2> HIDE DEF p
  <2>3. p[1] = "place" /\ p[Len(p)] = x
      BY <2>2
  <2>4. IsPath(p)
      BY <2>2, FolderPaths
  <2> QED
      BY <2>3, <2>4 DEF p
<1>5. ASSUME NEW req PROVE browsePlaces(id, media, order, req) = Listing(Places(names, order, key, F, req))
  <2> DEFINE found == Where(order, names)
             base == SortFunc(found, [x \in ToSet(found) |-> key[x]])
             w == PlacesInOrder(names, order, key, req)
  <2>1. ToSet(found) = names /\ ToSet(base) = names
    <3>1. names \subseteq ToSet(order) /\ \A x \in names : key[x] \in Int
        BY <1>2, <1>3
    <3> HIDE DEF key
    <3> QED
        BY <3>1, PlacesFound
  <2>2. [x \in ToSet(found) |-> IF FALSE THEN -Title[cityTitle(x)] ELSE Title[cityTitle(x)]] = [x \in ToSet(found) |-> key[x]]
    <3> HIDE DEF found
    <3> QED
        BY <2>1
  <2>3. [x \in ToSet(base) |-> IF req.descending THEN -Title[cityTitle(x)] ELSE Title[cityTitle(x)]]
        = [x \in ToSet(base) |-> IF req.descending THEN -key[x] ELSE key[x]]
    <3> HIDE DEF base
    <3> QED
        BY <2>1
  <2>4. SortBy(found, LAMBDA x : Title[cityTitle(x)], FALSE) = base
      BY <2>2 DEF SortBy
  <2>5. sortByTitle(base, LAMBDA x : Title[cityTitle(x)], req) = w
      BY <2>3 DEF sortByTitle, SortBy, PlacesInOrder
  <2>6. PlaceFolders(names, order, cityTitle, LAMBDA c : child(c), req) = Listing([i \in DOMAIN w |-> child(w[i])])
    <3> HIDE DEF child, w, base, found
    <3> QED
        BY <2>4, <2>5 DEF PlaceFolders, found
  <2>7. \A i \in DOMAIN w : w[i] \in names
    <3>1. order \in Seq(STRING) /\ IsInjective(order) /\ names \subseteq ToSet(order)
        BY <1>3, MapsYieldAllKeys DEF MapsYieldAllKeys
    <3>2. ToSet(w) = names
        BY <1>2, <3>1, PlacesAreSorted
    <3> HIDE DEF w
    <3> QED
        BY <3>2 DEF ToSet
  <2>8. [i \in DOMAIN w |-> child(w[i])] = Places(names, order, key, F, req)
    <3>1. [i \in DOMAIN w |-> child(w[i])] = [i \in DOMAIN w |-> F[w[i]]]
      <4> HIDE DEF w, child
      <4> QED
          BY <2>7
    <3> QED
        BY <3>1 DEF Places
  <2>9. browsePlaces(id, media, order, req) = PlaceFolders(names, order, cityTitle, LAMBDA c : child(c), req)
      BY DEF browsePlaces, names
  <2> QED
      BY <2>6, <2>8, <2>9
<1> QED
    BY <1>2, <1>3, <1>4, <1>5 DEF names

\* A folder of places, or of the items of a city.
LEMMA PlacesInSort ==
    ASSUME NEW media \in Seq(Assets), NEW order \in MapOrders, NEW req, IsReq(req), NEW id
    PROVE  LET cs == browsePlaces(id, media, order, req).children
           IN  IsNodes(cs) /\ (req # NoSort \/ LatestFirst(media) => InSort(cs, id, req))
<1>1. CASE id.path = <<"places">>
  <2> DEFINE names == Countries(media)
             key == [c \in names |-> Title[c]]
             F == [c \in names |-> Child(Id(id.user, <<"place">> \o <<c>>), Cardinality(Cities(media, c)))]
             cs == Places(names, order, key, F, req)
  <2>1. /\ \A x \in names : key[x] \in Int /\ key[x] = Title[cityTitle(x)]
        /\ \A o \in MapOrders : names \subseteq ToSet(o)
        /\ \A x \in names : LET p == F[x].id.path IN IsPath(p) /\ p[1] = "place" /\ p[Len(p)] = x
        /\ browsePlaces(id, media, order, req) = Listing(cs)
      BY <1>1, CountriesListed, SMTT(20)
  <2>2. key = [x \in names |-> key[x]]
      OBVIOUS
  <2> HIDE DEF names, key, F
  <2>3. IsNodes(cs) /\ InSort(cs, id, req)
      BY <2>1, <2>2, PlacesAreListed
  <2> HIDE DEF cs
  <2> QED
      BY <2>1, <2>3 DEF Listing
<1>2. CASE id.path # <<"places">> /\ Len(id.path) = 2 /\ id.path[2] \in Countries(media)
  <2> DEFINE names == Cities(media, id.path[2])
             key == [c \in names |-> Title[cityTitle(c)]]
             F == [c \in names |-> Child(Id(id.user, <<"place">> \o <<id.path[2], c>>), Len(InCity(media, id.path[2], c)))]
             cs == Places(names, order, key, F, req)
  <2>1. /\ \A x \in names : key[x] \in Int /\ key[x] = Title[cityTitle(x)]
        /\ \A o \in MapOrders : names \subseteq ToSet(o)
        /\ \A x \in names : LET p == F[x].id.path IN IsPath(p) /\ p[1] = "place" /\ p[Len(p)] = x
        /\ browsePlaces(id, media, order, req) = Listing(cs)
      BY <1>2, CitiesListed
  <2>2. key = [x \in names |-> key[x]]
      OBVIOUS
  <2> HIDE DEF names, key, F
  <2>3. IsNodes(cs) /\ InSort(cs, id, req)
      BY <2>1, <2>2, PlacesAreListed
  <2> HIDE DEF cs
  <2> QED
      BY <2>1, <2>3 DEF Listing
<1>3. CASE /\ id.path # <<"places">> /\ ~(Len(id.path) = 2 /\ id.path[2] \in Countries(media))
           /\ Len(id.path) = 3 /\ InCity(media, id.path[2], id.path[3]) # <<>>
  <2> DEFINE s == InCity(media, id.path[2], id.path[3])
  <2>1. browsePlaces(id, media, order, req) = assetItems(id.user, s, req)
      BY <1>3 DEF browsePlaces
  <2>2. s \in Seq(Assets) /\ (LatestFirst(media) => LatestFirst(s))
      BY PlacesOfAssets
  <2> HIDE DEF s
  <2> QED
      BY <2>1, <2>2, SortedItems
<1>4. CASE /\ id.path # <<"places">> /\ ~(Len(id.path) = 2 /\ id.path[2] \in Countries(media))
           /\ ~(Len(id.path) = 3 /\ InCity(media, id.path[2], id.path[3]) # <<>>)
  <2>1. browsePlaces(id, media, order, req).children = <<>>
      BY <1>4 DEF browsePlaces, NoListing
  <2> QED
      BY <2>1, NothingInSort
<1> QED
    BY <1>1, <1>2, <1>3, <1>4

\* It does not depend on the map's order where no two titles are the same.
LEMMA PlacesWithoutTies ==
    ASSUME NEW media \in Seq(Assets), NEW order \in MapOrders, NEW other \in MapOrders, NEW req, IsReq(req), NEW id,
           ~Ties(browsePlaces(id, media, order, NoSort).children, id)
    PROVE  browsePlaces(id, media, other, req) = browsePlaces(id, media, order, req)
<1>1. CASE id.path = <<"places">>
  <2> DEFINE names == Countries(media)
             key == [c \in names |-> Title[c]]
             F == [c \in names |-> Child(Id(id.user, <<"place">> \o <<c>>), Cardinality(Cities(media, c)))]
             cs(o, r) == Places(names, o, key, F, r)
  <2>1. /\ \A x \in names : key[x] \in Int /\ key[x] = Title[cityTitle(x)]
        /\ \A o \in MapOrders : names \subseteq ToSet(o)
        /\ \A x \in names : LET p == F[x].id.path IN IsPath(p) /\ p[1] = "place" /\ p[Len(p)] = x
      BY <1>1, CountriesListed
  <2>2. /\ browsePlaces(id, media, order, req) = Listing(cs(order, req))
        /\ browsePlaces(id, media, other, req) = Listing(cs(other, req))
        /\ browsePlaces(id, media, order, NoSort) = Listing(cs(order, NoSort))
      BY <1>1, CountriesListed
  <2>3. key = [x \in names |-> key[x]]
      OBVIOUS
  <2> HIDE DEF names, key, F
  <2>4. ~Ties(cs(order, NoSort), id)
    <3> HIDE DEF cs
    <3> QED
        BY <2>2 DEF Listing
  <2>5. cs(other, req) = cs(order, req)
    <3>1. OneListing(names, order, key, F, id, req)
        BY <2>1, <2>3, PlacesAreListed
    <3> QED
        BY <2>4, <3>1 DEF OneListing
  <2> QED
      BY <2>2, <2>5
<1>2. CASE id.path # <<"places">> /\ Len(id.path) = 2 /\ id.path[2] \in Countries(media)
  <2> DEFINE names == Cities(media, id.path[2])
             key == [c \in names |-> Title[cityTitle(c)]]
             F == [c \in names |-> Child(Id(id.user, <<"place">> \o <<id.path[2], c>>), Len(InCity(media, id.path[2], c)))]
             cs(o, r) == Places(names, o, key, F, r)
  <2>1. /\ \A x \in names : key[x] \in Int /\ key[x] = Title[cityTitle(x)]
        /\ \A o \in MapOrders : names \subseteq ToSet(o)
        /\ \A x \in names : LET p == F[x].id.path IN IsPath(p) /\ p[1] = "place" /\ p[Len(p)] = x
      BY <1>2, CitiesListed
  <2>2. /\ browsePlaces(id, media, order, req) = Listing(cs(order, req))
        /\ browsePlaces(id, media, other, req) = Listing(cs(other, req))
        /\ browsePlaces(id, media, order, NoSort) = Listing(cs(order, NoSort))
      BY <1>2, CitiesListed
  <2>3. key = [x \in names |-> key[x]]
      OBVIOUS
  <2> HIDE DEF names, key, F
  <2>4. ~Ties(cs(order, NoSort), id)
    <3> HIDE DEF cs
    <3> QED
        BY <2>2 DEF Listing
  <2>5. cs(other, req) = cs(order, req)
    <3>1. OneListing(names, order, key, F, id, req)
        BY <2>1, <2>3, PlacesAreListed
    <3> QED
        BY <2>4, <3>1 DEF OneListing
  <2> QED
      BY <2>2, <2>5
<1>3. CASE id.path # <<"places">> /\ ~(Len(id.path) = 2 /\ id.path[2] \in Countries(media))
    BY <1>3 DEF browsePlaces
<1> QED
    BY <1>1, <1>2, <1>3

-----------------------------------------------------------------------------
(* Accounts and roots. *)

\* A folder whose path is one tag.
IsPlain(c) == \E k : k \notin {"asset", "place", "album", "person"} /\ c.id.path = <<k>>

LEMMA PlainChildren ==
    ASSUME NEW cs, IsList(cs), \A c \in ToSet(cs) : IsPlain(c), NEW folder, NEW req
    PROVE  IsNodes(cs) /\ InSort(cs, folder, req)
<1>1. ASSUME NEW c, IsPlain(c) PROVE IsPath(c.id.path) /\ SortKey(folder, c.id, req) = 0
  <2> DEFINE p == c.id.path
  <2>1. PICK k : k \notin {"asset", "place", "album", "person"} /\ p = <<k>>
      BY <1>1 DEF IsPlain
  <2> HIDE DEF p
  <2>2. p[1] = k /\ Tail(p) = <<>>
      BY <2>1
  <2>3. IsPath(p)
      BY <2>1, FolderPaths
  <2>4. SortKey(folder, c.id, req) = 0
      BY <2>1, <2>2 DEF SortKey, IsItem, p
  <2> QED
      BY <2>3, <2>4 DEF p
<1>2. \A i \in DOMAIN cs : cs[i] \in ToSet(cs)
    BY DEF ToSet
<1>3. \A i \in DOMAIN cs : IsPath(cs[i].id.path) /\ SortKey(folder, cs[i].id, req) = 0
    BY <1>1, <1>2
<1>4. InSort(cs, folder, req)
    BY <1>3 DEF InSort
<1> QED
    BY <1>3, <1>4 DEF IsNodes

LEMMA AccountsInSort ==
    ASSUME NEW c, c.users \in Nat, NEW folder, NEW req
    PROVE  IsNodes(Accounts(c)) /\ InSort(Accounts(c), folder, req)
<1> DEFINE cs == Accounts(c)
<1>1. cs = [i \in 1..c.users |-> cs[i]] /\ \A i \in 1..c.users : cs[i].id.path = <<"0">>
    BY DEF Accounts, Child, RootOf, Id
<1> HIDE DEF cs
<1>2. IsList(cs) /\ DOMAIN cs = 1..c.users
    BY <1>1, ListOf
<1>3. \A x \in ToSet(cs) : IsPlain(x)
    BY <1>1, <1>2 DEF ToSet, IsPlain
<1> QED
    BY <1>2, <1>3, PlainChildren DEF cs

LEMMA ListsJoin ==
    ASSUME NEW s, IsList(s), NEW r, IsList(r)
    PROVE  IsList(s \o r) /\ ToSet(s \o r) \subseteq ToSet(s) \cup ToSet(r)
<1> DEFINE T == ToSet(s) \cup ToSet(r)
<1>1. s \in Seq(T) /\ r \in Seq(T)
  <2>1. s \in Seq(ToSet(s)) /\ r \in Seq(ToSet(r))
      BY DEF IsList
  <2>2. ToSet(s) \subseteq T /\ ToSet(r) \subseteq T
      OBVIOUS
  <2> HIDE DEF T
  <2> QED
      BY <2>1, <2>2
<1> HIDE DEF T
<1>2. s \o r \in Seq(T)
    BY <1>1
<1> QED
    BY <1>2, ListsAre DEF T

LEMMA RootInSort ==
    ASSUME NEW c \in Configs, NEW user, NEW albums, NEW people, NEW folder, NEW req
    PROVE  /\ IsNodes(RootFolders(c, user, albums, people))
           /\ InSort(RootFolders(c, user, albums, people), folder, req)
<1> DEFINE a == Child(Id(user, <<"albums">>), Len(albums))
           p == Child(Id(user, <<"people">>), Len(ListNamed(people)))
           t == Child(Id(user, <<"timeline">>), -1)
           s == <<a, p, t>>
           r == extraRootContainers(c, user)
<1>1. RootFolders(c, user, albums, people) = s \o r
    BY DEF RootFolders
<1>2. IsPlain(a) /\ IsPlain(p) /\ IsPlain(t)
    BY DEF IsPlain, Child, Id
<1> HIDE DEF a, p, t
<1>3. IsList(s) /\ ToSet(s) = {a, p, t}
    BY DEF IsList, ToSet
<1>4. IsList(r) /\ \A x \in ToSet(r) : IsPlain(x)
  <2>1. c.extras \in Seq({"favorites", "random", "onthisday", "places"})
      BY ConfigsAreUsable DEF ConfigsAreUsable
  <2> DEFINE e == c.extras
  <2>2. e \in Seq({"favorites", "random", "onthisday", "places"})
      BY <2>1
  <2>3. r = [i \in DOMAIN e |-> Child(Id(user, <<e[i]>>), -1)]
      BY DEF extraRootContainers
  <2> HIDE DEF e, r
  <2>4. DOMAIN e = 1..Len(e) /\ Len(e) \in Nat /\ \A i \in 1..Len(e) : e[i] \in {"favorites", "random", "onthisday", "places"}
      BY <2>2
  <2>5. \A i \in 1..Len(e) : r[i].id.path = <<e[i]>>
      BY <2>3, <2>4 DEF Child, Id
  <2>6. r = [i \in 1..Len(e) |-> r[i]]
      BY <2>3, <2>4
  <2>7. IsList(r) /\ DOMAIN r = 1..Len(e)
      BY <2>4, <2>6, ListOf
  <2>8. ASSUME NEW i \in 1..Len(e) PROVE IsPlain(r[i])
    <3>1. e[i] \notin {"asset", "place", "album", "person"}
        BY <2>4
    <3> QED
        BY <2>5, <3>1 DEF IsPlain
  <2> QED
      BY <2>7, <2>8 DEF ToSet
<1> HIDE DEF s, r
<1>5. IsList(s \o r) /\ \A x \in ToSet(s \o r) : IsPlain(x)
    BY <1>2, <1>3, <1>4, ListsJoin
<1> QED
    BY <1>1, <1>5, PlainChildren

\* The sample is of the assets.
LEMMA SampleOfAssets ==
    ASSUME NEW media \in Seq(Assets), NEW h \in Int, NEW user \in Int
    PROVE  randomSample(media, h, user) \in Seq(Assets)
<1> DEFINE l == Len(media)
           n == IF RandomSize < l THEN RandomSize ELSE l
           at(i) == ((i + h + user + 2) % l) + 1
<1>1. randomSample(media, h, user) = [i \in 1..n |-> media[at(i)]]
    BY DEF randomSample
<1>2. n \in Nat /\ l \in Nat /\ n <= l
    BY SampleSize DEF SampleSize
<1>3. \A i \in 1..l : media[i] \in Assets
    OBVIOUS
<1>4. ASSUME NEW i \in 1..n PROVE media[at(i)] \in Assets
  <2> DEFINE x == i + h + user + 2
  <2> HIDE DEF l, n
  <2>1. x \in Int /\ l \in Nat \ {0}
      BY <1>2
  <2> HIDE DEF x
  <2>2. x % l \in 0..l - 1
      BY <2>1
  <2>3. (x % l) + 1 \in 1..l
      BY <2>1, <2>2
  <2> QED
      BY <1>3, <2>3 DEF x, l
<1> HIDE DEF n, at
<1>5. [i \in 1..n |-> media[at(i)]] \in Seq(Assets)
    BY <1>2, <1>4
<1> QED
    BY <1>1, <1>5


\* The timeline, a year, or a month.
LEMMA TimelineInSort ==
    ASSUME NEW media \in Seq(Assets), NEW req, IsReq(req), NEW c, NEW id
    PROVE  LET cs == browseTimeline(c, id, media, req).children
           IN  IsNodes(cs) /\ (req # NoSort \/ LatestFirst(media) => InSort(cs, id, req))
<1> DEFINE whole == id.path = <<"timeline">>
           mine == IF whole THEN media ELSE BucketAssets(media, id.path)
           months == ~whole /\ HasMonths(c, id.path)
           year == IF months THEN id.path[2] ELSE 0
           cs == browseTimeline(c, id, media, req).children
<1>1. mine \in Seq(Assets) /\ (LatestFirst(media) => LatestFirst(mine))
    BY WhereLists, LatestFirstWhere DEF BucketAssets
<1>2. CASE ~whole /\ mine = <<>>
  <2>1. cs = <<>>
      BY <1>2 DEF browseTimeline, NoListing
  <2> HIDE DEF cs
  <2> QED
      BY <2>1, NothingInSort DEF cs
<1>3. CASE ~(~whole /\ mine = <<>>) /\ ((whole /\ Grouped(c)) \/ months)
  <2>1. cs = GroupFolders(id.user, groupTimeline(mine, months, year), req).children
      BY <1>3 DEF browseTimeline
  <2>2. months \in BOOLEAN
      OBVIOUS
  <2> HIDE DEF mine, months, year, cs
  <2>3. IsNodes(cs) /\ InSort(cs, id, req)
      BY <1>1, <2>1, <2>2, SortedGroups
  <2> QED
      BY <2>3 DEF cs
<1>4. CASE ~(~whole /\ mine = <<>>) /\ ~((whole /\ Grouped(c)) \/ months)
  <2>1. cs = assetItems(id.user, mine, req).children
      BY <1>4 DEF browseTimeline
  <2> HIDE DEF mine, cs
  <2>2. IsNodes(cs) /\ (req # NoSort \/ LatestFirst(mine) => InSort(cs, id, req))
      BY <1>1, <2>1, SortedItems
  <2> QED
      BY <1>1, <2>2 DEF cs
<1> QED
    BY <1>2, <1>3, <1>4

-----------------------------------------------------------------------------
(* Every folder. *)

\* Listings that are kept; calm is that the library has not changed.
GoodList(key, list, calm) == IF IsGet(key) THEN list = Get(key)
                             ELSE list \in Seq(Assets) /\ (calm => LatestFirst(list))
GoodLists(lists, calm) == \A key \in DOMAIN lists : GoodList(key, lists[key], calm)

LEMMA SourceNeeded ==
    ASSUME NEW c, NEW id, NEW today, ~IsTop(c, id), parseUserObjectID(c, id), id.path # <<"0">>, id.path[1] # "asset",
           ~(id.path[1] = "timeline" /\ Len(id.path) > 1 /\ ~IsBucket(c, id.path))
    PROVE  Needs(c, id, today) = <<Source(id.path, today)>> /\ Source(id.path, today) \in ToSet(Needs(c, id, today))
<1>1. Needs(c, id, today) = <<Source(id.path, today)>>
    BY DEF Needs
<1>2. \A x : x \in ToSet(<<x>>)
    BY DEF ToSet
<1> QED
    BY <1>1, <1>2

LEMMA MediaOf ==
    ASSUME NEW lists, NEW calm, GoodLists(lists, calm), NEW key \in DOMAIN lists, ~IsGet(key)
    PROVE  LET media == filterSupportedAssets(lists[key])
           IN  media \in Seq(Assets) /\ (calm => LatestFirst(media))
<1> DEFINE s == lists[key]
<1>1. s \in Seq(Assets) /\ (calm => LatestFirst(s))
    BY DEF GoodLists, GoodList
<1> HIDE DEF s
<1>2. filterSupportedAssets(s) \in Seq(Assets) /\ (LatestFirst(s) => LatestFirst(filterSupportedAssets(s)))
    BY <1>1, WhereLists, LatestFirstWhere DEF filterSupportedAssets
<1> QED
    BY <1>1, <1>2 DEF s

\* An optional folder.
LEMMA ExtraInSort ==
    ASSUME NEW media \in Seq(Assets), NEW now, now.hour \in Int, now.order \in MapOrders, NEW req, IsReq(req),
           NEW id, id.user \in Int
    PROVE  LET cs == browseExtraFolder(id, media, now, req).children
           IN  IsNodes(cs) /\ (req # NoSort \/ LatestFirst(media) => InSort(cs, id, req))
<1>1. CASE ExtraFolder(id.path) = "places"
    BY <1>1, PlacesInSort DEF browseExtraFolder
<1>2. CASE ExtraFolder(id.path) = "random"
  <2> DEFINE s == randomSample(media, now.hour, id.user)
  <2>1. browseExtraFolder(id, media, now, req) = assetItems(id.user, s, req)
      BY <1>2 DEF browseExtraFolder
  <2>2. s \in Seq(Assets)
      BY SampleOfAssets
  <2>3. id.path[1] = "random"
      BY <1>2 DEF ExtraFolder
  <2> HIDE DEF s
  <2> QED
      BY <2>1, <2>2, <2>3, SortedItems
<1>3. CASE ExtraFolder(id.path) \notin {"places", "random"}
  <2>1. browseExtraFolder(id, media, now, req) = assetItems(id.user, media, req)
      BY <1>3 DEF browseExtraFolder
  <2> QED
      BY <2>1, SortedItems
<1> QED
    BY <1>1, <1>2, <1>3

\* The albums, and the people.
LEMMA NamesInSort ==
    ASSUME NEW user, NEW sizes, NEW req, NEW folder
    PROVE  /\ LET cs == AlbumFolders(user, Albums, sizes, req) IN IsNodes(cs) /\ InSort(cs, folder, req)
           /\ LET cs == PersonFolders(user, People, req) IN IsNodes(cs) /\ InSort(cs, folder, req)
<1>1. IsList(Albums) /\ \A x \in ToSet(Albums) : Title[x] \in Int
    BY AlbumsAndPeople, NamesAreRanked DEF AlbumsAndPeople, NamesAreRanked, IsList
<1>2. LET cs == AlbumFolders(user, Albums, sizes, req) IN IsNodes(cs) /\ InSort(cs, folder, req)
  <2> DEFINE w == ByTitle(Albums, req)
             cs == AlbumFolders(user, Albums, sizes, req)
  <2>1. cs = [i \in DOMAIN w |-> Child(Id(user, <<"album", w[i]>>), sizes[w[i]])]
      BY DEF AlbumFolders, ByTitle
  <2> HIDE DEF cs, w
  <2>2. cs = [i \in DOMAIN w |-> cs[i]] /\ \A i \in DOMAIN w : cs[i].id.path = <<"album", w[i]>>
      BY <2>1 DEF Child, Id
  <2>3. IsNodes(cs) /\ InSort(cs, folder, req)
    <3>1. w = ByTitle(Albums, req)
        BY DEF w
    <3>2. \A i \in DOMAIN w : cs[i].id.path \in {<<"album", w[i]>>, <<"person", w[i]>>}
        BY <2>2
    <3> QED
        BY ONLY <1>1, <2>2, <3>1, <3>2, SortedNames
  <2> QED
      BY <2>3 DEF cs
<1>3. LET cs == PersonFolders(user, People, req) IN IsNodes(cs) /\ InSort(cs, folder, req)
  <2> DEFINE s == ListNamed(People)
             w == ByTitle(s, req)
             cs == PersonFolders(user, People, req)
  <2>1. cs = [i \in DOMAIN w |-> Child(Id(user, <<"person", w[i]>>), -1)]
      BY DEF PersonFolders, ByTitle
  <2>2. IsList(s) /\ ToSet(s) \subseteq ToSet(People)
      BY AlbumsAndPeople, WhereLists DEF AlbumsAndPeople, ListNamed
  <2>3. \A x \in ToSet(s) : Title[x] \in Int
      BY <2>2, NamesAreRanked DEF NamesAreRanked
  <2> HIDE DEF cs, w, s
  <2>4. cs = [i \in DOMAIN w |-> cs[i]] /\ \A i \in DOMAIN w : cs[i].id.path = <<"person", w[i]>>
      BY <2>1 DEF Child, Id
  <2>5. IsNodes(cs) /\ InSort(cs, folder, req)
    <3>1. w = ByTitle(s, req)
        BY DEF w
    <3>2. \A i \in DOMAIN w : cs[i].id.path \in {<<"album", w[i]>>, <<"person", w[i]>>}
        BY <2>4
    <3> QED
        BY ONLY <2>2, <2>3, <2>4, <3>1, <3>2, SortedNames
  <2> QED
      BY <2>5 DEF cs
<1> QED
    BY <1>2, <1>3


LEMMA NotGets ==
    ASSUME NEW path, NEW today \in Nat \X Nat,
           path[1] \in {"timeline", "favorites", "random", "onthisday", "places", "place", "album", "person"}
    PROVE  ~IsGet(Source(path, today))
<1>1. CASE path[1] = "onthisday"
    BY <1>1 DEF Source, IsGet
<1>2. CASE path[1] # "onthisday"
  <2>1. Source(path, today) = <<"timeline">> \/ (Source(path, today) = path /\ path[1] \in {"favorites", "album", "person"})
      BY <1>2 DEF Source
  <2>2. <<"timeline">>[1] = "timeline"
      OBVIOUS
  <2> QED
      BY <2>1, <2>2 DEF IsGet
<1> QED
    BY <1>1, <1>2


\* The optional folders are those of the configuration.
LEMMA ExtraTags ==
    ASSUME NEW c \in Configs, NEW path, extraFolderFor(c, path)
    PROVE  path[1] \in {"favorites", "random", "onthisday", "places", "place"}
<1>1. ToSet(c.extras) \subseteq {"favorites", "random", "onthisday", "places"}
    BY ConfigsAreUsable, ListsAre DEF ConfigsAreUsable
<1> QED
    BY <1>1 DEF extraFolderFor, ExtraFolder

LEMMA Tags == /\ <<"0">>[1] = "0" /\ <<"albums">>[1] = "albums" /\ <<"people">>[1] = "people"
              /\ <<"timeline">>[1] = "timeline" /\ Len(<<"timeline">>) = 1
OBVIOUS

\* What browseUserScope makes of each kind of folder.
Routed(c, id, lists, now, req) ==
    LET path   == id.path
        answer == browseUserScope(c, id, lists, now, req)
        media  == filterSupportedAssets(lists[Source(path, now.today)])
    IN  /\ path = <<"0">> => answer = Listing(RootFolders(c, id.user, lists[<<"albums">>], lists[<<"people">>]))
        /\ path = <<"albums">> => answer = Listing(AlbumFolders(id.user, lists[path], c.albumSizes, req))
        /\ path = <<"people">> => answer = Listing(PersonFolders(id.user, lists[path], req))
        /\ path[1] = "timeline" => answer = IF Len(path) > 1 /\ ~IsBucket(c, path) THEN NoListing
                                            ELSE browseTimeline(c, id, media, req)
        /\ extraFolderFor(c, path) => answer = browseExtraFolder(id, media, now, req)
        /\ path[1] \in {"album", "person"} => answer = assetItems(id.user, media, req)
        /\ path[1] = "asset" => answer = Listing(Items(id.user, Tail(path)))
        /\ /\ path \notin {<<"0">>, <<"albums">>, <<"people">>} /\ ~extraFolderFor(c, path)
           /\ path[1] \notin {"timeline", "album", "person", "asset"}
           => answer = NoListing

LEMMA Routes ==
    ASSUME NEW c \in Configs, NEW id, IsPath(id.path), NEW lists, NEW now, NEW req
    PROVE  Routed(c, id, lists, now, req)
<1> DEFINE path == id.path
           answer == browseUserScope(c, id, lists, now, req)
           media == filterSupportedAssets(lists[Source(path, now.today)])
<1>1. path = <<"0">> => answer = Listing(RootFolders(c, id.user, lists[<<"albums">>], lists[<<"people">>]))
  <2> SUFFICES ASSUME path = <<"0">>
               PROVE  answer = Listing(RootFolders(c, id.user, lists[<<"albums">>], lists[<<"people">>]))
      OBVIOUS
  <2>1. path[1] = "0"
      BY Tags
  <2>2. /\ path # <<"albums">> /\ path # <<"people">> /\ path # <<"timeline">> /\ ~extraFolderFor(c, path)
        /\ path[1] \notin {"timeline", "album", "person", "asset"}
      BY <2>1, Tags, ExtraTags
  <2> QED
      BY <2>2 DEF browseUserScope
<1>2. path = <<"albums">> => answer = Listing(AlbumFolders(id.user, lists[path], c.albumSizes, req))
  <2> SUFFICES ASSUME path = <<"albums">>
               PROVE  answer = Listing(AlbumFolders(id.user, lists[path], c.albumSizes, req))
      OBVIOUS
  <2>1. path[1] = "albums"
      BY Tags
  <2>2. /\ path # <<"0">> /\ path # <<"people">> /\ path # <<"timeline">> /\ ~extraFolderFor(c, path)
        /\ path[1] \notin {"timeline", "album", "person", "asset"}
      BY <2>1, Tags, ExtraTags
  <2> QED
      BY <2>2 DEF browseUserScope
<1>3. path = <<"people">> => answer = Listing(PersonFolders(id.user, lists[path], req))
  <2> SUFFICES ASSUME path = <<"people">>
               PROVE  answer = Listing(PersonFolders(id.user, lists[path], req))
      OBVIOUS
  <2>1. path[1] = "people"
      BY Tags
  <2>2. /\ path # <<"0">> /\ path # <<"albums">> /\ path # <<"timeline">> /\ ~extraFolderFor(c, path)
        /\ path[1] \notin {"timeline", "album", "person", "asset"}
      BY <2>1, Tags, ExtraTags
  <2> QED
      BY <2>2 DEF browseUserScope
<1>4. path[1] \notin {"0", "albums", "people"} =>
         answer = CASE path = <<"timeline">> -> browseTimeline(c, id, media, req)
                    [] path[1] = "timeline" /\ Len(path) > 1 ->
                           IF IsBucket(c, path) THEN browseTimeline(c, id, media, req) ELSE NoListing
                    [] extraFolderFor(c, path) -> browseExtraFolder(id, media, now, req)
                    [] path[1] \in {"album", "person"} -> assetItems(id.user, media, req)
                    [] path[1] = "asset" -> Listing(Items(id.user, Tail(path)))
                    [] OTHER -> NoListing
  <2> SUFFICES ASSUME path[1] \notin {"0", "albums", "people"}
               PROVE  answer = CASE path = <<"timeline">> -> browseTimeline(c, id, media, req)
                                 [] path[1] = "timeline" /\ Len(path) > 1 ->
                                        IF IsBucket(c, path) THEN browseTimeline(c, id, media, req) ELSE NoListing
                                 [] extraFolderFor(c, path) -> browseExtraFolder(id, media, now, req)
                                 [] path[1] \in {"album", "person"} -> assetItems(id.user, media, req)
                                 [] path[1] = "asset" -> Listing(Items(id.user, Tail(path)))
                                 [] OTHER -> NoListing
      OBVIOUS
  <2>1. path # <<"0">> /\ path # <<"albums">> /\ path # <<"people">>
      BY Tags
  <2> QED
      BY <2>1 DEF browseUserScope
<1> HIDE DEF media, answer
<1>5. ASSUME path[1] = "timeline"
      PROVE  answer = IF Len(path) > 1 /\ ~IsBucket(c, path) THEN NoListing ELSE browseTimeline(c, id, media, req)
  <2>1. ~extraFolderFor(c, path) /\ path[1] \notin {"album", "person", "asset", "0", "albums", "people"}
      BY <1>5, ExtraTags
  <2>2. CASE path = <<"timeline">>
    <3>1. ~(Len(path) > 1)
        BY <2>2, Tags
    <3> HIDE DEF path
    <3> QED
        BY <1>4, <2>1, <2>2, <3>1
  <2>3. CASE path # <<"timeline">>
    <3>1. Len(path) > 1
        BY <1>5, <2>3 DEF IsPath, IsList
    <3> QED
        BY <1>4, <1>5, <2>1, <2>3, <3>1
  <2> QED
      BY <2>2, <2>3
<1>6. ASSUME extraFolderFor(c, path) PROVE answer = browseExtraFolder(id, media, now, req)
  <2>1. path[1] \in {"favorites", "random", "onthisday", "places", "place"}
      BY <1>6, ExtraTags
  <2>2. path # <<"timeline">> /\ path[1] \notin {"timeline", "album", "person", "asset", "0", "albums", "people"}
      BY <2>1, Tags
  <2> QED
      BY <1>4, <1>6, <2>2
<1>7. ASSUME path[1] \in {"album", "person"} PROVE answer = assetItems(id.user, media, req)
  <2>1. /\ path # <<"timeline">> /\ path[1] \notin {"timeline", "asset", "0", "albums", "people"}
        /\ ~extraFolderFor(c, path)
      BY <1>7, Tags, ExtraTags
  <2> QED
      BY <1>4, <1>7, <2>1
<1>8. ASSUME path[1] = "asset" PROVE answer = Listing(Items(id.user, Tail(path)))
  <2>1. /\ path # <<"timeline">> /\ path[1] \notin {"timeline", "album", "person", "0", "albums", "people"}
        /\ ~extraFolderFor(c, path)
      BY <1>8, Tags, ExtraTags
  <2> QED
      BY <1>4, <1>8, <2>1
<1>9. ASSUME path \notin {<<"0">>, <<"albums">>, <<"people">>}, ~extraFolderFor(c, path),
             path[1] \notin {"timeline", "album", "person", "asset"}
      PROVE  answer = NoListing
  <2>1. path # <<"timeline">>
      BY <1>9, Tags
  <2> QED
      BY <1>9, <2>1 DEF browseUserScope, answer
<1> QED
    BY <1>1, <1>2, <1>3, <1>5, <1>6, <1>7, <1>8, <1>9 DEF Routed, answer, media

\* Whatever the folder, a Browse lists nodes; and in the order asked for, unless that is Immich's
\* and the library has changed.
LEMMA BrowseInSort ==
    ASSUME NEW c \in Configs, NEW id, IsPath(id.path), NEW lists, NEW calm, GoodLists(lists, calm),
           NEW now, now.hour \in Int, now.today \in Nat \X Nat, now.order \in MapOrders, NEW req, IsReq(req),
           ToSet(Needs(c, id, now.today)) \subseteq DOMAIN lists
    PROVE  LET cs == browse(c, id, lists, now, req).children
           IN  IsNodes(cs) /\ (req # NoSort \/ calm => InSort(cs, id, req))
<1> DEFINE answer == browse(c, id, lists, now, req)
           cs == answer.children
           path == id.path
           Fine == IsNodes(cs) /\ (req # NoSort \/ calm => InSort(cs, id, req))
<1>1. ASSUME answer = NoListing PROVE Fine
  <2>1. cs = <<>>
      BY <1>1 DEF NoListing
  <2> HIDE DEF cs
  <2> QED
      BY <2>1, NothingInSort
<1>2. CASE IsTop(c, id)
  <2>1. answer = Listing(Accounts(c)) /\ c.users \in Nat
      BY <1>2, ConfigsAreUsable DEF browse, ConfigsAreUsable
  <2>2. cs = Accounts(c)
      BY <2>1 DEF Listing
  <2> QED
      BY <2>1, <2>2, AccountsInSort
<1>3. CASE ~IsTop(c, id) /\ ~parseUserObjectID(c, id)
    BY <1>1, <1>3 DEF browse
<1>4. ASSUME ~IsTop(c, id), parseUserObjectID(c, id) PROVE Fine
  <2> DEFINE media == filterSupportedAssets(lists[Source(path, now.today)])
  <2>1. answer = browseUserScope(c, id, lists, now, req)
      BY <1>4 DEF browse
  <2>2. id.user \in Int
    <3>1. c.users \in Nat
        BY ConfigsAreUsable DEF ConfigsAreUsable
    <3> QED
        BY <1>4, <3>1 DEF parseUserObjectID
  <2>3. path[1] = "asset" => \E a \in Assets : path = <<"asset", a>>
      BY DEF IsPath
  <2>4. ASSUME path[1] \in {"timeline", "favorites", "random", "onthisday", "places", "place", "album", "person"},
               ~(path[1] = "timeline" /\ Len(path) > 1 /\ ~IsBucket(c, path))
        PROVE  media \in Seq(Assets) /\ (calm => LatestFirst(media))
    <3>1. path # <<"0">> /\ path[1] # "asset"
      <4>1. <<"0">>[1] = "0"
          OBVIOUS
      <4> QED
          BY <2>4, <4>1
    <3>2. Source(path, now.today) \in DOMAIN lists
        BY <1>4, <2>4, <3>1, SourceNeeded
    <3>3. ~IsGet(Source(path, now.today))
        BY <2>4, NotGets
    <3> QED
        BY <3>2, <3>3, MediaOf
  <2>5. Routed(c, id, lists, now, req)
      BY Routes
  <2> DEFINE extra == extraFolderFor(c, path)
  <2>6. /\ path = <<"0">> => answer = Listing(RootFolders(c, id.user, lists[<<"albums">>], lists[<<"people">>]))
        /\ path = <<"albums">> => answer = Listing(AlbumFolders(id.user, lists[path], c.albumSizes, req))
        /\ path = <<"people">> => answer = Listing(PersonFolders(id.user, lists[path], req))
        /\ path[1] = "timeline" => answer = IF Len(path) > 1 /\ ~IsBucket(c, path) THEN NoListing
                                            ELSE browseTimeline(c, id, media, req)
        /\ extra => answer = browseExtraFolder(id, media, now, req)
        /\ path[1] \in {"album", "person"} => answer = assetItems(id.user, media, req)
        /\ path[1] = "asset" => answer = Listing(Items(id.user, Tail(path)))
        /\ path \notin {<<"0">>, <<"albums">>, <<"people">>} /\ ~extra
           /\ path[1] \notin {"timeline", "album", "person", "asset"} => answer = NoListing
      BY <2>1, <2>5 DEF Routed
  <2>7. extra => path[1] \in {"favorites", "random", "onthisday", "places", "place"}
      BY ExtraTags
  <2> HIDE DEF media, answer, extra
  <2>8. CASE path = <<"0">>
    <3>1. cs = RootFolders(c, id.user, lists[<<"albums">>], lists[<<"people">>])
        BY <2>6, <2>8 DEF Listing
    <3> QED
        BY <3>1, RootInSort
  <2>9. ASSUME path \in {<<"albums">>, <<"people">>} PROVE lists[path] = Get(path) /\ path[1] \in {"albums", "people"}
    <3>1. path[1] \in {"albums", "people"}
        BY <2>9, Tags
    <3>2. path # <<"0">> /\ path[1] # "asset" /\ path[1] # "timeline" /\ Source(path, now.today) = path /\ IsGet(path)
        BY <3>1, Tags DEF Source, IsGet
    <3>3. path \in DOMAIN lists
        BY <1>4, <3>2, SourceNeeded
    <3> QED
        BY <3>1, <3>2, <3>3 DEF GoodLists, GoodList
  <2>10. CASE path = <<"albums">>
    <3>1. lists[path] = Albums
        BY <2>9, <2>10, Tags DEF Get
    <3>2. cs = AlbumFolders(id.user, Albums, c.albumSizes, req)
        BY <2>6, <2>10, <3>1 DEF Listing
    <3> QED
        BY <3>2, NamesInSort
  <2>11. CASE path = <<"people">>
    <3>1. path[1] = "people"
        BY <2>11, Tags
    <3>2. lists[path] = People
        BY <2>9, <2>11, <3>1 DEF Get
    <3>3. cs = PersonFolders(id.user, People, req)
        BY <2>6, <2>11, <3>2 DEF Listing
    <3> QED
        BY <3>3, NamesInSort
  <2>12. CASE path[1] = "timeline"
    <3>1. CASE Len(path) > 1 /\ ~IsBucket(c, path)
        BY <1>1, <2>6, <2>12, <3>1
    <3>2. CASE ~(Len(path) > 1 /\ ~IsBucket(c, path))
      <4>1. media \in Seq(Assets) /\ (calm => LatestFirst(media))
          BY <2>4, <2>12, <3>2
      <4>2. answer = browseTimeline(c, id, media, req)
          BY <2>6, <2>12, <3>2
      <4> QED
          BY <4>1, <4>2, TimelineInSort
    <3> QED
        BY <3>1, <3>2
  <2>13. CASE extra
    <3>1. media \in Seq(Assets) /\ (calm => LatestFirst(media))
        BY <2>4, <2>7, <2>13
    <3>2. answer = browseExtraFolder(id, media, now, req)
        BY <2>6, <2>13
    <3> QED
        BY <2>2, <3>1, <3>2, ExtraInSort
  <2>14. CASE path[1] \in {"album", "person"}
    <3>1. media \in Seq(Assets) /\ (calm => LatestFirst(media))
        BY <2>4, <2>14
    <3>2. answer = assetItems(id.user, media, req)
        BY <2>6, <2>14
    <3> QED
        BY <3>1, <3>2, SortedItems
  <2>15. CASE path[1] = "asset"
    <3>1. PICK a \in Assets : path = <<"asset", a>>
        BY <2>3, <2>15
    <3> DEFINE s == <<a>>
    <3>2. Tail(path) = s /\ s \in Seq(Assets) /\ DOMAIN s = {1}
        BY <3>1
    <3> HIDE DEF s
    <3>3. cs = Items(id.user, s)
      <4>1. answer = Listing(Items(id.user, Tail(path)))
          BY <2>6, <2>15
      <4>2. answer = Listing(Items(id.user, s))
          BY <3>2, <4>1
      <4> QED
          BY <4>2 DEF Listing
    <3>4. IsNodes(cs) /\ DOMAIN cs = {1}
        BY <3>2, <3>3, ItemsAreNodes
    <3> HIDE DEF cs
    <3>5. InSort(cs, id, req)
        BY <3>4 DEF InSort
    <3> QED
        BY <3>4, <3>5
  <2>16. CASE /\ path \notin {<<"0">>, <<"albums">>, <<"people">>} /\ ~extra
              /\ path[1] \notin {"timeline", "album", "person", "asset"}
      BY <1>1, <2>6, <2>16
  <2> QED
      BY <2>8, <2>10, <2>11, <2>12, <2>13, <2>14, <2>15, <2>16
<1> QED
    BY <1>2, <1>3, <1>4

-----------------------------------------------------------------------------
(* Copies.  What is kept is what was asked for, latest first if the library has not changed. *)

LEMMA FirstIsLatestFirst ==
    ASSUME NEW set \in SUBSET Assets, NEW items, IsFirstOf(items, set)
    PROVE  LatestFirst(items) /\ items \in Seq(set)
<1> DEFINE all == NewestFirst(set)
<1>1. PICK k \in 0..Cardinality(set) : items = SubSeq(all, 1, k)
    BY DEF IsFirstOf
<1>2. Lists(all, set)
    BY NewestFirstProperties
<1> HIDE DEF all
<1>3. all \in Seq(set) /\ Len(all) \in Nat /\ k \in 0..Len(all)
    BY <1>1, <1>2 DEF Lists
<1>4. /\ items \in Seq(set) /\ DOMAIN items = 1..k /\ \A i \in 1..k : i \in DOMAIN all /\ items[i] = all[i]
    BY <1>1, <1>3
<1> QED
    BY <1>2, <1>4 DEF LatestFirst, Lists

\* A day's assets, in any time zone, are captured after those of that day in an earlier year.
LEMMA LaterYearsAreLater ==
    ASSUME NEW y \in Nat, NEW z \in Nat, y < z, NEW d \in Nat, NEW a \in Window(y, d), NEW b \in Window(z, d)
    PROVE  Captured[a] <= Captured[b]
<1>1. Midnight(y, d) + 24 * (Days * (z - y)) <= Midnight(z, d)
    BY LaterYears
<1>2. z - y \in Nat /\ z - y >= 1
    OBVIOUS
<1>3. Days * (z - y) \in Nat /\ Days * (z - y) >= Days
    BY <1>2, AtLeastAsMany
<1>4. Midnight(y, d) \in Int /\ Midnight(z, d) \in Int
    BY MidnightIsInt
<1>5. Captured[a] \in Int /\ Captured[b] \in Int /\ Captured[a] < Midnight(y, d) + 36 /\ Midnight(z, d) - 14 <= Captured[b]
    BY CapturedIsInt DEF Window
<1> DEFINE D == Days * (z - y)
           M == Midnight(y, d)
           N == Midnight(z, d)
<1>6. D \in Nat /\ D >= 3 /\ M \in Int /\ N \in Int /\ M + 24 * D <= N
    BY <1>1, <1>3, <1>4, YearsHaveDays DEF YearsHaveDays
<1>7. Captured[a] < M + 36 /\ N - 14 <= Captured[b]
    BY <1>5
<1> HIDE DEF D, M, N
<1> QED
    BY <1>5, <1>6, <1>7

\* One search is one list.
LEMMA OneSearch ==
    ASSUME SearchesInv(job.searches, job.key, library, job.steady, job.cut), ~IsOnThisDay(job.key)
    PROVE  Loaded = job.searches[1].items /\ 1 \in DOMAIN job.searches
<1> DEFINE S == job.searches
           ss == [i \in DOMAIN S |-> Kept(S[i])]
<1>1. DOMAIN S = {1} /\ S[1].year = 0
    BY DEF SearchesInv, SearchAlone
<1>2. ss[1] = S[1].items /\ DOMAIN ss = {1} /\ ss = [i \in {1} |-> ss[i]]
    BY <1>1 DEF Kept
<1>3. Loaded = FlattenSeq(ss)
    BY DEF Loaded
<1> HIDE DEF ss
<1> QED
    BY <1>1, <1>2, <1>3, FlattenOne

LEMMA LoadedIsGood ==
    ASSUME BrowsingInv, job.phase = "search", Settled, ~LoadFails, NEW calm, calm => job.steady
    PROVE  GoodList(job.key, Loaded, calm)
<1> DEFINE S == job.searches
           ss == [i \in DOMAIN S |-> Kept(S[i])]
<1>1. SearchesInv(S, job.key, library, job.steady, job.cut) /\ library \subseteq Assets
    BY DEF BrowsingInv, LoadInv, JobInv
<1>2. CASE IsGet(job.key)
  <2>1. Loaded = S[1].items
      BY <1>1, <1>2, NotBoth, OneSearch
  <2>2. S[1].items = Get(job.key)
      BY <1>1, <1>2, NotBoth DEF SearchesInv, SearchAlone
  <2> QED
      BY <1>2, <2>1, <2>2 DEF GoodList
<1>3. ASSUME ~IsGet(job.key), NEW i \in DOMAIN S
      PROVE  /\ S[i].items \in Seq(Assets)
             /\ calm => LatestFirst(S[i].items) /\ ToSet(S[i].items) \subseteq S[i].want
  <2>1. S[i].items \in Seq(Assets)
      BY <1>1, <1>3 DEF SearchesInv
  <2>2. ASSUME calm PROVE LatestFirst(S[i].items) /\ ToSet(S[i].items) \subseteq S[i].want
    <3> DEFINE found == S[i].want \cap library
    <3>1. IsFirstOf(S[i].items, found) /\ found \in SUBSET Assets
        BY <1>1, <1>3, <2>2 DEF SearchesInv, Progress
    <3> HIDE DEF found
    <3>2. LatestFirst(S[i].items) /\ S[i].items \in Seq(found)
        BY <3>1, FirstIsLatestFirst
    <3>3. ToSet(S[i].items) \subseteq found
        BY <3>2, ListsAre
    <3> QED
        BY <3>2, <3>3 DEF found
  <2> QED
      BY <2>1, <2>2
<1>4. CASE ~IsGet(job.key) /\ ~IsOnThisDay(job.key)
  <2>1. Loaded = S[1].items /\ 1 \in DOMAIN S
      BY <1>1, <1>4, OneSearch
  <2> QED
      BY <1>3, <1>4, <2>1 DEF GoodList
<1>5. CASE IsOnThisDay(job.key)
  <2>0. ~IsGet(job.key)
      BY <1>5, NotBoth
  <2>1. PICK Y \in Nat, d \in Nat : job.key = <<"onthisday", Y, d>>
      BY <1>5 DEF BrowsingInv, LoadInv, JobInv, IsKey
  <2>2. job.key[2] = Y /\ job.key[3] = d
      BY <2>1
  <2>3. PICK n \in Nat : S = [i \in 1..n |-> S[i]]
      BY <1>1 DEF SearchesInv, Searching
  <2>4. DOMAIN S = 1..n
      BY <2>3
  <2>5. /\ \A i \in 1..n : S[i].year \in Nat /\ S[i].year # 0 /\ S[i].want = Window(S[i].year, d)
        /\ \A i, j \in 1..n : i < j => S[i].year > S[j].year
    <3>1. SearchesOfDay(S, job.key)
        BY <1>1, <1>5 DEF SearchesInv
    <3>2. \A i \in 1..n : S[i].year \in MinYear..Y - 1 /\ S[i].want = Window(S[i].year, d)
        BY <2>2, <2>4, <3>1 DEF SearchesOfDay
    <3>3. \A i, j \in 1..n : i < j => S[i].year > S[j].year
        BY <2>4, <3>1 DEF SearchesOfDay
    <3>4. \A y \in MinYear..Y - 1 : y \in Nat /\ y # 0
        BY <2>1, SearchBounds DEF SearchBounds
    <3> QED
        BY <3>2, <3>3, <3>4
  <2>6. ASSUME NEW i \in 1..n
        PROVE  /\ ss[i] \in Seq(Assets)
               /\ calm => LatestFirst(ss[i]) /\ ToSet(ss[i]) \subseteq Window(S[i].year, d)
    <3> DEFINE items == S[i].items
               of == {a \in ToSet(items) : LocalCaptureDate(a) = <<S[i].year, job.key[3]>>}
    <3>1. ss[i] = Where(items, of)
        BY <2>4, <2>5 DEF Kept
    <3>2. items \in Seq(Assets) /\ (calm => LatestFirst(items) /\ ToSet(items) \subseteq S[i].want)
        BY <1>3, <2>0, <2>4
    <3> HIDE DEF items, of, ss
    <3>3. ss[i] \in Seq(Assets) /\ ToSet(ss[i]) \subseteq ToSet(items)
        BY <3>1, <3>2, WhereProperties
    <3>4. calm => LatestFirst(ss[i])
        BY <3>1, <3>2, LatestFirstWhere
    <3> QED
        BY <2>5, <3>2, <3>3, <3>4
  <2>7. ss \in [1..n -> Seq(Assets)] /\ Loaded = FlattenSeq(ss)
      BY <2>4, <2>6 DEF Loaded
  <2> HIDE DEF ss
  <2>8. Joins(Loaded, ss, n, Assets)
      BY <2>7, FlattenProperties
  <2> DEFINE key == [a \in Assets |-> -Captured[a]]
  <2>9. ASSUME calm PROVE LatestFirst(Loaded)
    <3>1. \A i \in 1..n : \A p \in DOMAIN ss[i] : ss[i][p] \in Assets
        BY <2>6
    <3>2. \A i \in 1..n : InOrder(ss[i], key)
      <4> SUFFICES ASSUME NEW i \in 1..n, NEW p \in DOMAIN ss[i], NEW q \in DOMAIN ss[i], p < q
                   PROVE  key[ss[i][p]] <= key[ss[i][q]]
          BY DEF InOrder
      <4>1. Captured[ss[i][p]] >= Captured[ss[i][q]]
          BY <2>6, <2>9 DEF LatestFirst
      <4> QED
          BY <3>1, <4>1, CapturedIsInt
    <3>3. ASSUME NEW i \in 1..n, NEW j \in 1..n, i < j, NEW x \in ToSet(ss[i]), NEW y \in ToSet(ss[j])
          PROVE  key[x] <= key[y]
      <4>1. x \in Window(S[i].year, d) /\ y \in Window(S[j].year, d) /\ x \in Assets /\ y \in Assets
          BY <2>6, <2>9 DEF Window
      <4>2. S[j].year < S[i].year /\ S[i].year \in Nat /\ S[j].year \in Nat
          BY <2>5, <3>3
      <4>3. Captured[y] <= Captured[x]
          BY <4>1, <4>2, LaterYearsAreLater
      <4> QED
          BY <4>1, <4>3, CapturedIsInt
    <3>4. InTurn(ss, n, key)
        BY <3>2, <3>3 DEF InTurn
    <3> HIDE DEF key
    <3>5. InOrder(Loaded, key) /\ Loaded \in Seq(Assets)
        BY <2>8, <3>4 DEF Joins
    <3> USE DEF key
    <3> SUFFICES ASSUME NEW i \in DOMAIN Loaded, NEW j \in DOMAIN Loaded, i < j
                 PROVE  Captured[Loaded[i]] >= Captured[Loaded[j]]
        BY DEF LatestFirst
    <3>6. Loaded[i] \in Assets /\ Loaded[j] \in Assets /\ key[Loaded[i]] <= key[Loaded[j]]
        BY <3>5 DEF InOrder
    <3> QED
        BY <3>6, CapturedIsInt
  <2>10. Loaded \in Seq(Assets)
      BY <2>8 DEF Joins
  <2> QED
      BY <2>0, <2>9, <2>10 DEF GoodList
<1> QED
    BY <1>2, <1>4, <1>5

CopiesInv ==
    /\ GoodLists(copies, changes = 0)
    /\ changes = 0 => job.steady
    /\ job # Idle => job.key \notin DOMAIN copies

LEMMA LoadStepsKeep ==
    ASSUME JobInv, LoadSteps
    PROVE  /\ job # Idle /\ job'.key = job.key /\ job'.steady = job.steady
           /\ UNCHANGED <<library, changes>>
<1>1. job = [key |-> job.key, phase |-> job.phase, searches |-> job.searches,
             steady |-> job.steady, cut |-> job.cut]
    BY DEF JobInv
<1>0. job.phase # "idle" => job # Idle
    BY DEF Idle
<1>2. CASE GetAnswers \/ FirstFails \/ SpawnSearches
  <2>1. job.phase \in {"get", "oldest"} /\ UNCHANGED <<library, changes>>
      BY <1>2 DEF GetAnswers, FirstFails, SpawnSearches
  <2>2. \E p, S : job' = [job EXCEPT !.phase = p, !.searches = S]
    <3>1. CASE FirstFails
      <4>1. job' = [job EXCEPT !.phase = "failed"]
          BY <3>1 DEF FirstFails
      <4>2. job' = [job EXCEPT !.phase = "failed", !.searches = job.searches]
          BY <1>1, <4>1
      <4> QED
          BY <4>2
    <3> QED
        BY <1>2, <3>1 DEF GetAnswers, SpawnSearches
  <2>3. PICK p, S : job' = [job EXCEPT !.phase = p, !.searches = S]
      BY <2>2
  <2> QED
      BY <1>0, <1>1, <2>1, <2>3
<1>3. ASSUME NEW i \in DOMAIN job.searches, Acquire(i) \/ AskFails(i) \/ AskPage(i)
      PROVE  /\ job # Idle /\ job'.key = job.key /\ job'.steady = job.steady
             /\ UNCHANGED <<library, changes>>
  <2>1. job.phase = "search" /\ UNCHANGED <<library, changes>>
      BY <1>3 DEF Acquire, AskFails, AskPage, At
  <2>2. \E S, b : job' = [[job EXCEPT !.searches = S] EXCEPT !.cut = b]
    <3>1. CASE Acquire(i)
      <4>1. job' = [job EXCEPT !.searches[i].pc = "asking"]
          BY <3>1 DEF Acquire
      <4> DEFINE S == [job.searches EXCEPT ![i].pc = "asking"]
      <4>2. job' = [job EXCEPT !.searches = S]
          BY <4>1
      <4> HIDE DEF S
      <4>3. job' = [[job EXCEPT !.searches = S] EXCEPT !.cut = job.cut]
          BY <1>1, <4>2
      <4> QED
          BY <4>3
    <3>2. CASE AskFails(i)
      <4>1. job' = [job EXCEPT !.searches[i].pc = "failed", !.searches[i].items = <<>>]
          BY <3>2 DEF AskFails
      <4> DEFINE S == [[job.searches EXCEPT ![i].pc = "failed"] EXCEPT ![i].items = <<>>]
      <4>2. job' = [job EXCEPT !.searches = S]
          BY <1>1, <4>1
      <4> HIDE DEF S
      <4>3. job' = [[job EXCEPT !.searches = S] EXCEPT !.cut = job.cut]
          BY <1>1, <4>2
      <4> QED
          BY <4>3
    <3>3. CASE AskPage(i)
      <4>1. \E x, b : job' = [job EXCEPT !.searches[i] = x, !.cut = @ \/ b]
          BY <3>3 DEF AskPage
      <4>2. PICK x, b : job' = [job EXCEPT !.searches[i] = x, !.cut = @ \/ b]
          BY <4>1
      <4> DEFINE S == [job.searches EXCEPT ![i] = x]
                 e == job.cut \/ b
      <4>3. job' = [[job EXCEPT !.searches = S] EXCEPT !.cut = e]
          BY <1>1, <4>2
      <4> HIDE DEF S, e
      <4> QED
          BY <4>3
    <3> QED
        BY <1>3, <3>1, <3>2, <3>3
  <2> QED
      BY <1>1, <2>1, <2>2 DEF Idle
<1> QED
    BY <1>2, <1>3 DEF LoadSteps

LEMMA GoodListsStay ==
    ASSUME NEW lists, NEW calm, GoodLists(lists, calm), NEW still, still => calm
    PROVE  GoodLists(lists, still)
BY DEF GoodLists, GoodList

\* The copies after a load.
LEMMA CopiesAfterLoad ==
    ASSUME LoadEnds, ~LoadFails
    PROVE  /\ DOMAIN copies' = DOMAIN copies \cup {job.key}
           /\ copies'[job.key] = Loaded
           /\ \A k \in DOMAIN copies \ {job.key} : copies'[k] = copies[k]
BY DEF LoadEnds

LEMMA CopiesInvNext == BrowsingInv /\ CopiesInv /\ [Next]_vars => CopiesInv'
<1> SUFFICES ASSUME BrowsingInv, CopiesInv, [Next]_vars PROVE CopiesInv'
    OBVIOUS
<1>1. CASE UNCHANGED <<job, changes, copies>>
    BY <1>1 DEF CopiesInv, GoodLists
<1>2. ASSUME NEW t \in TVs, Load(t) PROVE CopiesInv'
  <2>1. Missing(t)[1] \notin DOMAIN copies
      BY <1>2, MissingProperties DEF Load, BrowsingInv
  <2>2. job'.key = Missing(t)[1] /\ job'.steady = TRUE /\ UNCHANGED <<changes, copies>>
      BY <1>2 DEF Load, StartLoad, Idle
  <2> QED
      BY <2>1, <2>2 DEF CopiesInv, GoodLists
<1>3. CASE LoadStep
  <2>1. job # Idle /\ job'.key = job.key /\ job'.steady = job.steady /\ UNCHANGED <<changes, copies>>
      BY <1>3, LoadStepsKeep DEF LoadStep, BrowsingInv, LoadInv
  <2> QED
      BY <2>1 DEF CopiesInv, GoodLists
<1>4. CASE LoadEnds /\ LoadFails
  <2>1. job' = Idle /\ UNCHANGED <<changes, copies>>
      BY <1>4 DEF LoadEnds, EndLoad
  <2>2. job'.steady
      BY <2>1 DEF Idle
  <2> QED
      BY <2>1, <2>2 DEF CopiesInv, GoodLists
<1>5. CASE LoadEnds /\ ~LoadFails
  <2>1. job' = Idle /\ changes' = changes /\ job.phase = "search" /\ Settled
      BY <1>5 DEF LoadEnds, EndLoad, Settled, LoadFails
  <2>2. job'.steady
      BY <2>1 DEF Idle
  <2>3. GoodList(job.key, Loaded, changes = 0)
      BY <1>5, <2>1, LoadedIsGood DEF CopiesInv
  <2>4. GoodLists(copies', changes = 0)
      BY <1>5, <2>3, CopiesAfterLoad DEF GoodLists, CopiesInv
  <2> QED
      BY <2>1, <2>2, <2>4 DEF CopiesInv
<1>6. ASSUME NEW key \in DOMAIN copies, Expire(key) PROVE CopiesInv'
  <2>1. /\ DOMAIN copies' = DOMAIN copies \ {key} /\ \A k \in DOMAIN copies' : copies'[k] = copies[k]
        /\ UNCHANGED <<job, changes>>
      BY <1>6 DEF Expire, searchVars
  <2> QED
      BY <2>1 DEF CopiesInv, GoodLists
<1>7. CASE ChangeLibrary
  <2>1. changes' = changes + 1 /\ UNCHANGED copies /\ changes \in Nat
      BY <1>7 DEF ChangeLibrary, Change, BrowsingInv, LoadInv
  <2>2. ~(changes' = 0)
      BY <2>1
  <2>3. job' # Idle => job # Idle /\ job'.key = job.key
      BY <1>7 DEF ChangeLibrary, Change, BrowsingInv, LoadInv, JobInv
  <2>4. GoodLists(copies', changes' = 0)
      BY <2>1, <2>2, GoodListsStay DEF CopiesInv
  <2> QED
      BY <2>1, <2>2, <2>3, <2>4 DEF CopiesInv
<1> QED
  <2>1. \/ UNCHANGED <<job, changes, copies>> \/ \E t \in TVs : Load(t)
        \/ LoadStep \/ LoadEnds \/ (\E key \in DOMAIN copies : Expire(key)) \/ ChangeLibrary
      BY DEF Next, vars, searchVars, Ask, AskMetadata, Answer, AnswerMetadata, Descend, GiveUp, Open, Tick
  <2> QED
      BY <1>1, <1>2, <1>3, <1>4, <1>5, <1>6, <1>7, <2>1

-----------------------------------------------------------------------------
(* Televisions. *)

IsTV(v) ==
    /\ v = [at |-> v.at, got |-> v.got, total |-> v.total, call |-> v.call, of |-> v.of,
            meta |-> v.meta, promised |-> v.promised, steady |-> v.steady]
    /\ IsPath(v.at.path) /\ IsNodes(v.got)
    /\ v.call \in {"none", "children", "metadata"} /\ v.total \in Nat \cup {-1} /\ v.steady \in BOOLEAN
    /\ v.call = "metadata" => \E i \in DOMAIN v.got : v.got[i].id = v.of

TVsInv == tv = [t \in TVs |-> tv[t]] /\ \A t \in TVs : IsTV(tv[t])

LEMMA ArrivedIsTV ==
    ASSUME NEW folder, IsPath(folder.path), NEW promised
    PROVE  IsTV(Arrived(folder, promised))
<1> DEFINE v == Arrived(folder, promised)
<1>1. IsNodes(<<>>)
    BY NothingInSort
<1>2. /\ v = [at |-> folder, got |-> <<>>, total |-> -1, call |-> "none", of |-> None,
              meta |-> None, promised |-> promised, steady |-> TRUE]
      /\ v.at = folder /\ v.got = <<>> /\ v.total = -1 /\ v.call = "none" /\ v.of = None
      /\ v.meta = None /\ v.promised = promised /\ v.steady = TRUE
    BY DEF Arrived
<1> HIDE DEF v
<1>3. IsTV(v)
    BY <1>1, <1>2 DEF IsTV
<1> QED
    BY <1>3 DEF v

LEMMA StartIsPath == ASSUME cfg \in Configs PROVE IsPath(cfg.start.path)
BY ConfigsAreUsable DEF ConfigsAreUsable, IsPath, IsList

\* What changes of a TV while it stays where it is.
LEMMA StillTV ==
    ASSUME NEW v, IsTV(v), NEW call \in {"none", "children"}, NEW of, NEW meta, NEW promised, NEW steady \in BOOLEAN
    PROVE  /\ IsTV([v EXCEPT !.call = call])
           /\ IsTV([v EXCEPT !.call = "none", !.meta = meta])
           /\ IsTV([v EXCEPT !.steady = steady, !.promised = promised])
           /\ IsTV([v EXCEPT !.steady = steady])
           /\ (\E i \in DOMAIN v.got : v.got[i].id = of) => IsTV([v EXCEPT !.call = "metadata", !.of = of])
<1>0. v = [at |-> v.at, got |-> v.got, total |-> v.total, call |-> v.call, of |-> v.of,
           meta |-> v.meta, promised |-> v.promised, steady |-> v.steady]
    BY DEF IsTV
<1>1. IsTV([v EXCEPT !.call = call])
    BY DEF IsTV
<1>2. IsTV([v EXCEPT !.call = "none", !.meta = meta])
  <2>0. PICK w : w = [v EXCEPT !.call = "none", !.meta = meta]
      OBVIOUS
  <2>1. w = [at |-> v.at, got |-> v.got, total |-> v.total,
                  call |-> "none", of |-> v.of, meta |-> meta, promised |-> v.promised, steady |-> v.steady]
      BY ONLY <1>0, <2>0
  <2>2. /\ w.at = v.at /\ w.got = v.got /\ w.total = v.total
        /\ w.call = "none" /\ w.of = v.of /\ w.meta = meta /\ w.promised = v.promised /\ w.steady = v.steady
      BY <2>1
  <2>3. IsTV(w)
      BY <2>1, <2>2 DEF IsTV
  <2> QED
      BY <2>0, <2>3
<1>3. IsTV([v EXCEPT !.steady = steady, !.promised = promised])
  <2>0. PICK w : w = [v EXCEPT !.steady = steady, !.promised = promised]
      OBVIOUS
  <2>1. w = [at |-> v.at, got |-> v.got, total |-> v.total,
                  call |-> v.call, of |-> v.of, meta |-> v.meta, promised |-> promised, steady |-> steady]
      BY ONLY <1>0, <2>0
  <2>2. /\ w.at = v.at /\ w.got = v.got /\ w.total = v.total
        /\ w.call = v.call /\ w.of = v.of /\ w.meta = v.meta /\ w.promised = promised /\ w.steady = steady
      BY <2>1
  <2>3. IsTV(w)
      BY <2>1, <2>2 DEF IsTV
  <2> QED
      BY <2>0, <2>3
<1>4. IsTV([v EXCEPT !.steady = steady])
    BY DEF IsTV
<1>5. ASSUME \E i \in DOMAIN v.got : v.got[i].id = of PROVE IsTV([v EXCEPT !.call = "metadata", !.of = of])
  <2>0. PICK w : w = [v EXCEPT !.call = "metadata", !.of = of]
      OBVIOUS
  <2>1. w = [at |-> v.at, got |-> v.got, total |-> v.total,
                  call |-> "metadata", of |-> of, meta |-> v.meta, promised |-> v.promised, steady |-> v.steady]
      BY ONLY <1>0, <2>0
  <2>2. /\ w.at = v.at /\ w.got = v.got /\ w.total = v.total
        /\ w.call = "metadata" /\ w.of = of /\ w.meta = v.meta /\ w.promised = v.promised /\ w.steady = v.steady
      BY <2>1
  <2>3. IsTV(w)
      BY <1>5, <2>1, <2>2 DEF IsTV
  <2> QED
      BY <2>0, <2>3
<1> QED
    BY <1>1, <1>2, <1>3, <1>4, <1>5

\* What a TV is about to be answered.
Children(t, order) == browse(cfg, tv[t].at, copies, Now(order), parseSortCriteria(Criteria[t])).children

LEMMA CallHasItsListings ==
    ASSUME BrowsingInv, NEW t, tv[t].call = "children", Missing(t) = <<>>
    PROVE  ToSet(Needs(cfg, tv[t].at, Today[hour])) \subseteq DOMAIN copies
BY MissingProperties DEF BrowsingInv, Wants

LEMMA ChildrenInSort ==
    ASSUME BrowsingInv, CopiesInv, NEW t \in TVs, IsPath(tv[t].at.path),
           ToSet(Needs(cfg, tv[t].at, Today[hour])) \subseteq DOMAIN copies, NEW order \in MapOrders
    PROVE  LET req == parseSortCriteria(Criteria[t])
           IN  /\ IsNodes(Children(t, order))
               /\ req # NoSort \/ changes = 0 => InSort(Children(t, order), tv[t].at, req)
<1> DEFINE req == parseSortCriteria(Criteria[t])
           now == Now(order)
           calm == changes = 0
           id == tv[t].at
<1>1. IsReq(req)
    BY ParsedIsReq, RequestsAreUsable DEF RequestsAreUsable
<1>2. now.hour = hour /\ now.today = Today[hour] /\ now.order = order
    BY DEF Now
<1>3. hour \in Int /\ Today[hour] \in Nat \X Nat
    BY TodayIsADate DEF TodayIsADate, BrowsingInv
<1>4. cfg \in Configs /\ GoodLists(copies, calm)
    BY DEF BrowsingInv, CopiesInv
<1>5. Children(t, order) = browse(cfg, id, copies, now, req).children
    BY DEF Children
<1> HIDE DEF req, now, calm, id
<1>6. LET cs == browse(cfg, id, copies, now, req).children
      IN  IsNodes(cs) /\ (req # NoSort \/ calm => InSort(cs, id, req))
  <2>1. IsPath(id.path) /\ ToSet(Needs(cfg, id, now.today)) \subseteq DOMAIN copies
      BY <1>2 DEF id
  <2> QED
      BY <1>1, <1>2, <1>3, <1>4, <2>1, BrowseInSort
<1> QED
    BY <1>5, <1>6 DEF req, calm, id

LEMMA AnsweredTV ==
    ASSUME NEW v, IsTV(v), v.call # "metadata", NEW sent, IsNodes(sent), NEW total \in Nat,
           NEW w, w = [v EXCEPT !.call = "none", !.got = @ \o sent, !.total = total]
    PROVE  IsTV(w)
<1>1. v = [at |-> v.at, got |-> v.got, total |-> v.total, call |-> v.call, of |-> v.of,
           meta |-> v.meta, promised |-> v.promised, steady |-> v.steady]
    BY DEF IsTV
<1>2. w = [at |-> v.at, got |-> v.got \o sent, total |-> total, call |-> "none", of |-> v.of,
           meta |-> v.meta, promised |-> v.promised, steady |-> v.steady]
    BY ONLY <1>1, w = [v EXCEPT !.call = "none", !.got = @ \o sent, !.total = total]
<1> DEFINE got == v.got \o sent
<1>3. IsNodes(got)
    BY NodesJoin DEF IsTV
<1> HIDE DEF got
<1>4. /\ w.at = v.at /\ w.got = got /\ w.total = total /\ w.steady = v.steady
      /\ w.meta = v.meta /\ w.of = v.of /\ w.promised = v.promised /\ w.call = "none"
      /\ w = [at |-> w.at, got |-> w.got, total |-> w.total, call |-> w.call, of |-> w.of,
              meta |-> w.meta, promised |-> w.promised, steady |-> w.steady]
    BY ONLY <1>2 DEF got
<1>5. IsTV(w)
    BY <1>3, <1>4 DEF IsTV
<1> QED
    BY <1>4, <1>5 DEF got

LEMMA OneTV ==
    ASSUME TVsInv, NEW t \in TVs, NEW w, IsTV(w), tv' = [tv EXCEPT ![t] = w]
    PROVE  TVsInv'
<1>1. \A u \in TVs : tv'[u] = IF u = t THEN w ELSE tv[u]
    BY DEF TVsInv
<1>2. tv' = [u \in TVs |-> tv'[u]]
    BY DEF TVsInv
<1> QED
    BY <1>1, <1>2 DEF TVsInv

LEMMA TVsInvNext == BrowsingInv /\ CopiesInv /\ TVsInv /\ [Next]_vars => TVsInv'
<1> SUFFICES ASSUME BrowsingInv, CopiesInv, TVsInv, [Next]_vars PROVE TVsInv'
    OBVIOUS
<1>0. cfg \in Configs
    BY DEF BrowsingInv
<1>1. CASE UNCHANGED tv
    BY <1>1 DEF TVsInv
<1>2. ASSUME NEW t \in TVs, Ask(t) PROVE TVsInv'
  <2>1. tv' = [tv EXCEPT ![t] = [tv[t] EXCEPT !.call = "children"]]
      BY <1>2 DEF Ask
  <2>2. IsTV([tv[t] EXCEPT !.call = "children"])
      BY StillTV DEF TVsInv
  <2> QED
      BY <2>1, <2>2, OneTV
<1>3. ASSUME NEW t \in TVs, AskMetadata(t) PROVE TVsInv'
  <2>1. PICK i \in DOMAIN tv[t].got :
          tv' = [tv EXCEPT ![t].call = "metadata", ![t].of = tv[t].got[i].id]
      BY <1>3 DEF AskMetadata
  <2> DEFINE of == tv[t].got[i].id
             w == [tv[t] EXCEPT !.call = "metadata", !.of = of]
  <2>2. tv' = [tv EXCEPT ![t] = w]
      BY <2>1 DEF TVsInv
  <2>3. IsTV(w)
    <3>1. \E j \in DOMAIN tv[t].got : tv[t].got[j].id = of
        OBVIOUS
    <3> HIDE DEF of
    <3> QED
        BY <3>1, StillTV DEF TVsInv
  <2> HIDE DEF w
  <2> QED
      BY <2>2, <2>3, OneTV
<1>4. ASSUME NEW t \in TVs, Answer(t) PROVE TVsInv'
  <2>1. tv[t].call = "children" /\ Missing(t) = <<>> /\ IsTV(tv[t])
      BY <1>4 DEF Answer, TVsInv
  <2>2. PICK order \in MapOrders :
          LET req    == parseSortCriteria(Criteria[t])
              answer == browse(cfg, tv[t].at, copies, Now(order), req)
              sent   == page(answer.children, Len(tv[t].got), Count[t])
          IN  tv' = [tv EXCEPT ![t] = IF answer.found
                       THEN [tv[t] EXCEPT !.call = "none", !.got = @ \o sent,
                                      !.total = Len(answer.children)]
                       ELSE Arrived(cfg.start, -1)]
      BY <1>4 DEF Answer
  <2> DEFINE cs == Children(t, order)
             sent == page(cs, Len(tv[t].got), Count[t])
             found == browse(cfg, tv[t].at, copies, Now(order), parseSortCriteria(Criteria[t])).found
             v == tv[t]
             total == Len(cs)
  <2>3. tv' = [tv EXCEPT ![t] = IF found
                 THEN [v EXCEPT !.call = "none", !.got = @ \o sent, !.total = total]
                 ELSE Arrived(cfg.start, -1)]
      BY <2>2 DEF Children
  <2>4. IsNodes(cs)
      BY <2>1, CallHasItsListings, ChildrenInSort DEF IsTV
  <2>5. Len(v.got) \in Nat /\ total \in Nat /\ Count[t] \in Nat
      BY <2>1, <2>4, RequestsAreUsable DEF IsTV, IsNodes, IsList, RequestsAreUsable
  <2> HIDE DEF cs, found, v
  <2>6. IsNodes(sent)
      BY <2>4, <2>5, NodesPage DEF v
  <2> HIDE DEF sent, total
  <2>7. PICK w : w = [v EXCEPT !.call = "none", !.got = @ \o sent, !.total = total]
      OBVIOUS
  <2>8. IsTV(w)
      BY <2>1, <2>5, <2>6, <2>7, AnsweredTV DEF v
  <2>9. IsTV(Arrived(cfg.start, -1))
      BY <1>0, ArrivedIsTV, StartIsPath
  <2>10. tv' = [tv EXCEPT ![t] = IF found THEN w ELSE Arrived(cfg.start, -1)]
      BY <2>3, <2>7
  <2> QED
      BY <2>8, <2>9, <2>10, OneTV
<1>5. ASSUME NEW t \in TVs, AnswerMetadata(t) PROVE TVsInv'
  <2> DEFINE meta == metadata(cfg, tv[t].of, copies)
             w == [tv[t] EXCEPT !.call = "none", !.meta = meta]
  <2>1. tv' = [tv EXCEPT ![t].call = "none", ![t].meta = meta]
      BY <1>5 DEF AnswerMetadata
  <2> HIDE DEF meta
  <2>2. tv' = [tv EXCEPT ![t] = w]
      BY <2>1 DEF TVsInv
  <2>3. IsTV(w)
      BY StillTV DEF TVsInv
  <2> HIDE DEF w
  <2> QED
      BY <2>2, <2>3, OneTV
<1>6. ASSUME NEW t \in TVs, Descend(t) PROVE TVsInv'
  <2>1. PICK i \in DOMAIN tv[t].got :
          LET c == tv[t].got[i]
          IN  tv' = [tv EXCEPT ![t] = Arrived(c.id, IF tv[t].steady THEN c.count ELSE -1)]
      BY <1>6 DEF Descend
  <2> DEFINE c == tv[t].got[i]
             promised == IF tv[t].steady THEN c.count ELSE -1
  <2>2. IsPath(c.id.path)
      BY DEF TVsInv, IsTV, IsNodes
  <2>3. tv' = [tv EXCEPT ![t] = Arrived(c.id, promised)]
      BY <2>1
  <2> HIDE DEF c, promised
  <2> QED
      BY <2>2, <2>3, ArrivedIsTV, OneTV
<1>7. ASSUME NEW t \in TVs, GiveUp(t) PROVE TVsInv'
  <2>1. tv' = [tv EXCEPT ![t] = [tv[t] EXCEPT !.call = "none"]]
      BY <1>7 DEF GiveUp
  <2>2. IsTV([tv[t] EXCEPT !.call = "none"])
      BY StillTV DEF TVsInv
  <2> QED
      BY <2>1, <2>2, OneTV
<1>8. CASE LoadEnds /\ LoadFails
  <2>1. tv' = [t \in TVs |-> IF t \in Waiting(job.key) THEN [tv[t] EXCEPT !.call = "none"] ELSE tv[t]]
      BY <1>8 DEF LoadEnds
  <2>2. \A t \in TVs : IsTV(tv[t]) /\ IsTV([tv[t] EXCEPT !.call = "none"])
      BY StillTV DEF TVsInv
  <2> QED
      BY <2>1, <2>2 DEF TVsInv
<1>9. ASSUME NEW key \in DOMAIN copies, Expire(key) PROVE TVsInv'
  <2>1. tv' = [t \in TVs |-> IF key \in ToSet(Needs(cfg, tv[t].at, Today[hour]))
                             THEN [tv[t] EXCEPT !.steady = @ /\ tv[t].got = <<>>, !.promised = -1]
                             ELSE tv[t]]
      BY <1>9 DEF Expire
  <2>2. ASSUME NEW t \in TVs PROVE IsTV([tv[t] EXCEPT !.steady = @ /\ tv[t].got = <<>>, !.promised = -1])
    <3> DEFINE steady == tv[t].steady /\ tv[t].got = <<>>
    <3>1. IsTV(tv[t]) /\ steady \in BOOLEAN
        BY DEF TVsInv
    <3> HIDE DEF steady
    <3>2. IsTV([tv[t] EXCEPT !.steady = steady, !.promised = -1])
        BY <3>1, StillTV
    <3> QED
        BY <3>2 DEF steady
  <2> QED
      BY <2>1, <2>2 DEF TVsInv
<1>10. CASE Tick
  <2> DEFINE turns(t) == tv[t].got # <<>> /\ tv[t].at.path[1] \in {"random", "onthisday"}
  <2>1. tv' = [t \in TVs |-> [tv[t] EXCEPT !.steady = @ /\ ~turns(t)]]
      BY <1>10 DEF Tick
  <2>2. ASSUME NEW t \in TVs PROVE IsTV([tv[t] EXCEPT !.steady = @ /\ ~turns(t)])
    <3> DEFINE steady == tv[t].steady /\ ~turns(t)
    <3>1. IsTV(tv[t]) /\ steady \in BOOLEAN
        BY DEF TVsInv
    <3> HIDE DEF steady
    <3>2. IsTV([tv[t] EXCEPT !.steady = steady])
        BY <3>1, StillTV
    <3> QED
        BY <3>2 DEF steady
  <2> HIDE DEF turns
  <2> QED
      BY <2>1, <2>2 DEF TVsInv
<1> QED
  <2>1. \/ UNCHANGED tv \/ (\E t \in TVs : \/ Ask(t) \/ AskMetadata(t) \/ Answer(t) \/ AnswerMetadata(t)
                                           \/ Descend(t) \/ GiveUp(t))
        \/ (LoadEnds /\ LoadFails) \/ (\E key \in DOMAIN copies : Expire(key)) \/ Tick
      BY DEF Next, vars, searchVars, Load, Open, LoadStep, LoadEnds, ChangeLibrary
  <2> QED
      BY <1>1, <1>2, <1>3, <1>4, <1>5, <1>6, <1>7, <1>8, <1>9, <1>10, <2>1

TreeInv == BrowsingInv /\ CopiesInv /\ TVsInv

LEMMA TreeInvInit == Init => TreeInv
<1> SUFFICES ASSUME Init PROVE TreeInv
    OBVIOUS
<1>1. BrowsingInv
    BY BrowsingInvInit
<1>2. CopiesInv
    BY DEF Init, CopiesInv, GoodLists, Idle
<1>3. TVsInv
  <2>1. IsTV(Arrived(cfg.start, -1))
      BY <1>1, StartIsPath, ArrivedIsTV DEF BrowsingInv
  <2>2. tv = [t \in TVs |-> Arrived(cfg.start, -1)]
      BY DEF Init
  <2> QED
      BY <2>1, <2>2 DEF TVsInv
<1> QED
    BY <1>1, <1>2, <1>3 DEF TreeInv

LEMMA TreeInvNext == TreeInv /\ [Next]_vars => TreeInv'
BY BrowsingInvNext, CopiesInvNext, TVsInvNext DEF TreeInv

LEMMA TreeInvHolds == Spec => []TreeInv
BY TreeInvInit, TreeInvNext, PTL DEF Spec

\* Types: whatever is listed, sorted, paged, expires or fails, what a TV asks about is something it
\* was sent, and no more searches run than there are slots.  (onThisDaySearch's semaphore,
\* extrafolders.go:174-197; browseUserScope, contentdirectory.go.)
THEOREM BrowsingTypeCorrect == Spec => []TypeOK
<1>1. TreeInv => TypeOK
  <2> SUFFICES ASSUME TreeInv PROVE TypeOK
      OBVIOUS
  <2>1. Slots
      BY SlotsSuffice DEF TreeInv
  <2>2. \A t \in TVs :
          /\ tv[t].call \in {"none", "children", "metadata"}
          /\ tv[t].total \in Nat \cup {-1}
          /\ tv[t].call = "metadata" => \E i \in DOMAIN tv[t].got : tv[t].got[i].id = tv[t].of
      BY DEF TreeInv, TVsInv, IsTV
  <2> QED
      BY <2>1, <2>2 DEF TreeInv, BrowsingInv, LoadInv, JobInv, TypeOK, Slots
<1> QED
    BY <1>1, TreeInvHolds, PTL

-----------------------------------------------------------------------------
(* Pages.  A folder stays what it is until its listing expires, the hour turns or, where two      *)
(* places have the same title, it is asked for again.                                             *)

LEMMA SameExtra ==
    ASSUME NEW id, NEW media, NEW now, NEW then, NEW req, then.order = now.order,
           id.path[1] = "random" => then.hour = now.hour
    PROVE  browseExtraFolder(id, media, then, req) = browseExtraFolder(id, media, now, req)
<1>1. CASE ExtraFolder(id.path) = "places"
    BY <1>1 DEF browseExtraFolder
<1>2. CASE ExtraFolder(id.path) = "random"
  <2>1. id.path[1] = "random"
      BY <1>2 DEF ExtraFolder
  <2> QED
      BY <1>2, <2>1 DEF browseExtraFolder
<1>3. CASE ExtraFolder(id.path) \notin {"places", "random"}
    BY <1>3 DEF browseExtraFolder
<1> QED
    BY <1>1, <1>2, <1>3

LEMMA BrowseStays ==
    ASSUME NEW c \in Configs, NEW id, IsPath(id.path), NEW lists, NEW other, NEW now, NEW then, NEW req,
           then.order = now.order,
           id.path[1] \in {"random", "onthisday"} => then.hour = now.hour /\ then.today = now.today,
           \A k \in ToSet(Needs(c, id, now.today)) : other[k] = lists[k]
    PROVE  /\ Needs(c, id, then.today) = Needs(c, id, now.today)
           /\ browse(c, id, other, then, req) = browse(c, id, lists, now, req)
<1> DEFINE path == id.path
           source == Source(path, now.today)
           a == browse(c, id, lists, now, req)
           b == browse(c, id, other, then, req)
           media == filterSupportedAssets(lists[source])
           extra == extraFolderFor(c, path)
<1>1. Source(path, then.today) = source
    BY DEF Source
<1>2. Needs(c, id, then.today) = Needs(c, id, now.today)
    BY <1>1 DEF Needs
<1>3. CASE IsTop(c, id) \/ ~parseUserObjectID(c, id)
    BY <1>2, <1>3 DEF browse
<1>4. ASSUME ~IsTop(c, id), parseUserObjectID(c, id) PROVE b = a
  <2>1. a = browseUserScope(c, id, lists, now, req) /\ b = browseUserScope(c, id, other, then, req)
      BY <1>4 DEF browse
  <2>2. /\ path = <<"0">> => a = Listing(RootFolders(c, id.user, lists[<<"albums">>], lists[<<"people">>]))
        /\ path = <<"albums">> => a = Listing(AlbumFolders(id.user, lists[path], c.albumSizes, req))
        /\ path = <<"people">> => a = Listing(PersonFolders(id.user, lists[path], req))
        /\ path[1] = "timeline" => a = IF Len(path) > 1 /\ ~IsBucket(c, path) THEN NoListing
                                       ELSE browseTimeline(c, id, media, req)
        /\ extra => a = browseExtraFolder(id, media, now, req)
        /\ path[1] \in {"album", "person"} => a = assetItems(id.user, media, req)
        /\ path[1] = "asset" => a = Listing(Items(id.user, Tail(path)))
        /\ path \notin {<<"0">>, <<"albums">>, <<"people">>} /\ ~extra
           /\ path[1] \notin {"timeline", "album", "person", "asset"} => a = NoListing
    <3>1. Routed(c, id, lists, now, req)
        BY Routes
    <3> QED
        BY <2>1, <3>1 DEF Routed
  <2> DEFINE medium == filterSupportedAssets(other[source])
  <2>3. /\ path = <<"0">> => b = Listing(RootFolders(c, id.user, other[<<"albums">>], other[<<"people">>]))
        /\ path = <<"albums">> => b = Listing(AlbumFolders(id.user, other[path], c.albumSizes, req))
        /\ path = <<"people">> => b = Listing(PersonFolders(id.user, other[path], req))
        /\ path[1] = "timeline" => b = IF Len(path) > 1 /\ ~IsBucket(c, path) THEN NoListing
                                       ELSE browseTimeline(c, id, medium, req)
        /\ extra => b = browseExtraFolder(id, medium, then, req)
        /\ path[1] \in {"album", "person"} => b = assetItems(id.user, medium, req)
        /\ path[1] = "asset" => b = Listing(Items(id.user, Tail(path)))
        /\ path \notin {<<"0">>, <<"albums">>, <<"people">>} /\ ~extra
           /\ path[1] \notin {"timeline", "album", "person", "asset"} => b = NoListing
    <3>1. Routed(c, id, other, then, req)
        BY Routes
    <3> QED
        BY <1>1, <2>1, <3>1 DEF Routed
  <2>4. extra => path[1] \in {"favorites", "random", "onthisday", "places", "place"}
      BY ExtraTags
  <2>5. ASSUME path # <<"0">>, path[1] # "asset", ~(path[1] = "timeline" /\ Len(path) > 1 /\ ~IsBucket(c, path))
        PROVE  other[source] = lists[source] /\ medium = media
    <3>1. source \in ToSet(Needs(c, id, now.today))
        BY <1>4, <2>5, SourceNeeded
    <3> QED
        BY <3>1
  <2> HIDE DEF a, b, media, medium, extra
  <2>6. CASE path = <<"0">>
    <3>1. Needs(c, id, now.today) = << <<"albums">>, <<"people">> >>
      <4>1. path[1] = "0"
          BY <2>6, Tags
      <4> QED
          BY <1>4, <2>6, <4>1 DEF Needs
    <3>2. \A x, y : x \in ToSet(<<x, y>>) /\ y \in ToSet(<<x, y>>)
      <4> SUFFICES ASSUME NEW x, NEW y PROVE x \in ToSet(<<x, y>>) /\ y \in ToSet(<<x, y>>)
          OBVIOUS
      <4>1. <<x, y>>[1] = x /\ <<x, y>>[2] = y /\ DOMAIN <<x, y>> = {1, 2}
          OBVIOUS
      <4> QED
          BY <4>1 DEF ToSet
    <3>3. other[<<"albums">>] = lists[<<"albums">>] /\ other[<<"people">>] = lists[<<"people">>]
        BY <3>1, <3>2
    <3> QED
        BY <2>2, <2>3, <2>6, <3>3
  <2>7. CASE path \in {<<"albums">>, <<"people">>}
    <3>1. path # <<"0">> /\ path[1] # "asset" /\ path[1] # "timeline" /\ source = path
        BY <2>7, Tags DEF Source
    <3>2. other[path] = lists[path]
        BY <2>5, <3>1
    <3> QED
        BY <2>2, <2>3, <2>7, <3>2
  <2>8. CASE path[1] = "timeline"
    <3>1. path # <<"0">>
        BY <2>8, Tags
    <3> QED
        BY <2>2, <2>3, <2>5, <2>8, <3>1
  <2>9. CASE extra
    <3>1. path # <<"0">> /\ path[1] # "asset" /\ path[1] # "timeline"
        BY <2>4, <2>9, Tags
    <3>2. medium = media
        BY <2>5, <3>1
    <3>3. browseExtraFolder(id, media, then, req) = browseExtraFolder(id, media, now, req)
        BY SameExtra
    <3> QED
        BY <2>2, <2>3, <2>9, <3>2, <3>3
  <2>10. CASE path[1] \in {"album", "person"}
    <3>1. path # <<"0">> /\ path[1] # "asset" /\ path[1] # "timeline"
        BY <2>10, Tags
    <3>2. medium = media
        BY <2>5, <3>1
    <3> QED
        BY <2>2, <2>3, <2>10, <3>2
  <2>11. CASE path[1] = "asset"
      BY <2>2, <2>3, <2>11
  <2>12. CASE /\ path \notin {<<"0">>, <<"albums">>, <<"people">>} /\ ~extra
              /\ path[1] \notin {"timeline", "album", "person", "asset"}
      BY <2>2, <2>3, <2>12
  <2> QED
      BY <2>6, <2>7, <2>8, <2>9, <2>10, <2>11, <2>12
<1> QED
    BY <1>2, <1>3, <1>4

\* Where no two places have the same title, the order of the map does not matter.
LEMMA BrowseAnyOrder ==
    ASSUME NEW c \in Configs, NEW id, IsPath(id.path), NEW lists, NEW calm, GoodLists(lists, calm),
           NEW now, now.today \in Nat \X Nat, now.order \in MapOrders,
           NEW then, then.today = now.today, then.hour = now.hour, then.order \in MapOrders,
           NEW req, IsReq(req), ToSet(Needs(c, id, now.today)) \subseteq DOMAIN lists,
           ~Ties(browse(c, id, lists, now, NoSort).children, id)
    PROVE  browse(c, id, lists, then, req) = browse(c, id, lists, now, req)
<1> DEFINE path == id.path
           source == Source(path, now.today)
           media == filterSupportedAssets(lists[source])
<1>1. CASE IsTop(c, id) \/ ~parseUserObjectID(c, id)
    BY <1>1 DEF browse
<1>2. ASSUME ~IsTop(c, id), parseUserObjectID(c, id), extraFolderFor(c, path), ExtraFolder(path) = "places"
      PROVE  browse(c, id, lists, then, req) = browse(c, id, lists, now, req)
  <2>1. ASSUME NEW n, n.today = now.today, NEW r
        PROVE  browse(c, id, lists, n, r) = browsePlaces(id, media, n.order, r)
    <3>1. browse(c, id, lists, n, r) = browseUserScope(c, id, lists, n, r)
        BY <1>2 DEF browse
    <3>2. Routed(c, id, lists, n, r)
        BY Routes
    <3>3. browse(c, id, lists, n, r) = browseExtraFolder(id, media, n, r)
        BY <1>2, <2>1, <3>1, <3>2 DEF Routed
    <3> HIDE DEF media
    <3> QED
        BY <1>2, <3>3 DEF browseExtraFolder
  <2>2. path[1] \in {"places", "place"}
      BY <1>2 DEF ExtraFolder
  <2>3. media \in Seq(Assets)
    <3>1. source \in DOMAIN lists
        BY <1>2, <2>2, Tags, SourceNeeded
    <3>2. ~IsGet(source)
        BY <2>2, NotGets
    <3> QED
        BY <3>1, <3>2, MediaOf
  <2>4. IsReq(NoSort)
      BY DEF IsReq
  <2> HIDE DEF media
  <2>5. ~Ties(browsePlaces(id, media, now.order, NoSort).children, id)
      BY <2>1
  <2>6. browsePlaces(id, media, then.order, req) = browsePlaces(id, media, now.order, req)
      BY <2>3, <2>5, PlacesWithoutTies
  <2> QED
      BY <2>1, <2>6
<1>3. ASSUME ~IsTop(c, id), parseUserObjectID(c, id), ~(extraFolderFor(c, path) /\ ExtraFolder(path) = "places")
      PROVE  browse(c, id, lists, then, req) = browse(c, id, lists, now, req)
  <2>1. /\ browse(c, id, lists, now, req) = browseUserScope(c, id, lists, now, req)
        /\ browse(c, id, lists, then, req) = browseUserScope(c, id, lists, then, req)
      BY <1>3 DEF browse
  <2>2. browseExtraFolder(id, media, then, req) = browseExtraFolder(id, media, now, req) \/ ~extraFolderFor(c, path)
    <3> SUFFICES ASSUME extraFolderFor(c, path)
                 PROVE  browseExtraFolder(id, media, then, req) = browseExtraFolder(id, media, now, req)
        OBVIOUS
    <3>1. ExtraFolder(path) # "places"
        BY <1>3
    <3> HIDE DEF media
    <3>2. CASE ExtraFolder(path) = "random"
        BY <3>1, <3>2 DEF browseExtraFolder
    <3>3. CASE ExtraFolder(path) # "random"
        BY <3>1, <3>3 DEF browseExtraFolder
    <3> QED
        BY <3>2, <3>3
  <2>3. Routed(c, id, lists, now, req) /\ Routed(c, id, lists, then, req)
      BY Routes
  <2> DEFINE extra == extraFolderFor(c, path)
             a == browse(c, id, lists, now, req)
             b == browse(c, id, lists, then, req)
             scope(n) == browseUserScope(c, id, lists, n, req)
  <2>4. CASE extra
    <3>1. a = browseExtraFolder(id, media, now, req) /\ b = browseExtraFolder(id, media, then, req)
        BY <2>1, <2>3, <2>4 DEF Routed
    <3> QED
        BY <2>2, <2>4, <3>1
  <2>5. CASE ~extra
      BY <2>1, <2>5 DEF browseUserScope
  <2> QED
      BY <2>4, <2>5
<1> QED
    BY <1>1, <1>2, <1>3

LEMMA PrefixMeans ==
    ASSUME NEW s, NEW r, IsList(s), IsList(r)
    PROVE  IsPrefix(s, r) <=> Len(s) <= Len(r) /\ \A i \in 1..Len(s) : s[i] = r[i]
<1>1. /\ Len(s) \in Nat /\ Len(r) \in Nat /\ s \in Seq(ToSet(s)) /\ r \in Seq(ToSet(r))
      /\ DOMAIN s = 1..Len(s) /\ DOMAIN r = 1..Len(r)
    BY ListLen DEF IsList
<1> DEFINE a == SubSeq(s, 1, Len(s))
           b == SubSeq(r, 1, Len(s))
<1>2. CASE Len(s) <= Len(r)
  <2>1. a = [i \in 1..Len(s) |-> s[i]] /\ b = [i \in 1..Len(s) |-> r[i]]
      BY <1>1, <1>2
  <2>2. IsPrefix(s, r) <=> a = b
      BY <1>2 DEF IsPrefix
  <2> HIDE DEF a, b
  <2>3. a = b <=> \A i \in 1..Len(s) : s[i] = r[i]
      BY <2>1
  <2> QED
      BY <1>2, <2>2, <2>3
<1>3. CASE ~(Len(s) <= Len(r))
    BY <1>3 DEF IsPrefix
<1> QED
    BY <1>2, <1>3

\* The next page takes a TV further.
LEMMA NextPage ==
    ASSUME NEW got, IsNodes(got), NEW all, IsNodes(all), IsPrefix(got, all), NEW count \in Nat
    PROVE  IsPrefix(got \o page(all, Len(got), count), all)
<1> DEFINE n == Len(got)
           l == Len(all)
           last == IF count > 0 /\ n + count < l THEN n + count ELSE l
           pg == page(all, n, count)
           T == ToSet(got) \cup ToSet(all)
<1>1. /\ n \in Nat /\ l \in Nat /\ n <= l /\ \A i \in 1..n : got[i] = all[i]
      /\ got \in Seq(T) /\ all \in Seq(T) /\ IsList(got) /\ IsList(all)
  <2>1. IsList(got) /\ IsList(all)
      BY DEF IsNodes
  <2>2. n \in Nat /\ l \in Nat /\ n <= l /\ \A i \in 1..n : got[i] = all[i]
      BY <2>1, ListLen, PrefixMeans
  <2>3. got \in Seq(ToSet(got)) /\ all \in Seq(ToSet(all))
      BY <2>1 DEF IsList
  <2> QED
      BY <2>1, <2>2, <2>3
<1>2. CASE n = l
  <2>1. pg = <<>>
      BY <1>1, <1>2 DEF page
  <2> HIDE DEF pg
  <2>2. got \o pg = got
      BY <1>1, <2>1
  <2> QED
      BY <2>2 DEF pg
<1>3. CASE n # l
  <2>0. n < l
      BY <1>1, <1>3
  <2>1. pg = SubSeq(all, n + 1, last)
      BY <1>1, <2>0 DEF page
  <2>2. last \in n + 1..l
      BY <1>1, <2>0
  <2> HIDE DEF pg, last, n, l, T
  <2>3. /\ pg \in Seq(T) /\ Len(pg) = last - n /\ \A i \in 1..last - n : pg[i] = all[n + i]
    <3>1. all \in Seq(T) /\ n + 1 \in 1..Len(all) /\ last \in n..Len(all) /\ n + 1 \in Nat /\ last \in Nat
        BY <1>1, <2>2 DEF l
    <3>2. /\ SubSeq(all, n + 1, last) \in Seq(T) /\ Len(SubSeq(all, n + 1, last)) = last - (n + 1) + 1
          /\ \A i \in 1..last - (n + 1) + 1 : SubSeq(all, n + 1, last)[i] = all[n + 1 + i - 1]
        BY <1>1, <3>1
    <3>3. last - (n + 1) + 1 = last - n /\ \A i \in Nat : n + 1 + i - 1 = n + i
        BY <1>1, <3>1
    <3> QED
        BY <2>1, <3>2, <3>3
  <2>4. /\ got \o pg \in Seq(T) /\ Len(got \o pg) = last
        /\ \A i \in 1..last : (got \o pg)[i] = IF i <= n THEN got[i] ELSE pg[i - n]
    <3>1. /\ got \o pg \in Seq(T) /\ Len(got \o pg) = Len(got) + Len(pg)
          /\ \A i \in 1..Len(got) + Len(pg) : (got \o pg)[i] = IF i <= Len(got) THEN got[i] ELSE pg[i - Len(got)]
        BY <1>1, <2>3, ConcatProperties
    <3>2. Len(got) = n /\ Len(got) + Len(pg) = last
        BY <1>1, <2>2, <2>3 DEF n
    <3> QED
        BY <3>1, <3>2
  <2>5. \A i \in 1..last : (got \o pg)[i] = all[i]
    <3> SUFFICES ASSUME NEW i \in 1..last PROVE (got \o pg)[i] = all[i]
        OBVIOUS
    <3>1. CASE i <= n
        BY <1>1, <2>4, <3>1
    <3>2. CASE ~(i <= n)
      <4>1. i - n \in 1..last - n /\ n + (i - n) = i
          BY <1>1, <2>2, <3>2
      <4> QED
          BY <2>3, <2>4, <3>2, <4>1
    <3> QED
        BY <3>1, <3>2
  <2>6. IsList(got \o pg)
      BY <2>4, ListsAre
  <2>7. last <= Len(all)
      BY <2>2 DEF l
  <2> QED
      BY <1>1, <2>4, <2>5, <2>6, <2>7, PrefixMeans DEF pg, n
<1> QED
    BY <1>2, <1>3

\* The children of the folder a TV is in.
Listed(t, order, req) == browse(cfg, tv[t].at, copies, Now(order), req).children

Prefix(t) == \E order \in MapOrders : /\ IsPrefix(tv[t].got, Children(t, order))
                                      /\ Len(Children(t, order)) = tv[t].total

\* What a TV has been sent of a folder that is still the same.
Successive(t) ==
    tv[t].steady /\ tv[t].got # <<>> =>
        /\ ToSet(Needs(cfg, tv[t].at, Today[hour])) \subseteq DOMAIN copies
        /\ ~HasTies(t) => Prefix(t)

\* A step that leaves a folder the same.
Unmoved(t) ==
    /\ \A k \in ToSet(Needs(cfg, tv[t].at, Today[hour])) : k \in DOMAIN copies' /\ copies'[k] = copies[k]
    /\ tv[t].at.path[1] \in {"random", "onthisday"} => hour' = hour

LEMMA FolderStays ==
    ASSUME TreeInv, NEW t \in TVs, cfg' = cfg, tv'[t].at = tv[t].at, Unmoved(t)
    PROVE  /\ ToSet(Needs(cfg', tv'[t].at, Today[hour'])) \subseteq DOMAIN copies'
           /\ \A order, req : Listed(t, order, req)' = Listed(t, order, req)
           /\ HasTies(t)' <=> HasTies(t)
<1> DEFINE id == tv[t].at
<1>1. IsPath(id.path) /\ cfg \in Configs
    BY DEF TreeInv, TVsInv, IsTV, BrowsingInv
<1>2. ASSUME NEW order, NEW req
      PROVE  /\ Needs(cfg, id, Today[hour']) = Needs(cfg, id, Today[hour])
             /\ browse(cfg, id, copies', Now(order)', req) = browse(cfg, id, copies, Now(order), req)
  <2> DEFINE now == Now(order)
             then == [hour |-> hour', today |-> Today[hour'], order |-> order]
  <2>1. /\ now.hour = hour /\ now.today = Today[hour] /\ now.order = order
        /\ then.hour = hour' /\ then.today = Today[hour'] /\ then.order = order
        /\ Now(order)' = then
      BY DEF Now
  <2>2. id.path[1] \in {"random", "onthisday"} => then.hour = now.hour /\ then.today = now.today
      BY <2>1 DEF Unmoved
  <2>3. \A k \in ToSet(Needs(cfg, id, now.today)) : copies'[k] = copies[k]
      BY <2>1 DEF Unmoved
  <2> HIDE DEF id, now, then
  <2>4. /\ Needs(cfg, id, then.today) = Needs(cfg, id, now.today)
        /\ browse(cfg, id, copies', then, req) = browse(cfg, id, copies, now, req)
      BY <1>1, <2>1, <2>2, <2>3, BrowseStays
  <2> QED
      BY <2>1, <2>4 DEF now
<1>3. ToSet(Needs(cfg', tv'[t].at, Today[hour'])) \subseteq DOMAIN copies'
  <2>1. Needs(cfg', tv'[t].at, Today[hour']) = Needs(cfg, id, Today[hour])
      BY <1>2
  <2> QED
      BY <2>1 DEF Unmoved
<1>4. \A order, req : Listed(t, order, req)' = Listed(t, order, req)
    BY <1>2 DEF Listed
<1>5. HasTies(t)' <=> HasTies(t)
  <2>1. HasTies(t) <=> \E order \in MapOrders : Ties(Listed(t, order, NoSort), tv[t].at)
      BY DEF HasTies, Ties, Listed
  <2>2. HasTies(t)' <=> \E order \in MapOrders : Ties(Listed(t, order, NoSort)', tv'[t].at)
      BY DEF HasTies, Ties, Listed
  <2> QED
      BY <1>4, <2>1, <2>2
<1> QED
    BY <1>3, <1>4, <1>5

LEMMA StillSuccessive ==
    ASSUME TreeInv, NEW t \in TVs, Successive(t), cfg' = cfg, tv'[t].at = tv[t].at, tv'[t].got = tv[t].got,
           tv'[t].total = tv[t].total, tv'[t].steady => tv[t].steady,
           tv'[t].steady /\ tv[t].got # <<>> /\ ToSet(Needs(cfg, tv[t].at, Today[hour])) \subseteq DOMAIN copies
               => Unmoved(t)
    PROVE  Successive(t)'
<1> SUFFICES ASSUME tv'[t].steady, tv'[t].got # <<>>
             PROVE  /\ ToSet(Needs(cfg', tv'[t].at, Today[hour'])) \subseteq DOMAIN copies'
                    /\ (~HasTies(t) => Prefix(t))'
    BY DEF Successive
<1>1. /\ ToSet(Needs(cfg, tv[t].at, Today[hour])) \subseteq DOMAIN copies /\ Unmoved(t)
      /\ ~HasTies(t) => Prefix(t)
    BY DEF Successive
<1>2. /\ ToSet(Needs(cfg', tv'[t].at, Today[hour'])) \subseteq DOMAIN copies'
      /\ \A order, req : Listed(t, order, req)' = Listed(t, order, req)
      /\ HasTies(t)' <=> HasTies(t)
    BY <1>1, FolderStays
<1>3. \A order : Children(t, order)' = Children(t, order)
  <2>1. \A order : /\ Children(t, order) = Listed(t, order, parseSortCriteria(Criteria[t]))
                   /\ Children(t, order)' = Listed(t, order, parseSortCriteria(Criteria[t]))'
      BY DEF Children, Listed
  <2> QED
      BY <1>2, <2>1
<1>4. Prefix(t)' <=> Prefix(t)
    BY <1>3 DEF Prefix
<1> QED
    BY <1>1, <1>2, <1>4

\* Whatever the order of the map, a folder without ties lists the same.
LEMMA OneOrderOfChildren ==
    ASSUME TreeInv, NEW t \in TVs, ToSet(Needs(cfg, tv[t].at, Today[hour])) \subseteq DOMAIN copies,
           ~HasTies(t), NEW order \in MapOrders, NEW other \in MapOrders
    PROVE  Children(t, other) = Children(t, order)
<1> DEFINE req == parseSortCriteria(Criteria[t])
           now == Now(order)
           then == Now(other)
           id == tv[t].at
<1>1. IsReq(req) /\ IsPath(id.path) /\ cfg \in Configs /\ GoodLists(copies, FALSE)
  <2>1. IsReq(req)
      BY ParsedIsReq, RequestsAreUsable DEF RequestsAreUsable
  <2>2. GoodLists(copies, FALSE)
      BY GoodListsStay DEF TreeInv, CopiesInv
  <2> QED
      BY <2>1, <2>2 DEF TreeInv, TVsInv, IsTV, BrowsingInv
<1>2. /\ now.hour = hour /\ now.today = Today[hour] /\ now.order = order
      /\ then.hour = hour /\ then.today = Today[hour] /\ then.order = other
    BY DEF Now
<1>3. Today[hour] \in Nat \X Nat
    BY TodayIsADate DEF TodayIsADate, TreeInv, BrowsingInv
<1>4. ~Ties(browse(cfg, id, copies, now, NoSort).children, id)
    BY DEF HasTies, Ties
<1>5. Children(t, order) = browse(cfg, id, copies, now, req).children
      /\ Children(t, other) = browse(cfg, id, copies, then, req).children
    BY DEF Children
<1>6. ToSet(Needs(cfg, id, now.today)) \subseteq DOMAIN copies
    BY <1>2
<1> HIDE DEF req, now, then, id
<1>7. browse(cfg, id, copies, then, req) = browse(cfg, id, copies, now, req)
    BY <1>1, <1>2, <1>3, <1>4, <1>6, BrowseAnyOrder
<1> QED
    BY <1>5, <1>7

\* The next page of a folder that is still the same goes on where the last one ended.
LEMMA AnswerSucceeds ==
    ASSUME TreeInv, NEW t \in TVs, Successive(t), Answer(t)
    PROVE  Successive(t)'
<1>0. tv[t].call = "children" /\ Missing(t) = <<>> /\ IsTV(tv[t]) /\ BrowsingInv
    BY DEF Answer, TVsInv, TreeInv
<1>1. PICK order \in MapOrders :
        LET req    == parseSortCriteria(Criteria[t])
            answer == browse(cfg, tv[t].at, copies, Now(order), req)
            sent   == page(answer.children, Len(tv[t].got), Count[t])
        IN  tv' = [tv EXCEPT ![t] = IF answer.found
                     THEN [tv[t] EXCEPT !.call = "none", !.got = @ \o sent,
                                        !.total = Len(answer.children)]
                     ELSE Arrived(cfg.start, -1)]
    BY DEF Answer
<1> DEFINE cs == Children(t, order)
           sent == page(cs, Len(tv[t].got), Count[t])
           found == browse(cfg, tv[t].at, copies, Now(order), parseSortCriteria(Criteria[t])).found
           v == tv[t]
           total == Len(cs)
<1>2. tv' = [tv EXCEPT ![t] = IF found
               THEN [v EXCEPT !.call = "none", !.got = @ \o sent, !.total = total]
               ELSE Arrived(cfg.start, -1)]
    BY <1>1 DEF Children
<1>3. ToSet(Needs(cfg, v.at, Today[hour])) \subseteq DOMAIN copies
    BY <1>0, CallHasItsListings
<1>4. IsNodes(cs)
    BY <1>0, <1>3, ChildrenInSort DEF IsTV, TreeInv
<1>5. total \in Nat /\ Count[t] \in Nat /\ IsNodes(v.got) /\ Len(v.got) \in Nat
    BY <1>0, <1>4, RequestsAreUsable DEF IsTV, IsNodes, IsList, RequestsAreUsable
<1>6. UNCHANGED <<cfg, hour, copies>>
    BY DEF Answer
<1> HIDE DEF cs, found
<1>7. IsNodes(sent)
    BY <1>4, <1>5, NodesPage
<1>8. CASE ~found
  <2>1. tv'[t] = Arrived(cfg.start, -1)
      BY <1>2, <1>8 DEF TreeInv, TVsInv
  <2>2. tv'[t].got = <<>>
      BY <2>1 DEF Arrived
  <2> QED
      BY <2>2 DEF Successive
<1>9. CASE found
  <2> HIDE DEF v, sent, total
  <2>1. PICK w : w = [v EXCEPT !.call = "none", !.got = @ \o sent, !.total = total]
      OBVIOUS
  <2>2. w.at = v.at /\ w.got = v.got \o sent /\ w.total = total /\ w.steady = v.steady
    <3>1. v = [at |-> v.at, got |-> v.got, total |-> v.total, call |-> v.call, of |-> v.of,
               meta |-> v.meta, promised |-> v.promised, steady |-> v.steady]
        BY <1>0 DEF IsTV, v
    <3> QED
        BY ONLY <2>1, <3>1
  <2>3. tv'[t] = w
      BY <1>2, <1>9, <2>1 DEF TreeInv, TVsInv
  <2> SUFFICES ASSUME v.steady, ~HasTies(t)
               PROVE  \E o \in MapOrders : IsPrefix(w.got, Children(t, o)) /\ Len(Children(t, o)) = w.total
    <3>1. tv'[t].at = tv[t].at /\ tv'[t].steady = v.steady
        BY <2>2, <2>3 DEF v
    <3>2. HasTies(t)' <=> HasTies(t)
        BY <1>6, <3>1, SMTT(20) DEF HasTies, Now
    <3>3. \A o : Children(t, o)' = Children(t, o)
        BY <1>6, <3>1 DEF Children, Now
    <3>4. ToSet(Needs(cfg, tv[t].at, Today[hour]))' \subseteq DOMAIN copies'
        BY <1>3, <1>6, <3>1 DEF v
    <3> QED
        BY <2>3, <3>1, <3>2, <3>3, <3>4 DEF Successive, Prefix
  <2>4. IsPrefix(v.got, cs)
    <3>1. CASE v.got = <<>>
      <4>1. IsList(v.got) /\ IsList(cs) /\ Len(v.got) = 0 /\ Len(cs) \in Nat
          BY <1>4, <1>5, <3>1 DEF IsNodes, total
      <4>2. \A i \in 1..0 : v.got[i] = cs[i]
          OBVIOUS
      <4> QED
          BY <4>1, <4>2, PrefixMeans
    <3>2. CASE v.got # <<>>
      <4>1. PICK o \in MapOrders : IsPrefix(v.got, Children(t, o))
          BY <3>2 DEF Successive, Prefix, v
      <4>2. Children(t, o) = cs
          BY <1>3, OneOrderOfChildren DEF cs, v
      <4> QED
          BY <4>1, <4>2
    <3> QED
        BY <3>1, <3>2
  <2>5. IsPrefix(v.got \o sent, cs)
      BY <1>4, <1>5, <2>4, NextPage DEF sent, v
  <2> QED
      BY <2>2, <2>5 DEF cs, total
<1> QED
    BY <1>8, <1>9

SuccInv == \A t \in TVs : Successive(t)

LEMMA SuccInvNext == TreeInv /\ SuccInv /\ [Next]_vars => SuccInv'
<1> SUFFICES ASSUME TreeInv, SuccInv, [Next]_vars, NEW t \in TVs PROVE Successive(t)'
    BY DEF SuccInv
<1>0. Successive(t) /\ cfg' = cfg /\ t \in DOMAIN tv /\ tv = [u \in TVs |-> tv[u]] /\ IsTV(tv[t])
    BY ConfigStays DEF SuccInv, TreeInv, TVsInv
<1> DEFINE needs == ToSet(Needs(cfg, tv[t].at, Today[hour]))
           Still == tv'[t].at = tv[t].at /\ tv'[t].got = tv[t].got /\ tv'[t].total = tv[t].total
<1>1. ASSUME Still, tv'[t].steady => tv[t].steady,
             tv'[t].steady /\ tv[t].got # <<>> /\ needs \subseteq DOMAIN copies => Unmoved(t)
      PROVE  Successive(t)'
    BY <1>0, <1>1, StillSuccessive
<1>2. ASSUME UNCHANGED <<hour, copies>>, Still, tv'[t].steady => tv[t].steady PROVE Successive(t)'
  <2>1. needs \subseteq DOMAIN copies => Unmoved(t)
      BY <1>2 DEF Unmoved
  <2> QED
      BY <1>1, <1>2, <2>1
<1>3. ASSUME tv'[t].got = <<>> PROVE Successive(t)'
    BY <1>3 DEF Successive
<1> HIDE DEF Still, needs
<1>4. CASE UNCHANGED vars \/ LoadStep \/ ChangeLibrary \/ \E u \in TVs : Load(u) \/ Open(u)
  <2>1. UNCHANGED <<hour, copies, tv>>
      BY <1>4 DEF vars, LoadStep, ChangeLibrary, Load, Open
  <2> QED
      BY <1>2, <2>1 DEF Still
<1>5. ASSUME NEW u \in TVs, Ask(u) \/ AskMetadata(u) \/ AnswerMetadata(u) \/ GiveUp(u)
      PROVE  Successive(t)'
  <2>1. UNCHANGED <<hour, copies>>
      BY <1>5 DEF Ask, AskMetadata, AnswerMetadata, GiveUp
  <2>2. Still /\ tv'[t].steady = tv[t].steady
    <3>1. CASE Ask(u)
        BY <1>0, <3>1 DEF Ask, IsTV, Still
    <3>2. CASE AskMetadata(u)
        BY <1>0, <3>2 DEF AskMetadata, IsTV, Still
    <3>3. CASE AnswerMetadata(u)
        BY <1>0, <3>3 DEF AnswerMetadata, IsTV, Still
    <3>4. CASE GiveUp(u)
        BY <1>0, <3>4 DEF GiveUp, IsTV, Still
    <3> QED
        BY <1>5, <3>1, <3>2, <3>3, <3>4
  <2> QED
      BY <1>2, <2>1, <2>2
<1>6. ASSUME NEW u \in TVs, u # t, Answer(u) \/ Descend(u) PROVE Successive(t)'
  <2>1. UNCHANGED <<hour, copies>>
      BY <1>6 DEF Answer, Descend
  <2>2. tv'[t] = tv[t]
    <3>1. \E w : tv' = [tv EXCEPT ![u] = w]
        BY <1>6 DEF Answer, Descend
    <3> QED
        BY <1>0, <1>6, <3>1
  <2> QED
      BY <1>2, <2>1, <2>2 DEF Still
<1>7. CASE Answer(t)
    BY <1>0, <1>7, AnswerSucceeds
<1>8. CASE Descend(t)
  <2>1. \E id, p : tv' = [tv EXCEPT ![t] = Arrived(id, p)]
      BY <1>8 DEF Descend
  <2>2. tv'[t].got = <<>>
      BY <1>0, <2>1 DEF Arrived
  <2> QED
      BY <1>3, <2>2
<1>9. CASE LoadEnds
  <2>1. hour' = hour /\ Still /\ tv'[t].steady = tv[t].steady
    <3>1. hour' = hour
        BY <1>9 DEF LoadEnds
    <3>2. tv'[t] = tv[t] \/ tv'[t] = [tv[t] EXCEPT !.call = "none"]
        BY <1>9 DEF LoadEnds
    <3> QED
        BY <1>0, <3>1, <3>2 DEF IsTV, Still
  <2>2. needs \subseteq DOMAIN copies => Unmoved(t)
    <3>1. CASE LoadFails
        BY <1>9, <2>1, <3>1 DEF LoadEnds, Unmoved, needs
    <3>2. CASE ~LoadFails
      <4>1. job.key \notin DOMAIN copies
        <5>1. job # Idle
            BY <1>9 DEF LoadEnds, EndLoad, Settled, Idle
        <5> QED
            BY <5>1 DEF TreeInv, CopiesInv
      <4> QED
          BY <1>9, <2>1, <3>2, <4>1, CopiesAfterLoad DEF Unmoved, needs
    <3> QED
        BY <3>1, <3>2
  <2> QED
      BY <1>1, <2>1, <2>2
<1>10. ASSUME NEW key \in DOMAIN copies, Expire(key) PROVE Successive(t)'
  <2>1. /\ copies' = [k \in DOMAIN copies \ {key} |-> copies[k]] /\ hour' = hour
        /\ tv'[t] = IF key \in needs THEN [tv[t] EXCEPT !.steady = @ /\ tv[t].got = <<>>, !.promised = -1]
                    ELSE tv[t]
      BY <1>10 DEF Expire, needs
  <2>2. CASE key \notin needs
    <3>1. tv'[t] = tv[t]
        BY <2>1, <2>2
    <3>2. needs \subseteq DOMAIN copies => Unmoved(t)
        BY <2>1, <2>2 DEF Unmoved, needs
    <3> QED
        BY <1>1, <3>1, <3>2 DEF Still
  <2>3. CASE key \in needs
    <3>1. PICK w : w = [tv[t] EXCEPT !.steady = @ /\ tv[t].got = <<>>, !.promised = -1]
        OBVIOUS
    <3>2. tv'[t] = w
        BY <2>1, <2>3, <3>1
    <3>3. w.at = tv[t].at /\ w.got = tv[t].got /\ w.total = tv[t].total
          /\ w.steady = (tv[t].steady /\ tv[t].got = <<>>)
        BY <1>0, <3>1 DEF IsTV
    <3> QED
        BY <1>1, <3>2, <3>3 DEF Still
  <2> QED
      BY <2>2, <2>3
<1>11. CASE Tick
  <2>1. /\ copies' = copies
        /\ tv'[t] = [tv[t] EXCEPT !.steady = @ /\ ~(tv[t].got # <<>> /\ tv[t].at.path[1] \in {"random", "onthisday"})]
      BY <1>11 DEF Tick
  <2>2. /\ tv'[t].at = tv[t].at /\ tv'[t].got = tv[t].got /\ tv'[t].total = tv[t].total
        /\ tv'[t].steady = (tv[t].steady /\ ~(tv[t].got # <<>> /\ tv[t].at.path[1] \in {"random", "onthisday"}))
      BY <1>0, <2>1 DEF IsTV
  <2>3. tv'[t].steady /\ tv[t].got # <<>> /\ needs \subseteq DOMAIN copies => Unmoved(t)
      BY <2>1, <2>2 DEF Unmoved, needs
  <2> QED
      BY <1>1, <2>2, <2>3 DEF Still
<1> QED
  <2>1. \/ UNCHANGED vars \/ LoadStep \/ ChangeLibrary \/ (\E u \in TVs : Load(u) \/ Open(u))
        \/ (\E u \in TVs : Ask(u) \/ AskMetadata(u) \/ AnswerMetadata(u) \/ GiveUp(u))
        \/ (\E u \in TVs : Answer(u) \/ Descend(u)) \/ LoadEnds
        \/ (\E key \in DOMAIN copies : Expire(key)) \/ Tick
      BY DEF Next
  <2> QED
      BY <1>4, <1>5, <1>6, <1>7, <1>8, <1>9, <1>10, <1>11, <2>1

LEMMA SuccessivePages == TreeInv /\ SuccInv => PagesAreSuccessive
<1> SUFFICES ASSUME TreeInv, SuccInv, NEW t \in TVs, tv[t].steady, tv[t].got # <<>>, ~HasTies(t)
             PROVE  LET got == tv[t].got
                        req == parseSortCriteria(Criteria[t])
                        key(i) == SortKey(tv[t].at, got[i].id, req)
                        all(order) == browse(cfg, tv[t].at, copies, Now(order), req).children
                    IN  /\ \E order \in MapOrders : IsPrefix(got, all(order)) /\ Len(all(order)) = tv[t].total
                        /\ changes = 0 \/ req # NoSort => \A i, j \in DOMAIN got : i < j => key(i) <= key(j)
    BY DEF PagesAreSuccessive
<1> DEFINE got == tv[t].got
           req == parseSortCriteria(Criteria[t])
           key(i) == SortKey(tv[t].at, got[i].id, req)
<1>1. ToSet(Needs(cfg, tv[t].at, Today[hour])) \subseteq DOMAIN copies /\ Prefix(t)
    BY DEF SuccInv, Successive
<1>2. PICK order \in MapOrders : IsPrefix(got, Children(t, order)) /\ Len(Children(t, order)) = tv[t].total
    BY <1>1 DEF Prefix
<1> DEFINE cs == Children(t, order)
<1>3. /\ IsNodes(cs) /\ (req # NoSort \/ changes = 0 => InSort(cs, tv[t].at, req))
      /\ IsNodes(got)
    BY <1>1, ChildrenInSort DEF TreeInv, TVsInv, IsTV
<1>4. ASSUME changes = 0 \/ req # NoSort, NEW i \in DOMAIN got, NEW j \in DOMAIN got, i < j
      PROVE  key(i) <= key(j)
  <2> HIDE DEF got, cs, req
  <2>1. InSort(cs, tv[t].at, req)
      BY <1>3, <1>4
  <2>2. IsList(got) /\ IsList(cs) /\ IsPrefix(got, cs)
      BY <1>2, <1>3 DEF IsNodes, cs, got
  <2>3. /\ DOMAIN got = 1..Len(got) /\ DOMAIN cs = 1..Len(cs) /\ Len(got) \in Nat /\ Len(cs) \in Nat
        /\ Len(got) <= Len(cs) /\ \A n \in 1..Len(got) : got[n] = cs[n]
      BY <2>2, ListLen, PrefixMeans
  <2>4. i \in DOMAIN cs /\ j \in DOMAIN cs /\ got[i] = cs[i] /\ got[j] = cs[j]
      BY <1>4, <2>3
  <2> QED
      BY <1>4, <2>1, <2>4 DEF InSort
<1>5. \E o \in MapOrders :
        LET all == browse(cfg, tv[t].at, copies, Now(o), req).children
        IN  IsPrefix(got, all) /\ Len(all) = tv[t].total
    BY <1>2 DEF Children
<1> HIDE DEF got, req
<1> QED
    BY <1>4, <1>5 DEF got, req

\* Whatever the library, the listings, the places and their titles, the sizes of the pages, the
\* orders asked for and the number of TVs, a TV's pages add up to the folder's children, in order.
\* (page, contentdirectory.go:443-457; sortByTitle and sortPhotos, :411-441; the clone of the cached
\* albums, :255; the fixed sample, extrafolders.go:207-221.)
THEOREM PagesAddUp == Spec => []PagesAreSuccessive
<1>1. Init => TreeInv /\ SuccInv
    BY TreeInvInit DEF Init, SuccInv, Successive, Arrived
<1>2. TreeInv /\ SuccInv /\ [Next]_vars => (TreeInv /\ SuccInv)'
    BY TreeInvNext, SuccInvNext
<1> QED
    BY <1>1, <1>2, SuccessivePages, PTL DEF Spec
=============================================================================
