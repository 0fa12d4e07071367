---------------------------- MODULE PhotoLibrary ----------------------------
(***************************************************************************)
(* The photo library as the proxy sees it: what Immich reports of an asset *)
(* (immich/types.go), the order and the pages of its search endpoint, and  *)
(* the calendar of Go's time package, in years of a few days.              *)
(*                                                                         *)
(* Instants are hours since the start of year 0.  A year has Days days,    *)
(* every fourth one day more, and each day stands for a month of its own:  *)
(* the last day of a leap year is its 29 February.                         *)
(***************************************************************************)
EXTENDS Integers, Sequences, FiniteSets, SequencesExt, TLC

CONSTANTS
    Assets,
    Captured,  \* per asset, fileCreatedAt; Zero if missing or unparseable
    Zone,      \* per asset, the hours its local time is ahead of UTC
    Type,      \* per asset, "IMAGE", "VIDEO" or another of Immich's types
    Place,     \* per asset, <<country, city>>, "" for what is not known
    Title,     \* per name of an asset, album, person, country or city: its rank in the
               \* order of lower-cased titles
    Days,      \* the days of a year that is not a leap year
    PageSize   \* searchPageSize

\* time.Time{}, which is before everything.
Zero == -1

ASSUME AssetsAreDescribed ==
    /\ IsFiniteSet(Assets)
    /\ Captured \in [Assets -> Nat \cup {Zero}]
    /\ \A a \in Assets : Captured[a] >= 12 \/ Captured[a] = Zero    \* local time is not before year 0
    /\ Zone \in [Assets -> -12..14]
    /\ DOMAIN Type = Assets /\ DOMAIN Place = Assets
ASSUME SizesArePositive == PageSize \in Nat \ {0}
ASSUME YearsHaveDays == Days \in Nat /\ Days >= 3    \* a day, in all time zones, is over before its anniversary

IsPhoto(a) == Type[a] = "IMAGE"
IsVideo(a) == Type[a] = "VIDEO"

CapturedAt(a) == Captured[a]

-----------------------------------------------------------------------------
(* The calendar. *)

DaysIn(y) == IF y % 4 = 0 THEN Days + 1 ELSE Days

\* The instant at which day d of year y begins, with (y + 3) \div 4 leap days before year y.
Midnight(y, d) == 24 * (Days * y + (y + 3) \div 4 + d - 1)

\* The year and day of an instant.
YearOf(t) == CHOOSE y \in 0..t \div 24 : Midnight(y, 1) <= t /\ t < Midnight(y + 1, 1)
DateOf(t) == <<YearOf(t), 1 + (t - Midnight(YearOf(t), 1)) \div 24>>

\* The date on the calendar where the asset was captured: localDateTime, which Immich
\* writes as if it were in UTC.
LocalCaptureDate(a) == DateOf(Captured[a] + Zone[a])

-----------------------------------------------------------------------------
(* Sequences. *)

\* The elements of s that are in set, in their order.
Where(s, set) ==
    LET kept[n \in 0..Len(s)] ==
            IF n = 0 THEN <<>> ELSE IF s[n] \in set THEN Append(kept[n - 1], s[n]) ELSE kept[n - 1]
    IN  kept[Len(s)]

\* slices.SortFunc by a key per element: some order of ties, the same whenever s is the same.
SortFunc(s, key) ==
    LET sorted[n \in 0..Len(s)] ==
            IF n = 0 THEN <<>>
            ELSE LET before == sorted[n - 1]
                     place  == Cardinality({i \in DOMAIN before : key[before[i]] <= key[s[n]]})
                 IN  SubSeq(before, 1, place) \o <<s[n]>> \o SubSeq(before, place + 1, n - 1)
    IN  sorted[Len(s)]

-----------------------------------------------------------------------------
(* Immich's searches. *)

\* The assets of a set, most recently captured first.
NewestFirst(set) ==
    LET newest(rest) == CHOOSE a \in rest : \A z \in rest : Captured[a] >= Captured[z]
        list[rest \in SUBSET set] ==
            IF rest = {} THEN <<>> ELSE <<newest(rest)>> \o list[rest \ {newest(rest)}]
    IN  list[set]

\* One page of the assets that match, and whether another one follows.
PageOf(set, p) ==
    LET more == p * PageSize < Cardinality(set)
    IN  [items |-> SubSeq(NewestFirst(set), (p - 1) * PageSize + 1,
                          IF more THEN p * PageSize ELSE Cardinality(set)),
         more  |-> more]
=============================================================================
