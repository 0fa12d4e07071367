----------------------------- MODULE MCBrowsing -----------------------------
(* Small instances of Browsing for TLC: a library of eight assets, and a     *)
(* configuration for each kind of folder.                                    *)
EXTENDS Browsing

CONSTANTS t1, t2, east, west, late, leap, near, song, lost, old, alba, blue, ann, bob, who

\* Captured where it is 00:00 or 23:00 on day 3 of year 5, at the two ends of the time zones; on
\* that day of year 7; on the leap day of year 4, which by UTC is in year 5; the day before in year 5; no photo or video; no
\* date; and before 1970.
MCAssets   == {east, west, late, leap, near, song, lost, old}
MCCaptured == east :> Midnight(5, 3) - 14 @@ west :> Midnight(5, 3) + 35
              @@ late :> Midnight(7, 3) + 9 @@ leap :> Midnight(5, 1) + 5
              @@ near :> Midnight(5, 3) - 1 @@ song :> Midnight(7, 3) + 2
              @@ lost :> Zero @@ old :> Midnight(1, 3) + 7
MCZone     == [a \in MCAssets |-> CASE a = east -> 14 [] a \in {west, leap} -> -12 [] OTHER -> 0]
MCType     == [a \in MCAssets |-> CASE a = song -> "AUDIO" [] a = late -> "VIDEO" [] OTHER -> "IMAGE"]
MCPlace    == [a \in MCAssets |-> CASE a = east -> <<"Italy", "Rome">>
                                    [] a = near -> <<"Italy", "Other">>
                                    [] a = west -> <<"Italy", "">>
                                    [] a = late -> <<"Chile", "">>
                                    [] OTHER    -> <<"", "">>]
MCTitle    == east :> 3 @@ west :> 1 @@ late :> 2 @@ leap :> 4 @@ near :> 5 @@ song :> 6
              @@ lost :> 7 @@ old :> 1 @@ alba :> 1 @@ blue :> 2 @@ ann :> 2 @@ bob :> 1 @@ who :> 0
              @@ "Italy" :> 2 @@ "Chile" :> 1 @@ "Rome" :> 2 @@ "Other" :> 1
MCMembers  == alba :> {east, late, song} @@ blue :> {} @@ ann :> {west, near} @@ bob :> {old}
              @@ who :> {} @@ "favorites" :> {east, near, song}
MCMapOrders == {<<"Italy", "Chile", "Rome", "", "Other">>, <<"Other", "", "Rome", "Chile", "Italy">>}

\* The two last days of year 8, a leap year.
MCToday == [h \in {0, 1} |-> <<8, 3 + h>>]

MCAlbums   == <<alba, blue>>
MCPeople   == <<ann, who, bob>>
MCCount    == t1 :> 2 @@ t2 :> 1
MCCriteria == t1 :> <<>> @@ t2 :> <<"+upnp:class", "-dc:title", "+dc:date">>

Base(start, tvs, lib) ==
    [users |-> 1, grouping |-> "none", extras |-> <<>>, albumSizes |-> alba :> 3 @@ blue :> 0,
     start |-> Id(-1, start), tvs |-> tvs, enters |-> {"timeline", "place"},
     library |-> lib, opens |-> FALSE,
     photoSource |-> "auto", videoSource |-> "original", maxW |-> 0, maxH |-> 0]

Folder(name, tvs, lib) == [Base(<<name>>, tvs, lib) EXCEPT !.extras = <<name>>]

\* Every rendering, for one TV that opens the first item it is sent.
Renderings ==
    {[Folder("favorites", {t1}, {near}) EXCEPT
        !.opens = TRUE, !.photoSource = p, !.videoSource = v, !.maxW = m[1], !.maxH = m[2]] :
       p \in {"auto", "original", "preview"}, v \in {"original", "transcoded"},
       m \in {<<0, 0>>, <<2, 2>>, <<3, 1>>}}

\* JPEGs of two shapes under every orientation; a PNG; a HEIC, and a JPEG that is called one; JPEGs of
\* which Immich knows no type, sent with one or without; a JPEG that does not decode, and one that is
\* another format; and videos, transcoded and not, one of them with a type that is no video's.
Image(mime, format, size, o) ==
    [type |-> "IMAGE", mime |-> mime, content |-> mime, format |-> format, decodes |-> TRUE,
     orientation |-> o, w |-> size[1], h |-> size[2], preview |-> <<size[2], size[1]>>,
     transcoded |-> FALSE]
Movie(mime, transcoded) ==
    [Image(mime, "other", <<1, 1>>, 1) EXCEPT !.type = "VIDEO", !.decodes = FALSE,
                                              !.transcoded = transcoded]
MCFiles ==
    {Image("image/jpeg", "jpeg", s, o) : s \in {<<3, 2>>, <<2, 5>>}, o \in 0..9}
    \cup {Image("image/png", "png", <<3, 4>>, 1),
          [Image("image/heic", "other", <<3, 4>>, 1) EXCEPT !.decodes = FALSE],
          Image("image/heic", "jpeg", <<3, 4>>, 8), Image("image/jpeg", "other", <<3, 4>>, 1),
          [Image("image/jpeg", "jpeg", <<3, 4>>, 6) EXCEPT !.decodes = FALSE]}
    \cup {[Image(NoType, "jpeg", <<3, 4>>, 1) EXCEPT !.content = c] : c \in {NoType, "application/octet-stream"}}
    \cup {Movie("video/mp4", FALSE), Movie("application/mxf", TRUE)}
    \cup {Movie("video/quicktime", tr) : tr \in BOOLEAN}

MCConfigs ==
    Renderings \cup
    {[Base(<<"0">>, {t1}, {late}) EXCEPT !.users = 2, !.enters = {"0", "albums"}],
     [Base(<<"albums">>, {t1}, {east}) EXCEPT !.enters = {"album"}],
     [Base(<<"0">>, {t1}, {late}) EXCEPT !.extras = <<"favorites">>,
                                         !.enters = {"people", "person", "favorites", "timeline"}],
     [Base(<<"timeline">>, {t1}, {east, late, lost}) EXCEPT !.grouping = "month"],
     [Base(<<"timeline">>, {t2}, {east, near, west, lost}) EXCEPT !.grouping = "year"],
     Base(<<"albums">>, {t1, t2}, {}),
     Folder("places", {t1}, {east, near, west}),
     [Folder("places", {t2}, {east, late}) EXCEPT !.enters = {"place", "asset"}],
     Folder("places", {t2}, {near, west}),
     Folder("onthisday", {t1}, {east, west, near}),
     Folder("onthisday", {t1}, {west, late, leap}),
     Folder("random", {t1, t2}, {east, late, near})}

\* For the titles with a countdown: a timeline that begins before 1970.
TitleConfigs == {Base(<<"timeline">>, {t1}, {east, late, old})}
=============================================================================
