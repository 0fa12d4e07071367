----------------------------- MODULE Renditions -----------------------------
(***************************************************************************)
(* Which picture a TV is promised for an asset and which one it is sent    *)
(* (dlna/contentdirectory.go, photosource.go, videosource.go, the          *)
(* transforms of dlna/server.go, and imageproc/).                          *)
(*                                                                         *)
(* A picture is its width, its height and, per position, the set of the    *)
(* stored pixels it is made of; <<0, 0>> is its top left corner.  A file   *)
(* is such a picture with what Immich says of it, and what its bytes say.  *)
(***************************************************************************)
EXTENDS Integers, Sequences, FiniteSets

Positions(w, h) == (0..w - 1) \X (0..h - 1)

\* A picture as it is stored: one pixel per position.
Stored(w, h) == [w |-> w, h |-> h, at |-> [p \in Positions(w, h) |-> {p}]]

Photo(file) == file.type = "IMAGE"
Video(file) == file.type = "VIDEO"

\* The empty MIME type: one that Immich does not know, or does not send.
NoType == "none"

\* The MIME types that begin with video/.
VideoTypes == {"video/mp4", "video/quicktime", "video/x-matroska"}
isVideoMimeType(mime) == mime \in VideoTypes

\* A file in Immich has pixels, and so has its preview.  mime is the type it is listed with and
\* content the one its original is sent with, the same unless Immich does not know it (NoType).  Its
\* bytes are a JPEG, a PNG or in another format, and may not decode; only a JPEG is read as one that
\* is turned.  No photo is sent as a video, and no video's bytes are a picture.  transcoded says
\* whether Immich has another version of a video to play.
IsFile(file) ==
    /\ file.type \in {"IMAGE", "VIDEO"} /\ file.format \in {"jpeg", "png", "other"}
    /\ file.w \in Nat \ {0} /\ file.h \in Nat \ {0}
    /\ file.preview \in (Nat \ {0}) \X (Nat \ {0})
    /\ file.orientation \in Nat /\ (file.format # "jpeg" => file.orientation = 1)
    /\ file.decodes \in BOOLEAN /\ file.transcoded \in BOOLEAN
    /\ file.mime # NoType => file.content = file.mime
    /\ IF Video(file) THEN file.format = "other" ELSE ~isVideoMimeType(file.content)

-----------------------------------------------------------------------------
(* What is advertised, and which of Immich's renditions is fetched. *)

displayableImage(mime) == mime \in {"image/jpeg", "image/jpg", "image/png"}

\* Whether a photo is sent as Immich's preview: not one of an unknown type, except by that mode.
servesPreview(mode, file) ==
    /\ Photo(file)
    /\ \/ mode = "preview"
       \/ mode = "auto" /\ file.mime # NoType /\ ~displayableImage(file.mime)

servesTranscoded(cfg) == cfg.videoSource = "transcoded"
Downscaling(cfg)      == cfg.maxW > 0 /\ cfg.maxH > 0

\* The MIME type of an item, where nothing is converted.
listedType(file) == IF file.mime # NoType THEN file.mime
                    ELSE IF Video(file) THEN "video/mp4" ELSE "image/jpeg"

\* The MIME type an item is listed with, whether it is flagged as converted, and whether it has
\* the original's size.
buildAssetItem(cfg, file) ==
    IF Video(file) /\ servesTranscoded(cfg)
    THEN [mime |-> "video/mp4", converted |-> TRUE, sized |-> FALSE]
    ELSE IF servesPreview(cfg.photoSource, file)
    THEN [mime |-> "image/jpeg", converted |-> TRUE, sized |-> FALSE]
    ELSE [mime |-> listedType(file), converted |-> FALSE,
          sized |-> Video(file) \/ ~(Downscaling(cfg) /\ displayableImage(file.mime))]

\* Which rendition /media/ fetches on a cache miss: the lookup of the asset may fail.
mediaVariantFor(cfg, file, lookup) ==
    IF lookup = "failed" \/ (cfg.photoSource = "original" /\ ~servesTranscoded(cfg)) THEN "original"
    ELSE IF Video(file) /\ servesTranscoded(cfg) THEN "playback"
    ELSE IF servesPreview(cfg.photoSource, file) THEN "preview"
    ELSE "original"

\* The client's default, where Immich sends no Content-Type.
contentType(content) == IF content = NoType THEN "image/jpeg" ELSE content

\* What Immich sends for each: its previews are upright JPEGs, and what it plays is its
\* transcoded version, or the original where it has none.
Fetched(file, variant, lookup) ==
    LET bytes(mime, format, decodes, orientation, w, h) ==
            [rendition |-> variant, lookup |-> lookup, mime |-> mime, format |-> format,
             decodes |-> decodes, orientation |-> orientation, picture |-> Stored(w, h),
             changed |-> FALSE]
    IN  CASE variant = "preview" ->
                 bytes("image/jpeg", "jpeg", TRUE, 1, file.preview[1], file.preview[2])
          [] variant = "playback" /\ file.transcoded ->
                 bytes("video/mp4", "other", FALSE, 1, file.w, file.h)
          [] OTHER ->
                 bytes(contentType(file.content), file.format, file.decodes, file.orientation,
                       file.w, file.h)

-----------------------------------------------------------------------------
(* imageproc: EXIF orientation. *)

\* The picture whose pixel at To(x, y) is pic's at <<x, y>>.
Redraw(pic, w, h, To(_, _)) ==
    [w |-> w, h |-> h,
     at |-> [q \in Positions(w, h) |-> UNION {pic.at[p] : p \in {r \in DOMAIN pic.at : To(r[1], r[2]) = q}}]]

flipH(pic)       == Redraw(pic, pic.w, pic.h, LAMBDA x, y : <<pic.w - 1 - x, y>>)
flipV(pic)       == Redraw(pic, pic.w, pic.h, LAMBDA x, y : <<x, pic.h - 1 - y>>)
rotate180(pic)   == Redraw(pic, pic.w, pic.h, LAMBDA x, y : <<pic.w - 1 - x, pic.h - 1 - y>>)
rotate90CW(pic)  == Redraw(pic, pic.h, pic.w, LAMBDA x, y : <<pic.h - 1 - y, x>>)
rotate90CCW(pic) == Redraw(pic, pic.h, pic.w, LAMBDA x, y : <<y, pic.w - 1 - x>>)
transpose(pic)   == Redraw(pic, pic.h, pic.w, LAMBDA x, y : <<y, x>>)
transverse(pic)  == Redraw(pic, pic.h, pic.w, LAMBDA x, y : <<pic.h - 1 - y, pic.w - 1 - x>>)

applyOrientation(pic, o) ==
    CASE o = 2 -> flipH(pic) [] o = 3 -> rotate180(pic) [] o = 4 -> flipV(pic)
      [] o = 5 -> transpose(pic) [] o = 6 -> rotate90CW(pic)
      [] o = 7 -> transverse(pic) [] o = 8 -> rotate90CCW(pic)

\* Only JPEGs have an orientation that is read; changed: the bytes are not the fetched ones.
\* One that does not decode passes through, turned as it is.
FixOrientation(got) ==
    IF got.format = "jpeg" /\ got.orientation \in 2..8 /\ got.decodes
    THEN [got EXCEPT !.picture = applyOrientation(@, got.orientation),
                     !.orientation = 1, !.changed = TRUE]
    ELSE got

-----------------------------------------------------------------------------
(* imageproc: downscaling. *)

\* num / den, rounded half up: int(x + 0.5).
Rounded(num, den) == (2 * num + den) \div (2 * den)
AtLeast1(n)       == IF n < 1 THEN 1 ELSE n

\* A box filter: position <<x, y>> is the average of the block of pixels it corresponds to.
downscale(pic, maxW, maxH) ==
    LET tall == maxH * pic.w < maxW * pic.h    \* the height limits the scale, num / den
        num  == IF tall THEN maxH ELSE maxW
        den  == IF tall THEN pic.h ELSE pic.w
        dw   == AtLeast1(Rounded(pic.w * num, den))
        dh   == AtLeast1(Rounded(pic.h * num, den))
        Block(i, from, to) ==
            LET first == (i * from) \div to
                end   == ((i + 1) * from) \div to
            IN  first..(IF end <= first THEN first ELSE end - 1)
    IN  [w |-> dw, h |-> dh,
         at |-> [q \in Positions(dw, dh) |->
                   UNION {pic.at[p] : p \in Block(q[1], pic.w, dw) \X Block(q[2], pic.h, dh)}]]

\* Bytes that are a JPEG or a PNG, whatever they are called; an image that fits, or does not
\* decode, passes through.
MaybeDownscale(got, maxW, maxH) ==
    IF \/ maxW <= 0 \/ maxH <= 0
       \/ got.picture.w <= maxW /\ got.picture.h <= maxH
       \/ got.format \notin {"jpeg", "png"} \/ ~got.decodes
    THEN got
    ELSE [got EXCEPT !.picture = downscale(@, maxW, maxH), !.orientation = 1, !.changed = TRUE]

-----------------------------------------------------------------------------
(* handleMedia. *)

\* A mutant: downscaled first, which drops the orientation with the rest of the EXIF data.
transformResizedFirst(cfg, got) == FixOrientation(MaybeDownscale(got, cfg.maxW, cfg.maxH))

\* fixOrientation, then maybeResize.
transform(cfg, got) == MaybeDownscale(FixOrientation(got), cfg.maxW, cfg.maxH)

\* A mutant: a video is played from its original, however it is listed.
proxiedOriginal(cfg, file) == Fetched(file, "original", "none")

\* openRange: a video is proxied as the configuration says, with no lookup.
proxied(cfg, file) == Fetched(file, IF servesTranscoded(cfg) THEN "playback" ELSE "original", "none")

\* What a miss puts into the cache: videos are not transformed.
cacheFill(cfg, file, lookup) ==
    LET got == Fetched(file, mediaVariantFor(cfg, file, lookup), lookup)
    IN  IF isVideoMimeType(got.mime) THEN got ELSE transform(cfg, got)

\* What the request that missed is sent.
handleMedia(cfg, file, lookup) ==
    LET filled == cacheFill(cfg, file, lookup)
    IN  IF isVideoMimeType(filled.mime) THEN proxied(cfg, file) ELSE filled

-----------------------------------------------------------------------------
(* What a TV may expect of the picture; not the code's. *)

\* The EXIF standard: on which visual side row 0 and column 0 of the stored pixels are.
RowSide    == <<"top", "top", "bottom", "bottom", "left", "right", "right", "left">>
ColumnSide == <<"left", "right", "right", "left", "top", "top", "bottom", "bottom">>

\* Where a viewer that knows orientation o shows the stored pixel in this column and row.
Shown(o, w, h, column, row) ==
    LET from(side, i, n) == IF side \in {"top", "left"} THEN i ELSE n - 1 - i
        r == from(RowSide[o], row, h)
        c == from(ColumnSide[o], column, w)
    IN  IF RowSide[o] \in {"top", "bottom"} THEN <<c, r>> ELSE <<r, c>>

\* A TV that ignores the orientation shows pic as a viewer that knows o shows a w x h file, but
\* for its scale: every pixel is somewhere, none twice, and none out of order.
Upright(pic, o, w, h) ==
    LET shown(p) == IF o \in 2..8 THEN Shown(o, w, h, p[1], p[2]) ELSE p
    IN  /\ UNION {pic.at[q] : q \in DOMAIN pic.at} = Positions(w, h)
        /\ \A q1, q2 \in DOMAIN pic.at : \A p1 \in pic.at[q1], p2 \in pic.at[q2] :
             /\ q1 # q2 => p1 # p2
             /\ \A i \in {1, 2} : q1[i] < q2[i] => shown(p1)[i] < shown(p2)[i]

Fits(pic, maxW, maxH) == pic.w <= maxW /\ pic.h <= maxH

\* A JPEG or PNG that can be read is shown upright and whole by a TV that knows nothing of EXIF, and
\* is within MAX_RESOLUTION; anything else is what Immich sent.
ShownAsPromised(cfg, file, sent) ==
    IF sent.format \in {"jpeg", "png"} /\ sent.decodes
    THEN /\ sent.orientation \notin 2..8
         /\ IF sent.rendition = "preview"
            THEN Upright(sent.picture, 1, file.preview[1], file.preview[2])
            ELSE Upright(sent.picture, file.orientation, file.w, file.h)
         /\ Downscaling(cfg) => Fits(sent.picture, cfg.maxW, cfg.maxH)
    ELSE ~sent.changed

\* What is sent is the rendition that was listed, and of the listed type, unless the lookup failed
\* when it was fetched: then it is the original.  Immich's type is not known of an original without
\* one, and a video it has not transcoded keeps its own.  Where a size was listed, it is the original
\* file's bytes that are sent, but for a photo that had to be turned or one that is a JPEG or PNG
\* and not listed as such.
SentAsListed(cfg, file, item, sent) ==
    /\ sent.lookup # "failed" =>
         /\ item.converted <=> sent.rendition # "original"
         /\ file.mime # NoType \/ item.converted =>
              sent.mime = item.mime \/ (sent.rendition = "playback" /\ ~file.transcoded)
    /\ item.sized =>
         /\ sent.rendition = "original"
         /\ sent.changed => \/ file.orientation \in 2..8
                            \/ sent.format \in {"jpeg", "png"} /\ ~displayableImage(file.mime)
=============================================================================
