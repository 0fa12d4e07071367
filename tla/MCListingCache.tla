--------------------------- MODULE MCListingCache ---------------------------
(* Small instances of ListingCache for TLC. *)
EXTENDS ListingCache

CONSTANTS b1, b2, p1, albums, people, person

\* Browse of "albums", of an account's root, and of a person.
AllPlans == {<<albums>>, <<albums, people>>, <<person>>}
LeafPlans == {<<albums>>, <<person>>}
RootPlans == {<<albums>>, <<albums, people>>}
AlbumPlans == {<<albums>>}

WatchedKeys == <<albums, people>>
WatchedAlbums == <<albums>>
=============================================================================
