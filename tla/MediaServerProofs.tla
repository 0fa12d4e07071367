------------------------- MODULE MediaServerProofs -------------------------
(***************************************************************************)
(* Proofs about MediaServer, for any number of requests, keys and slots.   *)
(*                                                                         *)
(* FlightOwned, WaiterNotStranded, ClosedOnce and the rest are not         *)
(* inductive by themselves: whether the deferred finish of a request will  *)
(* end the right flight depends on what its local fl can be at each place  *)
(* of serveMedia, and on what the background fill took over.  Ind adds     *)
(* exactly that.                                                           *)
(***************************************************************************)
EXTENDS MediaServer, FiniteSetTheorems, TLAPS

\* What fl is at each place.
FlAt(r) ==
    /\ pc[r] # "idle" => key[r] \in Keys
    /\ pc[r] \in {"idle", "lookup", "join", "serve", "done"} => fl[r] = None
    /\ pc[r] = "wait" => fl[r] # None
    /\ pc[r] \in Leading => fl[r] \in {r, None}
    /\ pc[r] \in {"finish", "abandon"} \cup Closing => fl[r] = r
    /\ pc[r] \in {"queue", "fetch", "read", "detach", "put", "streamput"} =>
           (cacheOn <=> fl[r] = r)
    /\ pc[r] \in {"lookup", "join", "wait", "put", "streamput"} => cacheOn

\* The fill took the flight over from a request that is past it.
FillAt(r) ==
    fill[r] # "none" =>
        fl[r] = None /\ pc[r] \in {"proxy", "unwind", "done"} /\ follow[r] = "stopped"

\* A flight whose channels are closed is behind its leader.
ClosedAt(r) ==
    /\ r \in doneClosed => /\ fl[r] = None
                           /\ fill[r] \in {"none", "done"}
                           /\ pc[r] \in {"serve", "proxy", "unwind", "done"}
    /\ r \in videoClosed => fill[r] # "none"

\* What the AfterFunc can be at each place.
FollowAt(r) ==
    /\ pc[r] \in {"idle", "lookup", "join", "wait", "abandon", "abandoned", "done"} =>
           follow[r] \in {"off", "stopped"}
    /\ pc[r] \in {"fetch", "detach"} => follow[r] \in {"armed", "fired"}
    /\ follow[r] = "fired" => r \in gone
    /\ pc[r] = "proxy" /\ fl[r] # None => r \in gone
    /\ pc[r] \in {"streamput", "streamserve"} => key[r] \in StreamKeys

PlacesOK == \A r \in Requests : FlAt(r) /\ FillAt(r) /\ ClosedAt(r) /\ FollowAt(r)

Ind == TypeOK /\ PlacesOK /\ FlightOwned /\ WaiterNotStranded /\ SlotAccounting

-----------------------------------------------------------------------------
(* The slots. *)

\* A request that holds a slot accounts for one value of the channel.
LEMMA ReleaseCounts ==
    ASSUME TypeOK, SlotAccounting, NEW r \in Requests, ReleaseSlot(r)
    PROVE  sem' \in 0..Slots /\ sem' = Cardinality(holding')
<1> IsFiniteSet(holding)
    BY RequestsFinite, FS_Subset DEF TypeOK
<1>1. CASE r \in holding
    <2>1. Cardinality(holding \ {r}) = Cardinality(holding) - 1
        BY <1>1, FS_RemoveElement
    <2>2. Cardinality(holding \ {r}) \in Nat
        BY FS_CardinalityType, FS_Subset
    <2> QED
        BY <1>1, <2>1, <2>2, SlotsPositive DEF TypeOK, SlotAccounting, ReleaseSlot
<1>2. CASE r \notin holding
    BY <1>2 DEF TypeOK, SlotAccounting, ReleaseSlot
<1> QED
    BY <1>1, <1>2

\* A request in the queue holds no slot, so taking one counts.
LEMMA AcquireCounts ==
    ASSUME TypeOK, SlotAccounting, NEW r \in Requests, AcquireSlot(r)
    PROVE  sem' \in 0..Slots /\ sem' = Cardinality(holding')
<1>1. r \notin holding
    BY DEF SlotAccounting, AcquireSlot, At
<1>2. IsFiniteSet(holding)
    BY RequestsFinite, FS_Subset DEF TypeOK
<1>3. Cardinality(holding \cup {r}) = Cardinality(holding) + 1
    BY <1>1, <1>2, FS_AddElement
<1> QED
    BY <1>3, SlotsPositive DEF TypeOK, SlotAccounting, AcquireSlot

-----------------------------------------------------------------------------
(* Preservation, one step per action. *)

\* Every step keeps the types; the slots because they are accounted for.
LEMMA TypeStep ==
    ASSUME Ind, [Next]_vars
    PROVE  TypeOK'
<1> USE DEF Ind, TypeOK, PlacesOK, FlAt, FillAt, Places, At, Goto, SetFollow, ReleaseSlot, StopWaiting, FillGoto, shared, local, Sending, Leading, Closing
<1>1. ASSUME NEW r \in Requests, Arrive(r) PROVE TypeOK'
    BY <1>1 DEF Arrive
<1>2. ASSUME NEW r \in Requests, HangUp(r) PROVE TypeOK'
    BY <1>2 DEF HangUp
<1>3. ASSUME NEW r \in Requests, Answer(r) PROVE TypeOK'
    BY <1>3 DEF Answer
<1>4. ASSUME NEW r \in Requests, LookupHit(r) PROVE TypeOK'
    BY <1>4 DEF LookupHit
<1>5. ASSUME NEW r \in Requests, LookupMiss(r) PROVE TypeOK'
    BY <1>5 DEF LookupMiss
<1>6. ASSUME NEW r \in Requests, JoinAsLeader(r) PROVE TypeOK'
    BY <1>6 DEF JoinAsLeader
<1>7. ASSUME NEW r \in Requests, JoinAsFollower(r) PROVE TypeOK'
    BY <1>7 DEF JoinAsFollower
<1>8. ASSUME NEW r \in Requests, WaitDone(r) PROVE TypeOK'
    BY <1>8 DEF WaitDone
<1>9. ASSUME NEW r \in Requests, WaitVideo(r) PROVE TypeOK'
    BY <1>9 DEF WaitVideo
<1>10. ASSUME NEW r \in Requests, WaitGone(r) PROVE TypeOK'
    BY <1>10 DEF WaitGone
<1>11. ASSUME NEW r \in Requests, AcquireSlot(r) PROVE TypeOK'
    BY <1>11, AcquireCounts, NoneIsNothing, ZenonT(30) DEF AcquireSlot
<1>12. ASSUME NEW r \in Requests, LeaveQueue(r) PROVE TypeOK'
    BY <1>12 DEF LeaveQueue
<1>13. ASSUME NEW r \in Requests, CancelFetch(r) PROVE TypeOK'
    BY <1>13 DEF CancelFetch
<1>14. ASSUME NEW r \in Requests, FetchPhoto(r) PROVE TypeOK'
    BY <1>14 DEF FetchPhoto
<1>15. ASSUME NEW r \in Requests, FetchStream(r) PROVE TypeOK'
    BY <1>15 DEF FetchStream
<1>16. ASSUME NEW r \in Requests, FetchVideo(r) PROVE TypeOK'
    BY <1>16, ReleaseCounts DEF FetchVideo
<1>17. ASSUME NEW r \in Requests, DownloadFails(r) PROVE TypeOK'
    BY <1>17 DEF DownloadFails
<1>18. ASSUME NEW r \in Requests, ReadPhoto(r) PROVE TypeOK'
    BY <1>18, ReleaseCounts DEF ReadPhoto
<1>19. ASSUME NEW r \in Requests, PutSucceeds(r) PROVE TypeOK'
    BY <1>19 DEF PutSucceeds
<1>20. ASSUME NEW r \in Requests, PutFails(r) PROVE TypeOK'
    BY <1>20 DEF PutFails
<1>21. ASSUME NEW r \in Requests, Detach(r) PROVE TypeOK'
    BY <1>21 DEF Detach
<1>22. ASSUME NEW r \in Requests, CloseBody(r) PROVE TypeOK'
    BY <1>22 DEF CloseBody
<1>23. ASSUME NEW r \in Requests, Unwind(r) PROVE TypeOK'
    BY <1>23, ReleaseCounts DEF Unwind
<1>24. ASSUME NEW r \in Requests, DeleteFlight(r) PROVE TypeOK'
    BY <1>24 DEF DeleteFlight
<1>25. ASSUME NEW r \in Requests, CloseDone(r) PROVE TypeOK'
    BY <1>25 DEF CloseDone
<1>26. ASSUME NEW r \in Requests, FillPut(r) PROVE TypeOK'
    BY <1>26 DEF FillPut
<1>27. ASSUME NEW r \in Requests, FillDeleteFlight(r) PROVE TypeOK'
    BY <1>27 DEF FillDeleteFlight
<1>28. ASSUME NEW r \in Requests, FillCloseDone(r) PROVE TypeOK'
    BY <1>28 DEF FillCloseDone
<1>29. CASE Evict
    BY <1>29 DEF Evict
<1>30. CASE UNCHANGED vars
    BY <1>30 DEF vars
<1> QED
    BY <1>1, <1>2, <1>3, <1>4, <1>5, <1>6, <1>7, <1>8, <1>9, <1>10, <1>11, <1>12, <1>13, <1>14, <1>15, <1>16, <1>17, <1>18, <1>19, <1>20, <1>21, <1>22, <1>23, <1>24, <1>25, <1>26, <1>27, <1>28, <1>29, <1>30
       DEF Next, AllServed, Step, Loop, Download, Leave, Fill

\* Every step keeps fl, fill, follow and the closed channels in step with pc.
LEMMA PlacesStep ==
    ASSUME Ind, [Next]_vars
    PROVE  PlacesOK'
<1> USE DEF Ind, TypeOK, PlacesOK, FlAt, FillAt, ClosedAt, FollowAt, Places, At, Goto, SetFollow, ReleaseSlot, StopWaiting, FillGoto, shared, local, Sending, Leading, Closing
<1>1. ASSUME NEW r \in Requests, Arrive(r) PROVE PlacesOK'
    BY <1>1, NoneIsNothing DEF Arrive
<1>2. ASSUME NEW r \in Requests, HangUp(r) PROVE PlacesOK'
    BY <1>2 DEF HangUp
<1>3. ASSUME NEW r \in Requests, Answer(r) PROVE PlacesOK'
    BY <1>3 DEF Answer
<1>4. ASSUME NEW r \in Requests, LookupHit(r) PROVE PlacesOK'
    BY <1>4 DEF LookupHit
<1>5. ASSUME NEW r \in Requests, LookupMiss(r) PROVE PlacesOK'
    BY <1>5 DEF LookupMiss
<1>6. ASSUME NEW r \in Requests, JoinAsLeader(r) PROVE PlacesOK'
    BY <1>6 DEF JoinAsLeader
<1>7. ASSUME NEW r \in Requests, JoinAsFollower(r) PROVE PlacesOK'
    BY <1>7 DEF JoinAsFollower
<1>8. ASSUME NEW r \in Requests, WaitDone(r) PROVE PlacesOK'
    BY <1>8 DEF WaitDone
<1>9. ASSUME NEW r \in Requests, WaitVideo(r) PROVE PlacesOK'
    BY <1>9 DEF WaitVideo
<1>10. ASSUME NEW r \in Requests, WaitGone(r) PROVE PlacesOK'
    BY <1>10 DEF WaitGone
<1>11. ASSUME NEW r \in Requests, AcquireSlot(r) PROVE PlacesOK'
    BY <1>11 DEF AcquireSlot
<1>12. ASSUME NEW r \in Requests, LeaveQueue(r) PROVE PlacesOK'
    BY <1>12 DEF LeaveQueue
<1>13. ASSUME NEW r \in Requests, CancelFetch(r) PROVE PlacesOK'
    BY <1>13 DEF CancelFetch
<1>14. ASSUME NEW r \in Requests, FetchPhoto(r) PROVE PlacesOK'
    BY <1>14 DEF FetchPhoto
<1>15. ASSUME NEW r \in Requests, FetchStream(r) PROVE PlacesOK'
    BY <1>15 DEF FetchStream
<1>16. ASSUME NEW r \in Requests, FetchVideo(r) PROVE PlacesOK'
    BY <1>16 DEF FetchVideo
<1>17. ASSUME NEW r \in Requests, DownloadFails(r) PROVE PlacesOK'
    BY <1>17 DEF DownloadFails
<1>18. ASSUME NEW r \in Requests, ReadPhoto(r) PROVE PlacesOK'
    BY <1>18 DEF ReadPhoto
<1>19. ASSUME NEW r \in Requests, PutSucceeds(r) PROVE PlacesOK'
    BY <1>19 DEF PutSucceeds
<1>20. ASSUME NEW r \in Requests, PutFails(r) PROVE PlacesOK'
    BY <1>20 DEF PutFails
<1>21. ASSUME NEW r \in Requests, Detach(r) PROVE PlacesOK'
    BY <1>21 DEF Detach
<1>22. ASSUME NEW r \in Requests, CloseBody(r) PROVE PlacesOK'
    BY <1>22 DEF CloseBody
<1>23. ASSUME NEW r \in Requests, Unwind(r) PROVE PlacesOK'
    BY <1>23 DEF Unwind
<1>24. ASSUME NEW r \in Requests, DeleteFlight(r) PROVE PlacesOK'
    BY <1>24 DEF DeleteFlight
<1>25. ASSUME NEW r \in Requests, CloseDone(r) PROVE PlacesOK'
    BY <1>25 DEF CloseDone
<1>26. ASSUME NEW r \in Requests, FillPut(r) PROVE PlacesOK'
    BY <1>26 DEF FillPut
<1>27. ASSUME NEW r \in Requests, FillDeleteFlight(r) PROVE PlacesOK'
    BY <1>27 DEF FillDeleteFlight
<1>28. ASSUME NEW r \in Requests, FillCloseDone(r) PROVE PlacesOK'
    BY <1>28 DEF FillCloseDone
<1>29. CASE Evict
    BY <1>29 DEF Evict
<1>30. CASE UNCHANGED vars
    BY <1>30 DEF vars
<1> QED
    BY <1>1, <1>2, <1>3, <1>4, <1>5, <1>6, <1>7, <1>8, <1>9, <1>10, <1>11, <1>12, <1>13, <1>14, <1>15, <1>16, <1>17, <1>18, <1>19, <1>20, <1>21, <1>22, <1>23, <1>24, <1>25, <1>26, <1>27, <1>28, <1>29, <1>30
       DEF Next, AllServed, Step, Loop, Download, Leave, Fill

\* Every step keeps each registered flight owned by exactly one goroutine.
LEMMA FlightsStep ==
    ASSUME Ind, [Next]_vars
    PROVE  FlightOwned'
<1> USE DEF Ind, TypeOK, PlacesOK, FlAt, FillAt, FlightOwned, RequestOwns, FillOwns, Places, At, Goto, SetFollow, ReleaseSlot, StopWaiting, FillGoto, shared, local, Sending, Leading, Closing
<1>1. ASSUME NEW r \in Requests, Arrive(r) PROVE FlightOwned'
    BY <1>1, NoneIsNothing DEF Arrive
<1>2. ASSUME NEW r \in Requests, HangUp(r) PROVE FlightOwned'
    BY <1>2 DEF HangUp
<1>3. ASSUME NEW r \in Requests, Answer(r) PROVE FlightOwned'
    BY <1>3, NoneIsNothing DEF Answer
<1>4. ASSUME NEW r \in Requests, LookupHit(r) PROVE FlightOwned'
    BY <1>4 DEF LookupHit
<1>5. ASSUME NEW r \in Requests, LookupMiss(r) PROVE FlightOwned'
    BY <1>5 DEF LookupMiss
<1>6. ASSUME NEW r \in Requests, JoinAsLeader(r) PROVE FlightOwned'
    BY <1>6, NoneIsNothing DEF JoinAsLeader
<1>7. ASSUME NEW r \in Requests, JoinAsFollower(r) PROVE FlightOwned'
    BY <1>7 DEF JoinAsFollower
<1>8. ASSUME NEW r \in Requests, WaitDone(r) PROVE FlightOwned'
    BY <1>8 DEF WaitDone
<1>9. ASSUME NEW r \in Requests, WaitVideo(r) PROVE FlightOwned'
    BY <1>9, NoneIsNothing DEF WaitVideo
<1>10. ASSUME NEW r \in Requests, WaitGone(r) PROVE FlightOwned'
    BY <1>10 DEF WaitGone
<1>11. ASSUME NEW r \in Requests, AcquireSlot(r) PROVE FlightOwned'
    BY <1>11 DEF AcquireSlot
<1>12. ASSUME NEW r \in Requests, LeaveQueue(r) PROVE FlightOwned'
    BY <1>12 DEF LeaveQueue
<1>13. ASSUME NEW r \in Requests, CancelFetch(r) PROVE FlightOwned'
    BY <1>13 DEF CancelFetch
<1>14. ASSUME NEW r \in Requests, FetchPhoto(r) PROVE FlightOwned'
    BY <1>14 DEF FetchPhoto
<1>15. ASSUME NEW r \in Requests, FetchStream(r) PROVE FlightOwned'
    BY <1>15 DEF FetchStream
<1>16. ASSUME NEW r \in Requests, FetchVideo(r) PROVE FlightOwned'
    BY <1>16 DEF FetchVideo
<1>17. ASSUME NEW r \in Requests, DownloadFails(r) PROVE FlightOwned'
    BY <1>17 DEF DownloadFails
<1>18. ASSUME NEW r \in Requests, ReadPhoto(r) PROVE FlightOwned'
    BY <1>18 DEF ReadPhoto
<1>19. ASSUME NEW r \in Requests, PutSucceeds(r) PROVE FlightOwned'
    BY <1>19 DEF PutSucceeds
<1>20. ASSUME NEW r \in Requests, PutFails(r) PROVE FlightOwned'
    BY <1>20 DEF PutFails
<1>21. ASSUME NEW r \in Requests, Detach(r) PROVE FlightOwned'
    BY <1>21 DEF Detach
<1>22. ASSUME NEW r \in Requests, CloseBody(r) PROVE FlightOwned'
    BY <1>22 DEF CloseBody
<1>23. ASSUME NEW r \in Requests, Unwind(r) PROVE FlightOwned'
    BY <1>23, NoneIsNothing DEF Unwind
<1>24. ASSUME NEW r \in Requests, DeleteFlight(r) PROVE FlightOwned'
    BY <1>24, NoneIsNothing DEF DeleteFlight
<1>25. ASSUME NEW r \in Requests, CloseDone(r) PROVE FlightOwned'
    BY <1>25 DEF CloseDone
<1>26. ASSUME NEW r \in Requests, FillPut(r) PROVE FlightOwned'
    BY <1>26 DEF FillPut
<1>27. ASSUME NEW r \in Requests, FillDeleteFlight(r) PROVE FlightOwned'
    BY <1>27, NoneIsNothing DEF FillDeleteFlight
<1>28. ASSUME NEW r \in Requests, FillCloseDone(r) PROVE FlightOwned'
    BY <1>28 DEF FillCloseDone
<1>29. CASE Evict
    BY <1>29 DEF Evict
<1>30. CASE UNCHANGED vars
    BY <1>30 DEF vars
<1> QED
    BY <1>1, <1>2, <1>3, <1>4, <1>5, <1>6, <1>7, <1>8, <1>9, <1>10, <1>11, <1>12, <1>13, <1>14, <1>15, <1>16, <1>17, <1>18, <1>19, <1>20, <1>21, <1>22, <1>23, <1>24, <1>25, <1>26, <1>27, <1>28, <1>29, <1>30
       DEF Next, AllServed, Step, Loop, Download, Leave, Fill

\* Every step leaves each follower somebody to wait for.
LEMMA WaitersStep ==
    ASSUME Ind, [Next]_vars
    PROVE  WaiterNotStranded'
<1> USE DEF Ind, TypeOK, PlacesOK, FlAt, FillAt, FlightOwned, WaiterNotStranded, RequestOwns, FillOwns, Landing, Places, At, Goto, SetFollow, ReleaseSlot, StopWaiting, FillGoto, shared, local, Sending, Leading, Closing
<1>1. ASSUME NEW r \in Requests, Arrive(r) PROVE WaiterNotStranded'
    BY <1>1 DEF Arrive
<1>2. ASSUME NEW r \in Requests, HangUp(r) PROVE WaiterNotStranded'
    BY <1>2 DEF HangUp
<1>3. ASSUME NEW r \in Requests, Answer(r) PROVE WaiterNotStranded'
    BY <1>3 DEF Answer
<1>4. ASSUME NEW r \in Requests, LookupHit(r) PROVE WaiterNotStranded'
    BY <1>4 DEF LookupHit
<1>5. ASSUME NEW r \in Requests, LookupMiss(r) PROVE WaiterNotStranded'
    BY <1>5 DEF LookupMiss
<1>6. ASSUME NEW r \in Requests, JoinAsLeader(r) PROVE WaiterNotStranded'
    BY <1>6 DEF JoinAsLeader
<1>7. ASSUME NEW r \in Requests, JoinAsFollower(r) PROVE WaiterNotStranded'
    BY <1>7 DEF JoinAsFollower
<1>8. ASSUME NEW r \in Requests, WaitDone(r) PROVE WaiterNotStranded'
    BY <1>8 DEF WaitDone
<1>9. ASSUME NEW r \in Requests, WaitVideo(r) PROVE WaiterNotStranded'
    BY <1>9 DEF WaitVideo
<1>10. ASSUME NEW r \in Requests, WaitGone(r) PROVE WaiterNotStranded'
    BY <1>10 DEF WaitGone
<1>11. ASSUME NEW r \in Requests, AcquireSlot(r) PROVE WaiterNotStranded'
    BY <1>11 DEF AcquireSlot
<1>12. ASSUME NEW r \in Requests, LeaveQueue(r) PROVE WaiterNotStranded'
    BY <1>12 DEF LeaveQueue
<1>13. ASSUME NEW r \in Requests, CancelFetch(r) PROVE WaiterNotStranded'
    BY <1>13 DEF CancelFetch
<1>14. ASSUME NEW r \in Requests, FetchPhoto(r) PROVE WaiterNotStranded'
    BY <1>14 DEF FetchPhoto
<1>15. ASSUME NEW r \in Requests, FetchStream(r) PROVE WaiterNotStranded'
    BY <1>15 DEF FetchStream
<1>16. ASSUME NEW r \in Requests, FetchVideo(r) PROVE WaiterNotStranded'
    BY <1>16 DEF FetchVideo
<1>17. ASSUME NEW r \in Requests, DownloadFails(r) PROVE WaiterNotStranded'
    BY <1>17 DEF DownloadFails
<1>18. ASSUME NEW r \in Requests, ReadPhoto(r) PROVE WaiterNotStranded'
    BY <1>18 DEF ReadPhoto
<1>19. ASSUME NEW r \in Requests, PutSucceeds(r) PROVE WaiterNotStranded'
    BY <1>19 DEF PutSucceeds
<1>20. ASSUME NEW r \in Requests, PutFails(r) PROVE WaiterNotStranded'
    BY <1>20 DEF PutFails
<1>21. ASSUME NEW r \in Requests, Detach(r) PROVE WaiterNotStranded'
    BY <1>21 DEF Detach
<1>22. ASSUME NEW r \in Requests, CloseBody(r) PROVE WaiterNotStranded'
    BY <1>22 DEF CloseBody
<1>23. ASSUME NEW r \in Requests, Unwind(r) PROVE WaiterNotStranded'
    BY <1>23 DEF Unwind
<1>24. ASSUME NEW r \in Requests, DeleteFlight(r) PROVE WaiterNotStranded'
    BY <1>24 DEF DeleteFlight
<1>25. ASSUME NEW r \in Requests, CloseDone(r) PROVE WaiterNotStranded'
    BY <1>25 DEF CloseDone
<1>26. ASSUME NEW r \in Requests, FillPut(r) PROVE WaiterNotStranded'
    BY <1>26 DEF FillPut
<1>27. ASSUME NEW r \in Requests, FillDeleteFlight(r) PROVE WaiterNotStranded'
    BY <1>27 DEF FillDeleteFlight
<1>28. ASSUME NEW r \in Requests, FillCloseDone(r) PROVE WaiterNotStranded'
    BY <1>28 DEF FillCloseDone
<1>29. CASE Evict
    BY <1>29 DEF Evict
<1>30. CASE UNCHANGED vars
    BY <1>30 DEF vars
<1> QED
    BY <1>1, <1>2, <1>3, <1>4, <1>5, <1>6, <1>7, <1>8, <1>9, <1>10, <1>11, <1>12, <1>13, <1>14, <1>15, <1>16, <1>17, <1>18, <1>19, <1>20, <1>21, <1>22, <1>23, <1>24, <1>25, <1>26, <1>27, <1>28, <1>29, <1>30
       DEF Next, AllServed, Step, Loop, Download, Leave, Fill

\* Every step accounts for the slots it takes and gives back.
LEMMA SlotsStep ==
    ASSUME Ind, [Next]_vars
    PROVE  SlotAccounting'
<1> USE DEF Ind, TypeOK, SlotAccounting, Places, At, Goto, SetFollow, ReleaseSlot, StopWaiting, FillGoto, shared, local, Sending, Leading, Closing
<1>1. ASSUME NEW r \in Requests, Arrive(r) PROVE SlotAccounting'
    BY <1>1 DEF Arrive
<1>2. ASSUME NEW r \in Requests, HangUp(r) PROVE SlotAccounting'
    BY <1>2 DEF HangUp
<1>3. ASSUME NEW r \in Requests, Answer(r) PROVE SlotAccounting'
    BY <1>3 DEF Answer
<1>4. ASSUME NEW r \in Requests, LookupHit(r) PROVE SlotAccounting'
    BY <1>4 DEF LookupHit
<1>5. ASSUME NEW r \in Requests, LookupMiss(r) PROVE SlotAccounting'
    BY <1>5 DEF LookupMiss
<1>6. ASSUME NEW r \in Requests, JoinAsLeader(r) PROVE SlotAccounting'
    BY <1>6 DEF JoinAsLeader
<1>7. ASSUME NEW r \in Requests, JoinAsFollower(r) PROVE SlotAccounting'
    BY <1>7 DEF JoinAsFollower
<1>8. ASSUME NEW r \in Requests, WaitDone(r) PROVE SlotAccounting'
    BY <1>8 DEF WaitDone
<1>9. ASSUME NEW r \in Requests, WaitVideo(r) PROVE SlotAccounting'
    BY <1>9 DEF WaitVideo
<1>10. ASSUME NEW r \in Requests, WaitGone(r) PROVE SlotAccounting'
    BY <1>10 DEF WaitGone
<1>11. ASSUME NEW r \in Requests, AcquireSlot(r) PROVE SlotAccounting'
    BY <1>11, AcquireCounts DEF AcquireSlot
<1>12. ASSUME NEW r \in Requests, LeaveQueue(r) PROVE SlotAccounting'
    BY <1>12 DEF LeaveQueue
<1>13. ASSUME NEW r \in Requests, CancelFetch(r) PROVE SlotAccounting'
    BY <1>13 DEF CancelFetch
<1>14. ASSUME NEW r \in Requests, FetchPhoto(r) PROVE SlotAccounting'
    BY <1>14 DEF FetchPhoto
<1>15. ASSUME NEW r \in Requests, FetchStream(r) PROVE SlotAccounting'
    BY <1>15 DEF FetchStream
<1>16. ASSUME NEW r \in Requests, FetchVideo(r) PROVE SlotAccounting'
    BY <1>16, ReleaseCounts DEF FetchVideo
<1>17. ASSUME NEW r \in Requests, DownloadFails(r) PROVE SlotAccounting'
    BY <1>17 DEF DownloadFails
<1>18. ASSUME NEW r \in Requests, ReadPhoto(r) PROVE SlotAccounting'
    BY <1>18, ReleaseCounts DEF ReadPhoto
<1>19. ASSUME NEW r \in Requests, PutSucceeds(r) PROVE SlotAccounting'
    BY <1>19 DEF PutSucceeds
<1>20. ASSUME NEW r \in Requests, PutFails(r) PROVE SlotAccounting'
    BY <1>20 DEF PutFails
<1>21. ASSUME NEW r \in Requests, Detach(r) PROVE SlotAccounting'
    BY <1>21 DEF Detach
<1>22. ASSUME NEW r \in Requests, CloseBody(r) PROVE SlotAccounting'
    BY <1>22 DEF CloseBody
<1>23. ASSUME NEW r \in Requests, Unwind(r) PROVE SlotAccounting'
    BY <1>23, ReleaseCounts DEF Unwind
<1>24. ASSUME NEW r \in Requests, DeleteFlight(r) PROVE SlotAccounting'
    BY <1>24 DEF DeleteFlight
<1>25. ASSUME NEW r \in Requests, CloseDone(r) PROVE SlotAccounting'
    BY <1>25 DEF CloseDone
<1>26. ASSUME NEW r \in Requests, FillPut(r) PROVE SlotAccounting'
    BY <1>26 DEF FillPut
<1>27. ASSUME NEW r \in Requests, FillDeleteFlight(r) PROVE SlotAccounting'
    BY <1>27 DEF FillDeleteFlight
<1>28. ASSUME NEW r \in Requests, FillCloseDone(r) PROVE SlotAccounting'
    BY <1>28 DEF FillCloseDone
<1>29. CASE Evict
    BY <1>29 DEF Evict
<1>30. CASE UNCHANGED vars
    BY <1>30 DEF vars
<1> QED
    BY <1>1, <1>2, <1>3, <1>4, <1>5, <1>6, <1>7, <1>8, <1>9, <1>10, <1>11, <1>12, <1>13, <1>14, <1>15, <1>16, <1>17, <1>18, <1>19, <1>20, <1>21, <1>22, <1>23, <1>24, <1>25, <1>26, <1>27, <1>28, <1>29, <1>30
       DEF Next, AllServed, Step, Loop, Download, Leave, Fill

\* The starting states satisfy the inductive invariant.
LEMMA Initial == Init => Ind
<1> SUFFICES ASSUME Init PROVE Ind
    OBVIOUS
<1>1. TypeOK
    BY SlotsPositive DEF Init, TypeOK, Places
<1>2. PlacesOK
    BY DEF Init, PlacesOK, FlAt, FillAt, ClosedAt, FollowAt, Leading, Closing
<1>3. FlightOwned /\ WaiterNotStranded
    BY NoneIsNothing DEF Init, FlightOwned, WaiterNotStranded, RequestOwns, FillOwns, At
<1>4. SlotAccounting
    BY FS_EmptySet DEF Init, SlotAccounting
<1> QED
    BY <1>1, <1>2, <1>3, <1>4 DEF Ind

\* The inductive invariant holds of every behaviour of serveMedia.
THEOREM Invariance == Spec => []Ind
<1>1. Ind /\ [Next]_vars => Ind'
    BY TypeStep, PlacesStep, FlightsStep, WaitersStep, SlotsStep DEF Ind
<1> QED
    BY Initial, <1>1, PTL DEF Spec

-----------------------------------------------------------------------------
(* Safety. *)

\* serveMedia's variables keep their types; in particular the fetchSem
\* channel never overflows or is read when empty.
THEOREM TypeCorrect == Spec => []TypeOK
BY Invariance, PTL DEF Ind

\* Every registered flight has exactly one goroutine that will finish it.
THEOREM FlightsAreOwned == Spec => []FlightOwned
BY Invariance, PTL DEF Ind

\* No follower is left waiting for a flight nobody will finish.
THEOREM WaitersAreNotStranded == Spec => []WaiterNotStranded
BY Invariance, PTL DEF Ind

\* The slots in use are exactly those some request will give back, and every
\* request that downloads a photo holds one.
THEOREM SlotsAreAccounted == Spec => []SlotAccounting
BY Invariance, PTL DEF Ind

\* At most MEDIA_FETCH_CONCURRENCY photos are being downloaded at once.
THEOREM DownloadsAreBounded ==
    Spec => [](Cardinality({r \in Requests : pc[r] \in {"fetch", "read"}}) <= Slots)
<1> DEFINE Busy == {r \in Requests : pc[r] \in {"fetch", "read"}}
<1>1. Ind => Cardinality(Busy) <= Slots
    <2> SUFFICES ASSUME Ind PROVE Cardinality(Busy) <= Slots
        OBVIOUS
    <2>1. Busy \subseteq holding /\ sem = Cardinality(holding) /\ sem \in 0..Slots
        BY DEF Ind, TypeOK, SlotAccounting
    <2>2. IsFiniteSet(holding)
        BY RequestsFinite, FS_Subset DEF Ind, TypeOK
    <2>3. Cardinality(Busy) <= Cardinality(holding) /\ Cardinality(Busy) \in Nat
        BY <2>1, <2>2, FS_Subset, FS_CardinalityType
    <2> QED
        BY <2>1, <2>3, SlotsPositive
<1> QED
    BY Invariance, <1>1, PTL

\* No done or video channel is closed twice.
THEOREM ChannelsCloseOnce == Spec => []ClosedOnce
<1>1. Ind => ClosedOnce
    BY NoneIsNothing DEF Ind, PlacesOK, FlAt, FillAt, ClosedAt, ClosedOnce, RequestOwns, FillOwns,
        Landing, Closing, Leading, At
<1> QED
    BY Invariance, <1>1, PTL

\* With a cache, no two complete downloads of a key run at once.
THEOREM DownloadsAreShared == Spec => []OneDownloadPerKey
<1>1. Ind => OneDownloadPerKey
    <2> SUFFICES ASSUME Ind, cacheOn, NEW r \in Requests, NEW s \in Requests,
                        Downloading(r), Downloading(s), key[r] = key[s]
                 PROVE  r = s
        BY DEF OneDownloadPerKey
    <2>1. ASSUME NEW q \in Requests, Downloading(q)
          PROVE  key[q] \in Keys /\ (RequestOwns(q) \/ FillOwns(q))
        BY <2>1 DEF Ind, PlacesOK, FlAt, FillAt, Downloading, RequestOwns, FillOwns, Leading
    <2>2. flights[key[r]] = r /\ flights[key[s]] = s
        BY <2>1 DEF Ind, FlightOwned
    <2> QED
        BY <2>2
<1> QED
    BY Invariance, <1>1, PTL

\* A request that sends to its client holds nothing others wait for.
THEOREM SlowClientsHoldNothing == Spec => []SlowClientHoldsNothing
<1>1. Ind => SlowClientHoldsNothing
    BY NoneIsNothing DEF Ind, PlacesOK, FlAt, FollowAt, SlotAccounting, SlowClientHoldsNothing,
        RequestOwns, Sending, Leading
<1> QED
    BY Invariance, <1>1, PTL

\* A background fill does not follow the request that started it.
THEOREM FillsSurviveRequests == Spec => []FillSurvivesRequest
<1>1. Ind => FillSurvivesRequest
    BY DEF Ind, PlacesOK, FillAt, FillSurvivesRequest
<1> QED
    BY Invariance, <1>1, PTL

-----------------------------------------------------------------------------
(* serveMedia implements SingleFlight. *)

\* A flight in the table is in phase "filling", and so is its owner only.
LEMMA PhaseOfOwner ==
    ASSUME Ind, NEW r \in Requests
    PROVE  /\ RequestOwns(r) \/ FillOwns(r) => Phase(r) = "filling"
           /\ Landing(r) => Phase(r) = "landed"
           /\ pc[r] \in {"idle", "lookup", "join", "wait"} => Phase(r) = "none"
BY NoneIsNothing DEF Ind, PlacesOK, FlAt, FillAt, ClosedAt, RequestOwns, FillOwns, Landing, Phase,
    Leading, Closing

\* A step that leaves flights, the channels and the clients alone, moves no
\* request in or out of its wait and changes nobody's phase is no step of
\* SingleFlight.
LEMMA Stutters ==
    ASSUME UNCHANGED <<flights, videoClosed, gone>>,
           \A s \in Requests : Phase(s)' = Phase(s) /\ Waits(s)' = Waits(s)
    PROVE  UNCHANGED Flights!vars
BY DEF Flights!vars

\* The steps that SingleFlight does not see.
LEMMA LocalStepsStutter ==
    ASSUME Ind, NEW r \in Requests,
           \/ Arrive(r)
           \/ Answer(r)
           \/ LookupHit(r)
           \/ LookupMiss(r)
           \/ AcquireSlot(r)
           \/ LeaveQueue(r)
           \/ CancelFetch(r)
           \/ FetchPhoto(r)
           \/ FetchStream(r)
           \/ FetchVideo(r)
           \/ DownloadFails(r)
           \/ ReadPhoto(r)
           \/ PutSucceeds(r)
           \/ PutFails(r)
           \/ CloseBody(r)
           \/ Unwind(r)
           \/ FillPut(r)
    PROVE  UNCHANGED Flights!vars
<1> USE DEF At, Goto, SetFollow, ReleaseSlot, FillGoto, shared, Ind, TypeOK, PlacesOK, FlAt,
            FillAt, Phase, Waits, RequestOwns, FillOwns, Landing, Leading, Closing, Sending
<1>1. CASE Arrive(r)
    BY <1>1, NoneIsNothing, Stutters DEF Arrive
<1>2. CASE Answer(r)
    BY <1>2, NoneIsNothing, Stutters DEF Answer
<1>3. CASE LookupHit(r)
    BY <1>3, Stutters DEF LookupHit
<1>4. CASE LookupMiss(r)
    BY <1>4, Stutters DEF LookupMiss
<1>5. CASE AcquireSlot(r)
    BY <1>5, Stutters DEF AcquireSlot
<1>6. CASE LeaveQueue(r)
    BY <1>6, Stutters DEF LeaveQueue
<1>7. CASE CancelFetch(r)
    BY <1>7, Stutters DEF CancelFetch
<1>8. CASE FetchPhoto(r)
    BY <1>8, Stutters DEF FetchPhoto
<1>9. CASE FetchStream(r)
    BY <1>9, Stutters DEF FetchStream
<1>10. CASE FetchVideo(r)
    BY <1>10, Stutters DEF FetchVideo
<1>11. CASE DownloadFails(r)
    BY <1>11, Stutters DEF DownloadFails
<1>12. CASE ReadPhoto(r)
    BY <1>12, Stutters DEF ReadPhoto
<1>13. CASE PutSucceeds(r)
    BY <1>13, Stutters DEF PutSucceeds
<1>14. CASE PutFails(r)
    BY <1>14, Stutters DEF PutFails
<1>15. CASE CloseBody(r)
    BY <1>15, Stutters DEF CloseBody
<1>16. CASE Unwind(r)
    BY <1>16, NoneIsNothing, Stutters DEF Unwind
<1>17. CASE FillPut(r)
    BY <1>17, Stutters DEF FillPut
<1> QED
    BY <1>1, <1>2, <1>3, <1>4, <1>5, <1>6, <1>7, <1>8, <1>9, <1>10, <1>11, <1>12, <1>13, <1>14, <1>15, <1>16, <1>17

\* One caller's phase moves; one caller begins or ends its wait.
LEMMA PhaseMoves ==
    ASSUME NEW r \in Requests, NEW from, NEW to, Phase(r) = from, Phase(r)' = to,
           \A s \in Requests \ {r} : Phase(s)' = Phase(s)
    PROVE  Flights!SetPhase(r, from, to)
BY DEF Flights!SetPhase

LEMMA WaitMoves ==
    ASSUME NEW r \in Requests, NEW f, Waits(r)' = f,
           \A s \in Requests \ {r} : Waits(s)' = Waits(s)
    PROVE  [s \in Requests |-> Waits(s)]' = [[s \in Requests |-> Waits(s)] EXCEPT ![r] = f]
OBVIOUS

\* Frames: nobody's phase changes, nobody's wait changes.
LEMMA SamePhases ==
    ASSUME \A s \in Requests : Phase(s)' = Phase(s)
    PROVE  [s \in Requests |-> Phase(s)]' = [s \in Requests |-> Phase(s)]
OBVIOUS

LEMMA SameWaits ==
    ASSUME \A s \in Requests : Waits(s)' = Waits(s)
    PROVE  [s \in Requests |-> Waits(s)]' = [s \in Requests |-> Waits(s)]
OBVIOUS

\* A hang-up is a caller that gives up.
LEMMA HangUpGivesUp ==
    ASSUME NEW r \in Requests, HangUp(r)
    PROVE  Flights!GiveUp(r)
<1>1. \A s \in Requests : Phase(s)' = Phase(s) /\ Waits(s)' = Waits(s)
    BY DEF HangUp, shared, Phase, Waits, RequestOwns, FillOwns, Landing, At
<1> QED
    BY <1>1, SamePhases, SameWaits DEF HangUp, shared, Flights!GiveUp

\* Leading is beginning a fill.
LEMMA JoinBegins ==
    ASSUME Ind, NEW r \in Requests, JoinAsLeader(r)
    PROVE  Flights!Begin(r, key[r])
<1> USE NoneIsNothing
    DEF JoinAsLeader, At, Goto, Ind, TypeOK, PlacesOK, FlAt, FillAt, ClosedAt
<1>1. Phase(r) = "none" /\ Waits(r) = None
    BY PhaseOfOwner DEF Waits
<1>2. Phase(r)' = "filling"
    BY DEF Phase, RequestOwns, Landing, Leading, Closing
<1>3. \A s \in Requests \ {r} : Phase(s)' = Phase(s)
    BY DEF Phase, RequestOwns, FillOwns, Landing
<1>4. \A s \in Requests : Waits(s)' = Waits(s)
    BY DEF Waits
<1>5. Flights!SetPhase(r, "none", "filling")
    BY <1>1, <1>2, <1>3, PhaseMoves
<1> QED
    BY <1>1, <1>4, <1>5, SameWaits DEF Flights!Begin

\* Following is waiting for the registered filler.
LEMMA JoinFollows ==
    ASSUME Ind, NEW r \in Requests, JoinAsFollower(r)
    PROVE  Flights!Follow(r, key[r])
<1> USE DEF JoinAsFollower, At, Goto, shared, Ind, TypeOK, PlacesOK, FlAt
<1>1. Phase(r) = "none" /\ Waits(r) = None
    BY PhaseOfOwner DEF Waits
<1>2. \A s \in Requests : Phase(s)' = Phase(s)
    BY NoneIsNothing DEF Phase, RequestOwns, FillOwns, Landing, Leading, Closing
<1>3. Waits(r)' = flights[key[r]] /\ \A s \in Requests \ {r} : Waits(s)' = Waits(s)
    BY DEF Waits
<1> QED
    BY <1>1, <1>2, <1>3, SamePhases, WaitMoves DEF Flights!Follow

\* The follower's select is a release.
LEMMA StopWaitingReleases ==
    ASSUME Ind, NEW r \in Requests, WaitDone(r) \/ WaitVideo(r) \/ WaitGone(r)
    PROVE  Flights!Release(r)
<1> USE DEF WaitDone, WaitVideo, WaitGone, StopWaiting, At, Goto, shared
<1>1. Waits(r) = fl[r] /\ fl[r] \in Requests
    BY DEF Waits, Ind, TypeOK, PlacesOK, FlAt
<1>2. fl[r] \in doneClosed => Phase(fl[r]) = "announced"
    BY DEF Phase
<1>3. \A s \in Requests : Phase(s)' = Phase(s)
    BY NoneIsNothing
    DEF Ind, TypeOK, PlacesOK, FlAt, FillAt, Phase, RequestOwns, FillOwns, Landing, Leading, Closing
<1>4. Waits(r)' = None /\ \A s \in Requests \ {r} : Waits(s)' = Waits(s)
    BY DEF Waits, Ind, TypeOK
<1> QED
    BY <1>1, <1>2, <1>3, <1>4, SamePhases, WaitMoves, NoneIsNothing DEF Flights!Release

\* Handing the download over is streaming.
LEMMA DetachStreams ==
    ASSUME Ind, NEW r \in Requests, Detach(r)
    PROVE  Flights!Stream(r)
<1> USE NoneIsNothing DEF Detach, At, Goto, SetFollow, Ind, TypeOK, PlacesOK, FlAt, FillAt, ClosedAt
<1>1. Phase(r) = "filling" /\ r \notin videoClosed
    BY PhaseOfOwner DEF RequestOwns, Leading
<1>2. \A s \in Requests : Phase(s)' = Phase(s)
    BY DEF Phase, RequestOwns, FillOwns, Landing, Leading, Closing
<1>3. \A s \in Requests : Waits(s)' = Waits(s)
    BY DEF Waits
<1> QED
    BY <1>1, <1>2, <1>3, SamePhases, SameWaits DEF Flights!Stream

\* The first half of finishFlight lands the flight, whoever runs it ...
LEMMA DeleteLands ==
    ASSUME Ind, NEW r \in Requests, DeleteFlight(r) \/ FillDeleteFlight(r)
    PROVE  Flights!Land(r, key[r])
<1> USE NoneIsNothing
    DEF DeleteFlight, FillDeleteFlight, At, Goto, FillGoto, Ind, TypeOK, PlacesOK, FlAt, FillAt, ClosedAt
<1>1. key[r] \in Keys /\ (RequestOwns(r) \/ FillOwns(r))
    BY DEF RequestOwns, FillOwns, Leading
<1>2. flights[key[r]] = r /\ Phase(r) = "filling"
    BY <1>1, PhaseOfOwner DEF FlightOwned
<1>3. Phase(r)' = "landed"
    BY DEF Phase, Landing, Closing
<1>4. \A s \in Requests \ {r} : Phase(s)' = Phase(s)
    BY DEF Phase, RequestOwns, FillOwns, Landing
<1>5. \A s \in Requests : Waits(s)' = Waits(s)
    BY DEF Waits
<1>6. Flights!SetPhase(r, "filling", "landed")
    BY <1>2, <1>3, <1>4, PhaseMoves
<1> QED
    BY <1>2, <1>5, <1>6, SameWaits DEF Flights!Land

\* ... and the second half announces it.
LEMMA CloseAnnounces ==
    ASSUME Ind, NEW r \in Requests, CloseDone(r) \/ FillCloseDone(r)
    PROVE  Flights!Announce(r)
<1> USE NoneIsNothing
    DEF CloseDone, FillCloseDone, At, Goto, FillGoto, Ind, TypeOK, PlacesOK, FlAt, FillAt, ClosedAt
<1>1. Phase(r) = "landed"
    BY PhaseOfOwner DEF Landing
<1>2. doneClosed' = doneClosed \cup {r}
    OBVIOUS
<1>3. Phase(r)' = "announced"
    BY <1>2 DEF Phase
<1>4. \A s \in Requests \ {r} : Phase(s)' = Phase(s)
    BY <1>2 DEF Phase, RequestOwns, FillOwns, Landing
<1>5. \A s \in Requests : Waits(s)' = Waits(s)
    BY DEF Waits, Closing
<1>6. Flights!SetPhase(r, "landed", "announced")
    BY <1>1, <1>3, <1>4, PhaseMoves
<1> QED
    BY <1>5, <1>6, SameWaits DEF Flights!Announce

\* Every step of serveMedia is a step of SingleFlight or changes nothing there.
LEMMA StepSimulates ==
    ASSUME Ind, [Next]_vars
    PROVE  [Flights!Next]_(Flights!vars)
<1>1. ASSUME NEW r \in Requests, JoinAsLeader(r) \/ JoinAsFollower(r) \/ DeleteFlight(r) \/ FillDeleteFlight(r)
      PROVE  Flights!Next
    <2>1. key[r] \in Keys
        BY <1>1
        DEF Ind, PlacesOK, FlAt, FillAt, JoinAsLeader, JoinAsFollower, DeleteFlight, FillDeleteFlight, FillGoto, At
    <2> QED
        BY <1>1, <2>1, JoinBegins, JoinFollows, DeleteLands DEF Flights!Next
<1>2. ASSUME NEW r \in Requests,
             HangUp(r) \/ WaitDone(r) \/ WaitVideo(r) \/ WaitGone(r) \/ Detach(r)
               \/ CloseDone(r) \/ FillCloseDone(r)
      PROVE  Flights!Next
    BY <1>2, HangUpGivesUp, StopWaitingReleases, DetachStreams, CloseAnnounces DEF Flights!Next
<1>3. CASE Evict
    <2>1. \A s \in Requests : Phase(s)' = Phase(s) /\ Waits(s)' = Waits(s)
        BY <1>3 DEF Evict, local, Phase, Waits, RequestOwns, FillOwns, Landing, At
    <2> QED
        BY <1>3, <2>1, Stutters DEF Evict, local
<1>4. CASE UNCHANGED vars
    <2>1. \A s \in Requests : Phase(s)' = Phase(s) /\ Waits(s)' = Waits(s)
        BY <1>4 DEF vars, Phase, Waits, RequestOwns, FillOwns, Landing, At
    <2> QED
        BY <1>4, <2>1, Stutters DEF vars
<1> QED
    BY <1>1, <1>2, <1>3, <1>4, LocalStepsStutter DEF Next, AllServed, Step, Loop, Download, Leave, Fill

\* serveMedia's flights implement SingleFlight: per key at most one filler at
\* a time, and followers released only by the filler they wait for.
THEOREM FlightsAreImplemented == Spec => FlightsImplemented
<1>1. Init => Flights!Init
    BY NoneIsNothing
    DEF Init, Flights!Init, Phase, Waits, RequestOwns, FillOwns, Landing, Closing, Leading, At
<1> QED
    BY Invariance, <1>1, StepSimulates, PTL DEF Spec, FlightsImplemented, Flights!Spec
=============================================================================
