------------------------ MODULE TimelineStoreProofs ------------------------
(***************************************************************************)
(* The timeline store for any number of Browses and loads, any intervals,  *)
(* any number of edits.                                                    *)
(***************************************************************************)
EXTENDS TimelineStore, FiniteSetTheorems, TLAPS

\* OneLoadAtATime without the cardinality.
LoadsAlone == /\ \A a, b \in Running : a = b
              /\ loading = (Running # {})

\* Before main calls WarmUp nothing has happened.
Dormant == ~booted => assets = None /\ closed = {} /\ Running = {}

\* A channel is closed with something to say.
ClosedTells ==
    /\ closed # {} /\ assets = None => firstErr = Failed
    /\ \A g \in Gets : pc[g] = "recheck" => chan[g] \in closed

\* The copy and the outcome about to replace it are listings the library had,
\* in that order.
CopiesAreOrdered ==
    /\ assets # None => assets <= immich
    /\ \A l \in Loads : load[l] = "store" =>
          /\ fetched[l] # None
          /\ fetched[l] # Failed => /\ fetched[l] <= immich
                                    /\ assets # None => assets <= fetched[l]

Ind == /\ TypeOK /\ LoadsAlone /\ Dormant /\ FirstDoneClosesOnce /\ ClosedTells
       /\ WaitersAreWoken /\ NeverNothing /\ CopiesAreOrdered

-----------------------------------------------------------------------------
(* Lemmas. *)

\* What starting a load does to the set of running loads.
LEMMA StartLoadRuns ==
    ASSUME TypeOK, StartLoad, Running = {}
    PROVE  /\ loading' = TRUE /\ UNCHANGED fetched
           /\ load' \in [Loads -> {"none", "list", "store", "done"}]
           /\ \E l \in Loads : /\ Running' = {l}
                               /\ load'[l] = "list"
                               /\ \A k \in Loads \ {l} : load'[k] = load[k]
<1>1. PICK l \in Loads : load[l] = "none" /\ load' = [load EXCEPT ![l] = "list"]
  BY DEF StartLoad
<1>2. /\ load'[l] = "list" /\ load' \in [Loads -> {"none", "list", "store", "done"}]
      /\ \A k \in Loads \ {l} : load'[k] = load[k]
  BY <1>1 DEF TypeOK
<1>3. Running' = {l}
  BY <1>2 DEF Running
<1> QED BY <1>2, <1>3 DEF StartLoad

\* A load that ends leaves none running.
LEMMA EndOfLoad ==
    ASSUME TypeOK, LoadsAlone, NEW l \in Loads, load[l] = "store",
           load' = [load EXCEPT ![l] = "done"]
    PROVE  /\ Running' = {}
           /\ \A k \in Loads : load'[k] # "store"
           /\ Running = {l}
<1>1. Running = {l}
  BY DEF Running, LoadsAlone
<1>2. \A k \in Loads : load'[k] = IF k = l THEN "done" ELSE load[k]
  BY DEF TypeOK
<1>3. \A k \in Loads : k # l => load[k] \notin {"list", "store"}
  BY <1>1 DEF Running
<1> QED BY <1>1, <1>2, <1>3 DEF Running

LEMMA InitInd == Init => Ind
<1> SUFFICES ASSUME Init PROVE Ind
  OBVIOUS
<1>1. Running = {}
  BY DEF Init, Running
<1>2. TypeOK
  <2>1. clock \in 0..MaxTime /\ immich \in Versions /\ fetchedAt \in 0..clock
    BY BoundsAreNatural DEF Init, Versions
  <2>2. pc \in [Gets -> {"idle", "wait", "recheck", "done"}]
        /\ load \in [Loads -> {"none", "list", "store", "done"}]
    BY DEF Init
  <2>3. since \in [Gets -> 0..clock] /\ chan \in [Gets -> Nat \cup {None}]
    BY DEF Init
  <2>4. answer \in [Gets -> Versions \cup {None, Failed, Loading}]
        /\ fetched \in [Loads -> Versions \cup {None, Failed}]
    BY DEF Init
  <2>5. /\ booted \in BOOLEAN /\ loading \in BOOLEAN
        /\ assets \in Versions \cup {None} /\ firstErr \in {None, Failed}
        /\ firstDone \in Nat /\ closed \subseteq 0..firstDone
    BY DEF Init
  <2> QED BY <2>1, <2>2, <2>3, <2>4, <2>5 DEF TypeOK
<1>3. LoadsAlone /\ Dormant /\ FirstDoneClosesOnce
  BY <1>1 DEF Init, LoadsAlone, Dormant, FirstDoneClosesOnce
<1>4. ClosedTells /\ WaitersAreWoken /\ NeverNothing /\ CopiesAreOrdered
  BY DEF Init, ClosedTells, WaitersAreWoken, NeverNothing, CopiesAreOrdered
<1> QED BY <1>2, <1>3, <1>4 DEF Ind

\* Each step keeps the invariant; a step per action.
LEMMA NextInd == Ind /\ [Next]_vars => Ind'
<1> SUFFICES ASSUME Ind, [Next]_vars PROVE Ind'
  OBVIOUS
<1> USE RefreshPositive, BoundsAreNatural, NamesDiffer
<1>1. CASE Edit
  BY <1>1 DEF Edit, Ind, TypeOK, LoadsAlone, Dormant, FirstDoneClosesOnce, ClosedTells,
      WaitersAreWoken, NeverNothing, CopiesAreOrdered, Running, Versions,
      entryVars, getVars, loadVars
<1>2. CASE Tick
  BY <1>2 DEF Tick, Ind, TypeOK, LoadsAlone, Dormant, FirstDoneClosesOnce, ClosedTells,
      WaitersAreWoken, NeverNothing, CopiesAreOrdered, Running, Versions,
      entryVars, getVars, loadVars
<1>3. CASE WarmUp
  <2>1. Running = {} /\ closed = {} /\ assets = None
    BY <1>3 DEF WarmUp, Ind, Dormant
  <2>2. PICK l \in Loads : /\ Running' = {l} /\ load'[l] = "list"
                           /\ \A k \in Loads \ {l} : load'[k] = load[k]
    BY <1>3, <2>1, StartLoadRuns DEF WarmUp, Ind
  <2>3. /\ loading' = TRUE /\ UNCHANGED fetched
        /\ load' \in [Loads -> {"none", "list", "store", "done"}]
    BY <1>3, <2>1, StartLoadRuns DEF WarmUp, Ind
  <2>4. TypeOK' /\ LoadsAlone' /\ Dormant'
    BY <1>3, <2>2, <2>3 DEF WarmUp, Ind, TypeOK, LoadsAlone, Dormant, getVars
  <2>5. FirstDoneClosesOnce' /\ ClosedTells' /\ WaitersAreWoken' /\ NeverNothing'
    BY <1>3, <2>1, <2>2 DEF WarmUp, Ind, FirstDoneClosesOnce, ClosedTells,
       WaitersAreWoken, NeverNothing, getVars
  <2>6. CopiesAreOrdered'
    BY <1>3, <2>2, <2>3 DEF WarmUp, Ind, CopiesAreOrdered
  <2> QED BY <2>4, <2>5, <2>6 DEF Ind
<1>4. ASSUME NEW g \in Gets, Get(g) PROVE Ind'
  <2>1. CASE GetCopy(g)
    <3>1. CASE UNCHANGED <<loading, loadVars>>
      BY <2>1, <3>1 DEF GetCopy, Ind, TypeOK, LoadsAlone, Dormant, FirstDoneClosesOnce,
         ClosedTells, WaitersAreWoken, NeverNothing, CopiesAreOrdered, Running, Versions, loadVars
    <3>2. CASE ~loading /\ StartLoad
      <4>1. Running = {} /\ assets # None /\ booted
        BY <2>1, <3>2 DEF GetCopy, Ind, LoadsAlone
      <4>2. PICK l \in Loads : /\ Running' = {l} /\ load'[l] = "list"
                               /\ \A k \in Loads \ {l} : load'[k] = load[k]
        BY <3>2, <4>1, StartLoadRuns DEF Ind
      <4>3. /\ loading' = TRUE /\ UNCHANGED fetched
            /\ load' \in [Loads -> {"none", "list", "store", "done"}]
        BY <3>2, <4>1, StartLoadRuns DEF Ind
      <4>4. TypeOK' /\ LoadsAlone' /\ Dormant'
        BY <2>1, <4>2, <4>3 DEF GetCopy, Ind, TypeOK, LoadsAlone, Dormant
      <4>5. FirstDoneClosesOnce' /\ ClosedTells' /\ WaitersAreWoken' /\ NeverNothing'
        BY <2>1, <4>1, <4>2 DEF GetCopy, Ind, TypeOK, FirstDoneClosesOnce, ClosedTells,
           WaitersAreWoken, NeverNothing
      <4>6. CopiesAreOrdered'
        BY <2>1, <4>2, <4>3 DEF GetCopy, Ind, CopiesAreOrdered
      <4> QED BY <4>4, <4>5, <4>6 DEF Ind
    <3> QED BY <2>1, <3>1, <3>2 DEF GetCopy
  <2>2. CASE GetJoins(g)
    <3>1. TypeOK'
      BY <2>2 DEF GetJoins, WaitOn, Ind, TypeOK, Versions, entryVars, loadVars
    <3>2. LoadsAlone' /\ Dormant' /\ FirstDoneClosesOnce' /\ CopiesAreOrdered'
      BY <2>2 DEF GetJoins, Ind, LoadsAlone, Dormant, FirstDoneClosesOnce, CopiesAreOrdered,
         Running, entryVars, loadVars
    <3>3. WaitersAreWoken'
      BY <2>2 DEF GetJoins, WaitOn, Ind, TypeOK, LoadsAlone, WaitersAreWoken, Running,
         entryVars, loadVars
    <3>4. ClosedTells' /\ NeverNothing'
      BY <2>2 DEF GetJoins, WaitOn, Ind, TypeOK, ClosedTells, NeverNothing, entryVars
    <3> QED BY <3>1, <3>2, <3>3, <3>4 DEF Ind
  <2>3. CASE GetRetries(g)
    <3>1. Running = {} /\ assets = None /\ booted /\ StartLoad
      BY <2>3 DEF GetRetries, Ind, LoadsAlone
    <3>2. PICK l \in Loads : /\ Running' = {l} /\ load'[l] = "list"
                             /\ \A k \in Loads \ {l} : load'[k] = load[k]
      BY <3>1, StartLoadRuns DEF Ind
    <3>3. /\ loading' = TRUE /\ UNCHANGED fetched
          /\ load' \in [Loads -> {"none", "list", "store", "done"}]
      BY <3>1, StartLoadRuns DEF Ind
    <3>4. firstDone' \in Nat /\ firstDone <= firstDone' /\ firstDone' \notin closed
      BY <2>3 DEF GetRetries, Ind, TypeOK
    <3>5. TypeOK'
      <4>1. closed' \subseteq 0..firstDone'
        BY <2>3, <3>4 DEF GetRetries, Ind, TypeOK
      <4>2. chan' \in [Gets -> Nat \cup {None}] /\ since' \in [Gets -> 0..clock]
            /\ pc' \in [Gets -> {"idle", "wait", "recheck", "done"}]
        BY <2>3, <3>4 DEF GetRetries, WaitOn, Ind, TypeOK
      <4> QED BY <2>3, <3>3, <3>4, <4>1, <4>2 DEF GetRetries, Ind, TypeOK, Versions
    <3>9. LoadsAlone' /\ Dormant'
      BY <2>3, <3>1, <3>2, <3>3 DEF GetRetries, Ind, LoadsAlone, Dormant
    <3>6. FirstDoneClosesOnce' /\ ClosedTells' /\ NeverNothing'
      BY <2>3, <3>4 DEF GetRetries, WaitOn, Ind, TypeOK, FirstDoneClosesOnce, ClosedTells,
         NeverNothing
    <3>7. WaitersAreWoken'
      BY <2>3, <3>1, <3>2 DEF GetRetries, WaitOn, Ind, TypeOK, WaitersAreWoken
    <3>8. CopiesAreOrdered'
      BY <2>3, <3>2, <3>3 DEF GetRetries, Ind, CopiesAreOrdered
    <3> QED BY <3>5, <3>6, <3>7, <3>8, <3>9 DEF Ind
  <2>4. CASE Wake(g)
    BY <2>4 DEF Wake, Ind, TypeOK, LoadsAlone, Dormant, FirstDoneClosesOnce,
       ClosedTells, WaitersAreWoken, NeverNothing, CopiesAreOrdered, Running, Versions,
       entryVars, loadVars
  <2>5. CASE GiveUp(g)
    BY <2>5 DEF GiveUp, Ind, TypeOK, LoadsAlone, Dormant, FirstDoneClosesOnce,
       ClosedTells, WaitersAreWoken, NeverNothing, CopiesAreOrdered, Running, Versions,
       entryVars, loadVars
  <2>6. CASE Recheck(g)
    <3>1. assets = None => firstErr = Failed
      BY <2>6 DEF Recheck, Ind, ClosedTells
    <3> QED BY <2>6, <3>1 DEF Recheck, Ind, TypeOK, LoadsAlone, Dormant, FirstDoneClosesOnce,
       ClosedTells, WaitersAreWoken, NeverNothing, CopiesAreOrdered, Running, Versions,
       entryVars, loadVars
  <2> QED BY <1>4, <2>1, <2>2, <2>3, <2>4, <2>5, <2>6 DEF Get
<1>5. ASSUME NEW l \in Loads, LoadRun(l) PROVE Ind'
  <2>1. CASE List(l)
    <3>1. PICK result \in {immich, Failed} : fetched' = [fetched EXCEPT ![l] = result]
      BY <2>1 DEF List
    <3>2. Running' = Running
      BY <2>1 DEF List, Running, Ind, TypeOK
    <3> QED BY <2>1, <3>1, <3>2 DEF List, Ind, TypeOK, LoadsAlone, Dormant,
       FirstDoneClosesOnce, ClosedTells, WaitersAreWoken, NeverNothing, CopiesAreOrdered,
       Versions, entryVars, getVars
  <2>2. CASE Fail(l)
    <3>1. Running' = {} /\ Running = {l} /\ \A k \in Loads : load'[k] # "store"
      BY <2>2, EndOfLoad DEF Fail, Ind
    <3>2. TypeOK'
      <4>1. closed' \subseteq 0..firstDone' /\ firstErr' \in {None, Failed}
        BY <2>2 DEF Fail, Ind, TypeOK
      <4>2. load' \in [Loads -> {"none", "list", "store", "done"}]
        BY <2>2 DEF Fail, Ind, TypeOK
      <4> QED BY <2>2, <4>1, <4>2 DEF Fail, Ind, TypeOK, Versions, getVars
    <3>3. LoadsAlone' /\ Dormant' /\ FirstDoneClosesOnce' /\ CopiesAreOrdered'
      BY <2>2, <3>1 DEF Fail, Ind, LoadsAlone, Dormant, FirstDoneClosesOnce, CopiesAreOrdered
    <3>4. WaitersAreWoken'
      BY <2>2, <3>1 DEF Fail, Ind, WaitersAreWoken, getVars
    <3>5. ClosedTells' /\ NeverNothing'
      BY <2>2 DEF Fail, Ind, ClosedTells, NeverNothing, getVars
    <3> QED BY <3>2, <3>3, <3>4, <3>5 DEF Ind
  <2>3. CASE Store(l)
    <3>1. Running' = {} /\ Running = {l} /\ \A k \in Loads : load'[k] # "store"
      BY <2>3, EndOfLoad DEF Store, Ind
    <3>2. fetched[l] \in Versions /\ fetched[l] # None /\ fetched[l] <= immich
      BY <2>3 DEF Store, Ind, TypeOK, CopiesAreOrdered
    <3>3. TypeOK'
      <4>1. closed' \subseteq 0..firstDone' /\ firstErr' \in {None, Failed}
        BY <2>3 DEF Store, Ind, TypeOK
      <4>2. load' \in [Loads -> {"none", "list", "store", "done"}]
        BY <2>3 DEF Store, Ind, TypeOK
      <4>3. assets' \in Versions /\ clock \in 0..clock
        BY <2>3, <3>2 DEF Store, Ind, TypeOK
      <4> QED BY <2>3, <4>1, <4>2, <4>3 DEF Store, Ind, TypeOK, getVars
    <3>4. LoadsAlone' /\ Dormant' /\ FirstDoneClosesOnce' /\ CopiesAreOrdered'
      BY <2>3, <3>1, <3>2 DEF Store, Ind, LoadsAlone, Dormant, FirstDoneClosesOnce,
         CopiesAreOrdered
    <3>5. WaitersAreWoken'
      BY <2>3, <3>1 DEF Store, Ind, WaitersAreWoken, getVars
    <3>6. ClosedTells' /\ NeverNothing'
      BY <2>3, <3>2 DEF Store, Ind, ClosedTells, NeverNothing, getVars
    <3> QED BY <3>3, <3>4, <3>5, <3>6 DEF Ind
  <2> QED BY <1>5, <2>1, <2>2, <2>3 DEF LoadRun
<1>6. CASE UNCHANGED vars
  BY <1>6 DEF vars, Ind, TypeOK, LoadsAlone, Dormant, FirstDoneClosesOnce, ClosedTells,
      WaitersAreWoken, NeverNothing, CopiesAreOrdered, Running, Versions
<1> QED BY <1>1, <1>2, <1>3, <1>4, <1>5, <1>6 DEF Next, Quiet

-----------------------------------------------------------------------------
(* Theorems. *)

\* The strengthening is invariant.
THEOREM TimelineInvariance == Spec => []Ind
<1> QED BY InitInd, NextInd, PTL DEF Spec

\* dlna/timelinestore.go: every variable of the store keeps its type.
THEOREM TimelineTypeCorrect == Spec => []TypeOK
<1>1. Ind => TypeOK
  BY DEF Ind
<1> QED BY TimelineInvariance, <1>1, PTL

\* However many Browses find the copy missing or stale, one listing of the
\* library runs at a time, and loading says whether it does.
THEOREM LoadsOneAtATime == Spec => []OneLoadAtATime
<1>1. Ind => OneLoadAtATime
  <2> SUFFICES ASSUME Ind PROVE OneLoadAtATime
    OBVIOUS
  <2>1. CASE Running = {}
    BY <2>1, FS_EmptySet DEF Ind, LoadsAlone, OneLoadAtATime
  <2>2. CASE Running # {}
    <3>1. PICK l : Running = {l}
      BY <2>2 DEF Ind, LoadsAlone
    <3>2. Cardinality(Running) = 1
      BY <3>1, FS_Singleton
    <3> QED BY <2>2, <3>2 DEF Ind, LoadsAlone, OneLoadAtATime
  <2> QED BY <2>1, <2>2
<1> QED BY <1>1, TimelineInvariance, PTL

\* Ending an attempt at the first load never closes a closed channel.
THEOREM FirstDoneIsClosedOnce == Spec => []FirstDoneClosesOnce
<1>1. Ind => FirstDoneClosesOnce
  BY DEF Ind
<1> QED BY <1>1, TimelineInvariance, PTL

\* A Browse that waits for the first load is woken by the attempt it waits for.
THEOREM TimelineWaitersAreWoken == Spec => []WaitersAreWoken
<1>1. Ind => WaitersAreWoken
  BY DEF Ind
<1> QED BY <1>1, TimelineInvariance, PTL

\* A Browse is answered with assets or an error.
THEOREM AnswersAreSomething == Spec => []NeverNothing
<1>1. Ind => NeverNothing
  BY DEF Ind
<1> QED BY <1>1, TimelineInvariance, PTL

\* A copy is never lost, nor replaced by an older one.
THEOREM CopiesGoForward == Spec => CopyNeverGoesBack
<1>1. Ind /\ [Next]_vars => [assets # None => assets' # None /\ assets' >= assets]_vars
  <2> SUFFICES ASSUME Ind, [Next]_vars, assets # None
               PROVE  assets' # None /\ assets' >= assets
    OBVIOUS
  <2>1. ASSUME NEW l \in Loads, Store(l) PROVE assets' # None /\ assets' >= assets
    BY <2>1, NamesDiffer, BoundsAreNatural DEF Store, Ind, TypeOK, CopiesAreOrdered, Versions
  <2>2. ASSUME assets' = assets PROVE assets' # None /\ assets' >= assets
    BY <2>2, BoundsAreNatural DEF Ind, TypeOK, Versions
  <2>3. assets' = assets \/ \E l \in Loads : Store(l)
    BY DEF Next, Edit, Tick, WarmUp, Get, GetCopy, GetJoins, GetRetries, Wake, GiveUp, Recheck,
       LoadRun, List, Fail, Quiet, vars, entryVars
  <2> QED BY <2>1, <2>2, <2>3
<1> QED BY <1>1, TimelineInvariance, PTL DEF Spec, CopyNeverGoesBack
=============================================================================
