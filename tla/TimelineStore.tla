--------------------------- MODULE TimelineStore ---------------------------
(***************************************************************************)
(* The timeline store (dlna/timelinestore.go) of one account; the accounts *)
(* share nothing but the mutex.                                            *)
(*                                                                         *)
(* A process is one Browse that needs the timeline, or the goroutine of    *)
(* one load.  The timeline's contents are the number of times the library  *)
(* has been edited.  A firstDone channel is named by the number of         *)
(* channels made before it.                                                *)
(***************************************************************************)
EXTENDS Integers, FiniteSets

CONSTANTS
    Gets,      \* calls of get
    Loads,     \* load goroutines, each started at most once
    Refresh,   \* TIMELINE_REFRESH_MINUTES
    FirstWait, \* timelineFirstLoadWait
    MaxTime,   \* bound on the clock
    MaxEdits,  \* bound on the edits of the library
    Failed,    \* the outcome of a load that failed, and its error
    Loading,   \* errTimelineLoading, the answer of a get that gave up
    None

ASSUME RefreshPositive == Refresh \in Nat \ {0}
ASSUME BoundsAreNatural == FirstWait \in Nat /\ MaxTime \in Nat /\ MaxEdits \in Nat
ASSUME LoadsFinite == IsFiniteSet(Loads)
ASSUME NamesDiffer == /\ None \notin Nat \cup {Failed, Loading}
                      /\ Failed \notin Nat \cup {Loading}
                      /\ Loading \notin Nat

VARIABLES
    clock,
    immich,    \* the library's contents
    booted,    \* has main called WarmUp?
    assets,    \* timelineEntry.assets, None for nil
    fetchedAt,
    loading,
    firstDone, \* the channel that the field holds
    closed,    \* the channels that are closed
    firstErr,
    pc,        \* where each get is
    chan,      \* per get, the channel it waits on
    since,     \* per get, when it began to wait
    answer,    \* per get, what it returned
    load,      \* where each load is
    fetched    \* per load, its outcome

entryVars == <<assets, fetchedAt, loading, firstDone, closed, firstErr>>
getVars   == <<pc, chan, since, answer>>
loadVars  == <<load, fetched>>
vars == <<clock, immich, booted, assets, fetchedAt, loading, firstDone, closed, firstErr,
          pc, chan, since, answer, load, fetched>>

Versions == 0..MaxEdits
Running  == {l \in Loads : load[l] \in {"list", "store"}}

TypeOK ==
    /\ clock \in 0..MaxTime
    /\ immich \in Versions
    /\ booted \in BOOLEAN
    /\ assets \in Versions \cup {None}
    /\ fetchedAt \in 0..clock
    /\ loading \in BOOLEAN
    /\ firstDone \in Nat
    /\ closed \subseteq 0..firstDone
    /\ firstErr \in {None, Failed}
    /\ pc \in [Gets -> {"idle", "wait", "recheck", "done"}]
    /\ chan \in [Gets -> Nat \cup {None}]
    /\ since \in [Gets -> 0..clock]
    /\ answer \in [Gets -> Versions \cup {None, Failed, Loading}]
    /\ load \in [Loads -> {"none", "list", "store", "done"}]
    /\ fetched \in [Loads -> Versions \cup {None, Failed}]

Init ==
    /\ clock = 0
    /\ immich = 0
    /\ booted = FALSE
    /\ assets = None
    /\ fetchedAt = 0
    /\ loading = FALSE
    /\ firstDone = 0
    /\ closed = {}
    /\ firstErr = None
    /\ pc = [g \in Gets |-> "idle"]
    /\ chan = [g \in Gets |-> None]
    /\ since = [g \in Gets |-> 0]
    /\ answer = [g \in Gets |-> None]
    /\ load = [l \in Loads |-> "none"]
    /\ fetched = [l \in Loads |-> None]

-----------------------------------------------------------------------------
(* The environment. *)

Edit ==
    /\ immich < MaxEdits
    /\ immich' = immich + 1
    /\ UNCHANGED <<clock, booted, entryVars, getVars, loadVars>>

Tick ==
    /\ clock < MaxTime
    /\ clock' = clock + 1
    /\ UNCHANGED <<immich, booted, entryVars, getVars, loadVars>>

-----------------------------------------------------------------------------
(* Starting a load, with the mutex held. *)

\* A mutant: loading is not set.
StartUnmarked ==
    /\ \E l \in Loads : load[l] = "none" /\ load' = [load EXCEPT ![l] = "list"]
    /\ UNCHANGED <<loading, fetched>>

StartLoad ==
    /\ loading' = TRUE
    /\ \E l \in Loads : load[l] = "none" /\ load' = [load EXCEPT ![l] = "list"]
    /\ UNCHANGED fetched

\* main calls WarmUp before it serves anything.
WarmUp ==
    /\ ~booted
    /\ booted' = TRUE
    /\ assets = None /\ ~loading
    /\ StartLoad
    /\ UNCHANGED <<clock, immich, assets, fetchedAt, firstDone, closed, firstErr, getVars>>

-----------------------------------------------------------------------------
(* get. *)

Stale == clock - fetchedAt >= Refresh

\* There is a copy: it is the answer, and if it is stale and nobody is loading
\* the next one, a load is started.
GetCopy(g) ==
    /\ pc[g] = "idle" /\ booted
    /\ assets # None
    /\ IF ~loading /\ Stale THEN StartLoad ELSE UNCHANGED <<loading, loadVars>>
    /\ pc' = [pc EXCEPT ![g] = "done"]
    /\ answer' = [answer EXCEPT ![g] = assets]
    /\ UNCHANGED <<clock, immich, booted, assets, fetchedAt, firstDone, closed, firstErr,
                   chan, since>>

WaitOn(g, c) ==
    /\ pc' = [pc EXCEPT ![g] = "wait"]
    /\ chan' = [chan EXCEPT ![g] = c]
    /\ since' = [since EXCEPT ![g] = clock]

\* The first load is still running: wait with whoever else does.
GetJoins(g) ==
    /\ pc[g] = "idle" /\ booted
    /\ assets = None /\ loading
    /\ WaitOn(g, firstDone)
    /\ UNCHANGED <<clock, immich, booted, entryVars, answer, loadVars>>

\* A mutant: the retry keeps the channel of the attempt that failed.
GetRetriesOnOldChannel(g) ==
    /\ pc[g] = "idle" /\ booted
    /\ assets = None /\ ~loading
    /\ StartLoad
    /\ WaitOn(g, firstDone)
    /\ UNCHANGED <<clock, immich, booted, assets, fetchedAt, firstDone, closed, firstErr, answer>>

\* The first load failed: try again, with a fresh channel to wait on.
GetRetries(g) ==
    /\ pc[g] = "idle" /\ booted
    /\ assets = None /\ ~loading
    /\ firstDone' = IF firstDone \in closed THEN firstDone + 1 ELSE firstDone
    /\ StartLoad
    /\ WaitOn(g, firstDone')
    /\ UNCHANGED <<clock, immich, booted, assets, fetchedAt, closed, firstErr, answer>>

\* The select: the channel is closed, or the wait is over; whichever comes
\* first, and either if both have.
Wake(g) ==
    /\ pc[g] = "wait"
    /\ chan[g] \in closed
    /\ pc' = [pc EXCEPT ![g] = "recheck"]
    /\ UNCHANGED <<clock, immich, booted, entryVars, chan, since, answer, loadVars>>

GiveUp(g) ==
    /\ pc[g] = "wait"
    /\ clock - since[g] >= FirstWait
    /\ pc' = [pc EXCEPT ![g] = "done"]
    /\ answer' = [answer EXCEPT ![g] = Loading]
    /\ UNCHANGED <<clock, immich, booted, entryVars, chan, since, loadVars>>

\* Under the mutex again: whatever there is by now.
Recheck(g) ==
    /\ pc[g] = "recheck"
    /\ pc' = [pc EXCEPT ![g] = "done"]
    /\ answer' = [answer EXCEPT ![g] = IF assets = None THEN firstErr ELSE assets]
    /\ UNCHANGED <<clock, immich, booted, entryVars, chan, since, loadVars>>

-----------------------------------------------------------------------------
(* The load goroutine. *)

\* client.ListTimelineAssets returns.
List(l) ==
    /\ load[l] = "list"
    /\ load' = [load EXCEPT ![l] = "store"]
    /\ \E result \in {immich, Failed} : fetched' = [fetched EXCEPT ![l] = result]
    /\ UNCHANGED <<clock, immich, booted, entryVars, getVars>>

\* A mutant: a load that failed wakes nobody.
FailQuietly(l) ==
    /\ load[l] = "store" /\ fetched[l] = Failed
    /\ load' = [load EXCEPT ![l] = "done"]
    /\ loading' = FALSE
    /\ firstErr' = IF assets = None THEN Failed ELSE firstErr
    /\ UNCHANGED <<clock, immich, booted, assets, fetchedAt, firstDone, closed, getVars, fetched>>

\* A mutant: the error is not kept for those who wait.
FailWithoutError(l) ==
    /\ load[l] = "store" /\ fetched[l] = Failed
    /\ load' = [load EXCEPT ![l] = "done"]
    /\ loading' = FALSE
    /\ closed' = IF assets = None THEN closed \cup {firstDone} ELSE closed
    /\ UNCHANGED <<clock, immich, booted, assets, fetchedAt, firstDone, firstErr, getVars, fetched>>

\* A mutant: a refresh that failed drops the copy.
FailDropsCopy(l) ==
    /\ load[l] = "store" /\ fetched[l] = Failed
    /\ load' = [load EXCEPT ![l] = "done"]
    /\ loading' = FALSE
    /\ assets' = None
    /\ firstErr' = IF assets = None THEN Failed ELSE firstErr
    /\ closed' = IF assets = None THEN closed \cup {firstDone} ELSE closed
    /\ UNCHANGED <<clock, immich, booted, fetchedAt, firstDone, getVars, fetched>>

\* Under the mutex: a first load that failed leaves its error and wakes those
\* who wait; a refresh that failed leaves the copy as it is.
Fail(l) ==
    /\ load[l] = "store" /\ fetched[l] = Failed
    /\ load' = [load EXCEPT ![l] = "done"]
    /\ loading' = FALSE
    /\ firstErr' = IF assets = None THEN Failed ELSE firstErr
    /\ closed' = IF assets = None THEN closed \cup {firstDone} ELSE closed
    /\ UNCHANGED <<clock, immich, booted, assets, fetchedAt, firstDone, getVars, fetched>>

\* A mutant: nobody looks at the error.
StoreUnchecked(l) ==
    /\ load[l] = "store"
    /\ load' = [load EXCEPT ![l] = "done"]
    /\ loading' = FALSE
    /\ assets' = fetched[l]
    /\ fetchedAt' = clock
    /\ firstErr' = IF assets = None THEN None ELSE firstErr
    /\ closed' = IF assets = None THEN closed \cup {firstDone} ELSE closed
    /\ UNCHANGED <<clock, immich, booted, firstDone, getVars, fetched>>

\* A load that succeeded replaces the copy; the first wakes those who wait.
Store(l) ==
    /\ load[l] = "store" /\ fetched[l] # Failed
    /\ load' = [load EXCEPT ![l] = "done"]
    /\ loading' = FALSE
    /\ assets' = fetched[l]
    /\ fetchedAt' = clock
    /\ firstErr' = IF assets = None THEN None ELSE firstErr
    /\ closed' = IF assets = None THEN closed \cup {firstDone} ELSE closed
    /\ UNCHANGED <<clock, immich, booted, firstDone, getVars, fetched>>

-----------------------------------------------------------------------------
Get(g)     == GetCopy(g) \/ GetJoins(g) \/ GetRetries(g) \/ Wake(g) \/ GiveUp(g) \/ Recheck(g)
LoadRun(l) == List(l) \/ Fail(l) \/ Store(l)

\* Nothing runs: every get has returned or, the loads being bounded, is yet to
\* come.
Quiet == /\ Running = {} /\ \A g \in Gets : pc[g] \in {"idle", "done"}
         /\ UNCHANGED vars

Next == \/ Edit \/ Tick \/ WarmUp
        \/ \E g \in Gets : Get(g)
        \/ \E l \in Loads : LoadRun(l)
        \/ Quiet

Spec == Init /\ [][Next]_vars

-----------------------------------------------------------------------------
(* Properties. *)

\* However gets overlap with the end of a load, there is one load at a time,
\* and none when loading says so.
OneLoadAtATime == /\ Cardinality(Running) <= 1
                  /\ loading = (Running # {})

\* dlna/timelinestore.go:48-50: firstDone is closed by whoever ends an attempt
\* at the first load, and never twice, which would panic: a load about to end
\* such an attempt finds it open.
FirstDoneClosesOnce ==
    \A l \in Running : assets = None => firstDone \notin closed

\* No Browse sits out its timeout because its attempt has ended without it:
\* it waits on a closed channel, or on the one the running load will close.
WaitersAreWoken ==
    \A g \in Gets : pc[g] = "wait" =>
        \/ chan[g] \in closed
        \/ chan[g] = firstDone /\ Running # {} /\ assets = None

\* A Browse that is woken finds assets or an error, although others may have
\* retried, and failed or not, since: it never takes nothing for an empty
\* library.
NeverNothing == \A g \in Gets : pc[g] = "done" => answer[g] # None

\* dlna/timelinestore.go:34-36: "If a refresh fails, the previous copy stays
\* in use", and no load overwrites a newer copy with an older one.
CopyNeverGoesBack == [][assets # None => assets' # None /\ assets' >= assets]_vars
=============================================================================
