----------------------------- MODULE DiskCache -----------------------------
(***************************************************************************)
(* The on-disk LRU cache (cache/cache.go), one file-system call at a time. *)
(*                                                                         *)
(* The processes are calls of Put, each followed by the eviction sweep it  *)
(* starts in a goroutine, and calls of Get.  An entry is two files: the    *)
(* bytes (main) and the MIME type (side, the ".type" file).  Nothing but   *)
(* the sweeps is serialized.  The bytes and the type that a Put stores are *)
(* both named by the Put itself.  Deleting a file that is there succeeds.   *)
(***************************************************************************)
EXTENDS Integers, FiniteSets, FiniteSetsExt

CONSTANTS
    Keys,        \* cache keys
    Puts,        \* calls of Put
    Gets,        \* calls of Get
    Old,         \* the bytes and types a previous run of the proxy left
    OldKeys,     \* the keys it left them for
    SizeOf,      \* size of the bytes of each Put, and of Old
    Budgets,     \* the values of CACHE_MAX_MB considered; 0 is unlimited
    MaxCrashes,  \* bound on crashes of the proxy
    Empty,       \* the contents of a sidecar that is created but not written
    None

Contents == Puts \cup {Old}

ASSUME SizesArePositive == SizeOf \in [Contents -> Nat \ {0}]
ASSUME BudgetsAreNatural == Budgets \subseteq Nat
ASSUME CrashBound == MaxCrashes \in Nat
ASSUME PutsAreFinite == IsFiniteSet(Puts)
ASSUME CallsAreOneThing == Puts \cap Gets = {}
ASSUME OldKeysAreKeys == OldKeys \subseteq Keys /\ IsFiniteSet(OldKeys)
ASSUME NamesDiffer == /\ Old \notin Puts
                      /\ Empty \notin Contents
                      /\ None \notin Contents \cup Keys \cup {Empty}
              /\ None \notin [put : Contents, whole : BOOLEAN, mtime : Nat]

VARIABLES
    maxBytes, \* Cache.maxBytes, fixed when the proxy is configured
    main,    \* per key, the bytes' file
    side,    \* per key, the contents of the .type file
    tmp,     \* per Put, its .tmp- file
    mutex,   \* Cache.mu: the Put whose sweep runs
    clock,   \* a clock for modification times
    crashes,
    key,     \* per call, its key
    pc,      \* where each call is
    type,    \* per Get, the MIME type it read
    hit,     \* per Get, the bytes it opened
    now,     \* per Get, the time it took for touching the entry
    sweep,   \* per Put, where its sweep is
    names,   \* per sweep, the names it has yet to look at
    snap,    \* per sweep, the entries it has seen and not dealt with
    victim   \* per sweep, the key whose sidecar it is about to delete

getVars   == <<type, hit, now>>
sweepVars == <<mutex, sweep, names, snap, victim>>
vars == <<maxBytes, main, side, tmp, mutex, clock, crashes, key, pc, type, hit, now,
          sweep, names, snap, victim>>

Calls == Puts \cup Gets
Files == [put : Contents, whole : BOOLEAN, mtime : Nat]

TypeOK ==
    /\ maxBytes \in Budgets
    /\ main \in [Keys -> Files \cup {None}]
    /\ side \in [Keys -> Contents \cup {Empty, None}]
    /\ tmp \in [Puts -> Files \cup {None}]
    /\ mutex \in Puts \cup {None}
    /\ clock \in Nat
    /\ crashes \in 0..MaxCrashes
    /\ key \in [Calls -> Keys \cup {None}]
    /\ pc \in [Calls -> {"idle", "copy", "truncate", "write", "rename", "open", "cleanup",
                         "touch", "done", "failed", "swept", "unopened", "dead"}]
    /\ type \in [Gets -> Contents \cup {Empty, None}]
    /\ hit \in [Gets -> Files \cup {None}]
    /\ \A g \in Gets : /\ type[g] # None <=> pc[g] \in {"open", "touch"}
                       /\ hit[g] # None <=> pc[g] = "touch"
    /\ now \in [Gets -> Nat]
    /\ sweep \in [Puts -> {"none", "lock", "scan", "rmside", "done", "unread", "dead"}]
    /\ names \in [Puts -> SUBSET Keys]
    /\ snap \in [Puts -> SUBSET [key : Keys, size : Nat, mtime : Nat]]
    /\ victim \in [Puts -> Keys \cup {None}]

Init ==
    /\ maxBytes \in Budgets
    /\ main = [k \in Keys |-> IF k \in OldKeys
                              THEN [put |-> Old, whole |-> TRUE, mtime |-> 0] ELSE None]
    /\ side = [k \in Keys |-> IF k \in OldKeys THEN Old ELSE None]
    /\ tmp = [p \in Puts |-> None]
    /\ mutex = None
    /\ clock = 0
    /\ crashes = 0
    /\ key = [c \in Calls |-> None]
    /\ pc = [c \in Calls |-> "idle"]
    /\ type = [g \in Gets |-> None]
    /\ hit = [g \in Gets |-> None]
    /\ now = [g \in Gets |-> 0]
    /\ sweep = [p \in Puts |-> "none"]
    /\ names = [p \in Puts |-> {}]
    /\ snap = [p \in Puts |-> {}]
    /\ victim = [p \in Puts |-> None]

Move(c, from, to) == pc[c] = from /\ pc' = [pc EXCEPT ![c] = to]
Tick == clock' = clock + 1

-----------------------------------------------------------------------------
(* Put. *)

\* os.CreateTemp.
CreateTempFails(p) ==
    /\ Move(p, "idle", "failed")
    /\ UNCHANGED <<maxBytes, main, side, tmp, clock, crashes, key, getVars, sweepVars>>

CreateTemp(p) ==
    /\ Move(p, "idle", "copy")
    /\ \E k \in Keys : key' = [key EXCEPT ![p] = k]
    /\ tmp' = [tmp EXCEPT ![p] = [put |-> p, whole |-> FALSE, mtime |-> clock]]
    /\ UNCHANGED <<maxBytes, main, side, clock, crashes, getVars, sweepVars>>

\* io.Copy and Close: the temporary file is complete.
Copy(p) ==
    /\ Move(p, "copy", "truncate")
    /\ Tick
    /\ tmp' = [tmp EXCEPT ![p] = [put |-> p, whole |-> TRUE, mtime |-> clock']]
    /\ UNCHANGED <<maxBytes, main, side, crashes, key, getVars, sweepVars>>

\* A mutant: the error of io.Copy is dropped.
CopyErrorIgnored(p) ==
    /\ Move(p, "copy", "truncate")
    /\ UNCHANGED <<maxBytes, main, side, tmp, clock, crashes, key, getVars, sweepVars>>

CopyFails(p) ==
    /\ Move(p, "copy", "cleanup")
    /\ UNCHANGED <<maxBytes, main, side, tmp, clock, crashes, key, getVars, sweepVars>>

\* os.WriteFile of the sidecar: opened with O_TRUNC ...
TruncateSidecar(p) ==
    /\ Move(p, "truncate", "write")
    /\ side' = [side EXCEPT ![key[p]] = Empty]
    /\ UNCHANGED <<maxBytes, main, tmp, clock, crashes, key, getVars, sweepVars>>

\* ... then written.
WriteSidecar(p) ==
    /\ Move(p, "write", "rename")
    /\ side' = [side EXCEPT ![key[p]] = p]
    /\ UNCHANGED <<maxBytes, main, tmp, clock, crashes, key, getVars, sweepVars>>

\* A mutant: the error of os.WriteFile is dropped.
SidecarErrorIgnored(p) ==
    /\ Move(p, "write", "rename")
    /\ UNCHANGED <<maxBytes, main, side, tmp, clock, crashes, key, getVars, sweepVars>>

SidecarFails(p) ==
    /\ Move(p, "truncate", "cleanup") \/ Move(p, "write", "cleanup")
    /\ UNCHANGED <<maxBytes, main, side, tmp, clock, crashes, key, getVars, sweepVars>>

Rename(p) ==
    /\ Move(p, "rename", "open")
    /\ main' = [main EXCEPT ![key[p]] = tmp[p]]
    /\ tmp' = [tmp EXCEPT ![p] = None]
    /\ UNCHANGED <<maxBytes, side, clock, crashes, key, getVars, sweepVars>>

RenameFails(p) ==
    /\ Move(p, "rename", "cleanup")
    /\ UNCHANGED <<maxBytes, main, side, tmp, clock, crashes, key, getVars, sweepVars>>

\* os.Open of the final path, whatever file is there by now; then go evict().
Open(p) ==
    /\ Move(p, "open", "done")
    /\ main[key[p]] # None
    /\ sweep' = [sweep EXCEPT ![p] = "lock"]
    /\ UNCHANGED <<maxBytes, main, side, tmp, mutex, clock, crashes, key, getVars, names, snap, victim>>

\* Another Put's sweep has deleted the file: Put returns the error.
OpenFails(p) ==
    /\ Move(p, "open", "swept")
    /\ main[key[p]] = None
    /\ UNCHANGED <<maxBytes, main, side, tmp, clock, crashes, key, getVars, sweepVars>>

\* Opening fails for another reason (no file descriptor left): the entry stays
\* and no sweep follows.
OpenError(p) ==
    /\ Move(p, "open", "unopened")
    /\ UNCHANGED <<maxBytes, main, side, tmp, clock, crashes, key, getVars, sweepVars>>

\* A mutant: no deferred os.Remove.
NoCleanup(p) ==
    /\ Move(p, "cleanup", "failed")
    /\ UNCHANGED <<maxBytes, main, side, tmp, clock, crashes, key, getVars, sweepVars>>

\* The deferred os.Remove of the temporary file on the error paths.
Cleanup(p) ==
    /\ Move(p, "cleanup", "failed")
    /\ tmp' = [tmp EXCEPT ![p] = None]
    /\ UNCHANGED <<maxBytes, main, side, clock, crashes, key, getVars, sweepVars>>

-----------------------------------------------------------------------------
(* Get. *)

\* A mutant: the error of os.ReadFile is dropped.
ReadSidecarUnchecked(g) ==
    /\ Move(g, "idle", "open")
    /\ \E k \in Keys : /\ key' = [key EXCEPT ![g] = k]
                       /\ type' = [type EXCEPT ![g] = side[k]]
    /\ UNCHANGED <<maxBytes, main, side, tmp, clock, crashes, hit, now, sweepVars>>

\* os.ReadFile of the sidecar ...
ReadSidecar(g) ==
    /\ Move(g, "idle", "open")
    /\ \E k \in Keys : /\ side[k] # None
                       /\ key' = [key EXCEPT ![g] = k]
                       /\ type' = [type EXCEPT ![g] = side[k]]
    /\ UNCHANGED <<maxBytes, main, side, tmp, clock, crashes, hit, now, sweepVars>>

\* ... then os.Open of the bytes, then time.Now().
OpenMain(g) ==
    /\ Move(g, "open", "touch")
    /\ main[key[g]] # None
    /\ hit' = [hit EXCEPT ![g] = main[key[g]]]
    /\ Tick
    /\ now' = [now EXCEPT ![g] = clock']
    /\ UNCHANGED <<maxBytes, main, side, tmp, crashes, key, type, sweepVars>>

\* Get returns and forgets what it has seen.
Forget(g) ==
    /\ key' = [key EXCEPT ![g] = None]
    /\ type' = [type EXCEPT ![g] = None]
    /\ hit' = [hit EXCEPT ![g] = None]
    /\ now' = [now EXCEPT ![g] = 0]

\* Either file is missing: a miss.
Miss(g) ==
    /\ \/ Move(g, "idle", "done") /\ \E k \in Keys : side[k] = None
       \/ Move(g, "open", "done") /\ main[key[g]] = None
    /\ Forget(g)
    /\ UNCHANGED <<maxBytes, main, side, tmp, clock, crashes, sweepVars>>

\* A hit returns after os.Chtimes by path, whose error is ignored: it may
\* touch another file than the one opened, or none.
Touch(g) ==
    /\ Move(g, "touch", "done")
    /\ main' = [main EXCEPT ![key[g]] = IF @ = None THEN None ELSE [@ EXCEPT !.mtime = now[g]]]
    /\ Forget(g)
    /\ UNCHANGED <<maxBytes, side, tmp, clock, crashes, sweepVars>>

-----------------------------------------------------------------------------
(* evict. *)

\* The snapshot's total, the code's running total after each deletion.
Total(entries) == MapThenSumSet(LAMBDA e : e.size, entries)

\* No budget, no sweep.
Unlimited(p) ==
    /\ sweep[p] = "lock"
    /\ maxBytes = 0
    /\ sweep' = [sweep EXCEPT ![p] = "done"]
    /\ UNCHANGED <<maxBytes, main, side, tmp, mutex, clock, crashes, key, pc, getVars, names, snap, victim>>

\* The mutex is taken and os.ReadDir lists the entries; sidecars and .tmp-
\* files are skipped.
Scan(p) ==
    /\ mutex' = p
    /\ sweep' = [sweep EXCEPT ![p] = "scan"]
    /\ names' = [names EXCEPT ![p] = {k \in Keys : main[k] # None}]
    /\ UNCHANGED <<maxBytes, main, side, tmp, clock, crashes, key, pc, getVars, snap, victim>>

\* A mutant: TryLock, a sweep that finds another one running returns.
TryLock(p) ==
    /\ sweep[p] = "lock"
    /\ maxBytes > 0
    /\ IF mutex = None THEN Scan(p)
       ELSE /\ sweep' = [sweep EXCEPT ![p] = "done"]
            /\ UNCHANGED <<maxBytes, main, side, tmp, mutex, clock, crashes, key, pc, getVars,
                           names, snap, victim>>

\* A mutant: the sweeps are not serialized.
NoLock(p) == sweep[p] = "lock" /\ maxBytes > 0 /\ Scan(p)

\* Cache.mu.Lock.
Lock(p) == sweep[p] = "lock" /\ maxBytes > 0 /\ mutex = None /\ Scan(p)

\* os.ReadDir fails, so this sweep gives up with the mutex released.
ReadDirFails(p) ==
    /\ sweep[p] = "lock"
    /\ maxBytes > 0
    /\ mutex = None
    /\ sweep' = [sweep EXCEPT ![p] = "unread"]
    /\ UNCHANGED <<maxBytes, main, side, tmp, mutex, clock, crashes, key, pc, getVars, names, snap, victim>>

\* DirEntry.Info of one name; a file that is gone by now is skipped.
Stat(p) ==
    /\ sweep[p] = "scan"
    /\ \E k \in names[p] :
           /\ names' = [names EXCEPT ![p] = @ \ {k}]
           /\ snap' = [snap EXCEPT ![p] = @ \cup
                  {[key |-> k, size |-> SizeOf[f.put], mtime |-> f.mtime] : f \in {main[k]} \ {None}}]
    /\ UNCHANGED <<maxBytes, main, side, tmp, mutex, clock, crashes, key, pc, getVars, sweep, victim>>

Oldest(entries) == {e \in entries : \A o \in entries : e.mtime <= o.mtime}

\* Over budget: delete the bytes of the least recently used entry ...
RemoveMain(p) ==
    /\ sweep[p] = "scan" /\ names[p] = {}
    /\ Total(snap[p]) > maxBytes
    /\ \E e \in Oldest(snap[p]) :
           /\ main' = [main EXCEPT ![e.key] = None]
           /\ victim' = [victim EXCEPT ![p] = e.key]
           /\ snap' = [snap EXCEPT ![p] = @ \ {e}]
    /\ sweep' = [sweep EXCEPT ![p] = "rmside"]
    /\ UNCHANGED <<maxBytes, side, tmp, mutex, clock, crashes, key, pc, getVars, names>>

\* ... then its sidecar.
RemoveSide(p) ==
    /\ sweep[p] = "rmside"
    /\ side' = [side EXCEPT ![victim[p]] = None]
    /\ victim' = [victim EXCEPT ![p] = None]
    /\ sweep' = [sweep EXCEPT ![p] = "scan"]
    /\ UNCHANGED <<maxBytes, main, tmp, mutex, clock, crashes, key, pc, getVars, names, snap>>

\* A mutant: the early return of a sweep with nothing to do keeps the mutex.
UnlockForgotten(p) ==
    /\ sweep[p] = "scan" /\ names[p] = {}
    /\ Total(snap[p]) <= maxBytes
    /\ sweep' = [sweep EXCEPT ![p] = "done"]
    /\ snap' = [snap EXCEPT ![p] = {}]
    /\ UNCHANGED <<maxBytes, main, side, tmp, mutex, clock, crashes, key, pc, getVars, names, victim>>

\* Within budget: the deferred Unlock.
Unlock(p) ==
    /\ sweep[p] = "scan" /\ names[p] = {}
    /\ Total(snap[p]) <= maxBytes
    /\ mutex' = None
    /\ sweep' = [sweep EXCEPT ![p] = "done"]
    /\ snap' = [snap EXCEPT ![p] = {}]
    /\ UNCHANGED <<maxBytes, main, side, tmp, clock, crashes, key, pc, getVars, names, victim>>

-----------------------------------------------------------------------------
\* Where a call that has returned is.
Over == {"done", "failed", "swept", "unopened", "dead"}

\* The proxy dies (no graceful end waits for Puts or sweeps) and starts again:
\* what was running is gone, what is on disk stays.
Crash ==
    /\ crashes < MaxCrashes
    /\ crashes' = crashes + 1
    /\ pc' = [c \in Calls |-> IF pc[c] \in {"idle"} \cup Over THEN pc[c] ELSE "dead"]
    /\ sweep' = [p \in Puts |-> IF sweep[p] \in {"none", "done", "unread"} THEN sweep[p] ELSE "dead"]
    /\ mutex' = None
    /\ names' = [p \in Puts |-> {}]
    /\ snap' = [p \in Puts |-> {}]
    /\ victim' = [p \in Puts |-> None]
    /\ key' = [c \in Calls |-> IF c \in Gets THEN None ELSE key[c]]
    /\ type' = [g \in Gets |-> None]
    /\ hit' = [g \in Gets |-> None]
    /\ now' = [g \in Gets |-> 0]
    /\ UNCHANGED <<maxBytes, main, side, tmp, clock>>

Put(p)   == \/ Copy(p) \/ CopyFails(p) \/ TruncateSidecar(p) \/ WriteSidecar(p) \/ SidecarFails(p)
            \/ Rename(p) \/ RenameFails(p) \/ Open(p) \/ OpenFails(p) \/ OpenError(p) \/ Cleanup(p)
Get(g)   == ReadSidecar(g) \/ OpenMain(g) \/ Touch(g) \/ Miss(g)
Sweep(p) == Unlimited(p) \/ Lock(p) \/ ReadDirFails(p) \/ Stat(p) \/ RemoveMain(p) \/ RemoveSide(p) \/ Unlock(p)

\* All calls made, all sweeps over: nothing is left to do.
AllDone == /\ \A c \in Calls : pc[c] \in Over
           /\ \A p \in Puts : sweep[p] \in {"none", "done", "unread", "dead"}
           /\ UNCHANGED vars

Next == \/ \E p \in Puts : CreateTempFails(p) \/ CreateTemp(p) \/ Put(p) \/ Sweep(p)
        \/ \E g \in Gets : Get(g)
        \/ Crash
        \/ AllDone

Spec == Init /\ [][Next]_vars

\* A sweep whose turn it is goes on, unless the proxy dies. It gets the mutex
\* although the other sweeps want it: each of them takes it once. Nothing is
\* assumed of Puts and Gets: a Put may wait for its bytes for ever.
Fairness == \A p \in Puts : WF_vars(Sweep(p))

FairSpec == Spec /\ Fairness

-----------------------------------------------------------------------------
(* Properties. *)

\* cache/cache.go:69, "Put atomically stores": whatever fails and whenever the
\* proxy dies, no file at a final path holds less than all the bytes of a Put.
EntriesAreWhole == \A k \in Keys : main[k] # None => main[k].whole

\* Every error path of Put removes its temporary file; only a crash leaves one.
NoStrayTemps ==
    \A p \in Puts : tmp[p] # None =>
        pc[p] \in {"copy", "truncate", "write", "rename", "cleanup", "dead"}

\* Nothing is ever stored over something else under key k.
PutOnce(k) == Cardinality({p \in Puts : key[p] = k}) <= IF k \in OldKeys THEN 0 ELSE 1

\* cache/cache.go:91-93, as far as it holds: an entry that no second Put
\* overwrites has its own MIME type beside it for as long as it exists,
\* through failed Puts, sweeps of other Puts, and crashes.
EntryHasItsType ==
    \A k \in Keys : PutOnce(k) /\ main[k] # None => side[k] = main[k].put

\* The bytes' files on disk.
DiskTotal == MapThenSumSet(LAMBDA k : SizeOf[main[k].put], {k \in Keys : main[k] # None})

\* cache/cache.go:118-119: when a sweep ends, the cache is within its budget,
\* unless a Put has stored an entry meanwhile, whose own sweep is to come (or
\* never comes, because Put failed to open it, or gave up).  This includes the first
\* sweep after a crash that left the cache over budget.
SweepRestoresBudget ==
    [][ \A p \in Puts : sweep[p] = "scan" /\ sweep'[p] = "done" =>
            \/ DiskTotal <= maxBytes
            \/ \E q \in Puts : pc[q] \in {"open", "unopened"} \/ sweep[q] \in {"lock", "unread"} ]_vars

\* Overlapping sweeps do not delete more than one would: an entry is only
\* deleted while the files on disk exceed the budget.
NoOverEviction ==
    [][ \A k \in Keys : main[k] # None /\ main'[k] = None /\ (\A j \in Keys : PutOnce(j)) =>
            DiskTotal > maxBytes ]_vars

\* Every sweep gets its turn and ends, however the others overlap with it.
SweepsEnd == \A p \in Puts : sweep[p] = "lock" ~> sweep[p] \in {"done", "unread", "dead"}

-----------------------------------------------------------------------------
\* cache/cache.go:91-93, Get "never sees a half-written entry - at worst a
\* stale sidecar next to a missing main file": the type of a hit is the type
\* of its bytes.
HitHasItsType ==
    \A g \in Gets : pc[g] = "touch" => type[g] = hit[g].put
=============================================================================
