-------------------------- MODULE DiskCacheProofs --------------------------
(***************************************************************************)
(* The disk cache for any number of Puts and Gets, any keys, sizes and     *)
(* budgets, and any number of crashes.                                     *)
(***************************************************************************)
EXTENDS DiskCache, FiniteSetTheorems, FunctionTheorems, WellFoundedInduction, TLAPS

\* PutOnce without the cardinality: at most one Put has stored, or may yet
\* store, something under key k, and none over what was there at the start.
Sole(k) == /\ \A p, q \in Puts : key[p] = k /\ key[q] = k => p = q
           /\ k \in OldKeys => \A p \in Puts : key[p] # k

\* Key k has had an entry, as far as one can tell.
Born(k) == \/ k \in OldKeys
           \/ \E p \in Puts : /\ key[p] = k
                              /\ pc[p] \in {"open", "done", "swept", "unopened", "dead"}

\* A call has a key while it works; a Put gets its key once.
KeysAreKnown ==
    /\ \A g \in Gets : pc[g] \in {"open", "touch"} => key[g] \in Keys
    /\ \A p \in Puts : pc[p] = "idle" => key[p] = None

\* A temporary file is its own Put's, and complete once io.Copy has returned.
TempsAreWhole ==
    \A p \in Puts : tmp[p] # None =>
        /\ tmp[p].put = p
        /\ pc[p] \in {"truncate", "write", "rename"} => tmp[p].whole

\* Only an entry that has been stored is ever listed or deleted by a sweep.
SweptWasBorn ==
    /\ \A k \in Keys : main[k] # None => Born(k)
    /\ \A p \in Puts : \A e \in snap[p] : Born(e.key)
    /\ \A p \in Puts : victim[p] # None => Born(victim[p])

\* A key that one Put uses has that Put's type beside its bytes.
SidesAreRight ==
    \A k \in Keys : Sole(k) =>
        /\ main[k] # None => side[k] = main[k].put
        /\ \A p \in Puts : key[p] = k /\ pc[p] = "rename" => side[k] = p
        /\ \A p \in Puts : victim[p] = k => main[k] = None

Ind == /\ TypeOK /\ EntriesAreWhole /\ NoStrayTemps
       /\ KeysAreKnown /\ TempsAreWhole /\ SweptWasBorn /\ SidesAreRight

-----------------------------------------------------------------------------
\* What a Get has read, when one Get takes a step.
LEMMA OneGetMoves ==
    ASSUME TypeOK, NEW g \in Gets,
           \A h \in Gets \ {g} : pc'[h] = pc[h] /\ type'[h] = type[h] /\ hit'[h] = hit[h],
           type'[g] # None <=> pc'[g] \in {"open", "touch"},
           hit'[g] # None <=> pc'[g] = "touch"
    PROVE  \A h \in Gets : /\ type'[h] # None <=> pc'[h] \in {"open", "touch"}
                           /\ hit'[h] # None <=> pc'[h] = "touch"
<1> TAKE h \in Gets
<1>1. CASE h = g
  BY <1>1
<1>2. CASE h # g
  <2>1. pc'[h] = pc[h] /\ type'[h] = type[h] /\ hit'[h] = hit[h]
    BY <1>2
  <2>2. type[h] # None <=> pc[h] \in {"open", "touch"}
    BY DEF TypeOK
  <2>3. hit[h] # None <=> pc[h] = "touch"
    BY DEF TypeOK
  <2> QED BY <2>1, <2>2, <2>3
<1> QED BY <1>1, <1>2

LEMMA TypeStep ==
    ASSUME TypeOK, KeysAreKnown, [Next]_vars
    PROVE  TypeOK'
<1> USE NamesDiffer, CallsAreOneThing, OldKeysAreKeys DEF TypeOK, KeysAreKnown, Files, Calls
<1>1. ASSUME NEW p \in Puts, CreateTempFails(p) PROVE TypeOK'
  BY <1>1 DEF CreateTempFails, Move, getVars, sweepVars
<1>2. ASSUME NEW p \in Puts, CreateTemp(p) PROVE TypeOK'
  <2> USE <1>2 DEF CreateTemp, Move, getVars, sweepVars
  <2>1. [put |-> p, whole |-> FALSE, mtime |-> clock] \in Files
    BY DEF Contents
  <2>2. tmp' \in [Puts -> Files \cup {None}]
    BY <2>1
  <2>3. key' \in [Calls -> Keys \cup {None}]
    OBVIOUS
  <2>4. \A g \in Gets : pc'[g] = pc[g]
    OBVIOUS
  <2>5. pc' \in [Calls -> {"idle", "copy", "truncate", "write", "rename", "open", "cleanup",
                          "touch", "done", "failed", "swept", "unopened", "dead"}]
    OBVIOUS
  <2> QED BY <2>2, <2>3, <2>4, <2>5
<1>3. ASSUME NEW p \in Puts, Copy(p) PROVE TypeOK'
  <2> USE <1>3 DEF Copy, Move, Tick, getVars, sweepVars
  <2>1. clock' \in Nat /\ [put |-> p, whole |-> TRUE, mtime |-> clock'] \in Files
    BY DEF Contents
  <2>2. tmp' \in [Puts -> Files \cup {None}]
    BY <2>1
  <2> QED BY <2>1, <2>2
<1>4. ASSUME NEW p \in Puts, CopyFails(p) PROVE TypeOK'
  BY <1>4 DEF CopyFails, Move, getVars, sweepVars
<1>5. ASSUME NEW p \in Puts, TruncateSidecar(p) PROVE TypeOK'
  BY <1>5 DEF TruncateSidecar, Move, getVars, sweepVars
<1>6. ASSUME NEW p \in Puts, WriteSidecar(p) PROVE TypeOK'
  <2> USE <1>6 DEF WriteSidecar, Move, getVars, sweepVars
  <2>1. side' \in [Keys -> Contents \cup {Empty, None}]
    BY DEF Contents
  <2> QED BY <2>1
<1>7. ASSUME NEW p \in Puts, SidecarFails(p) PROVE TypeOK'
  BY <1>7 DEF SidecarFails, Move, getVars, sweepVars
<1>8. ASSUME NEW p \in Puts, Rename(p) PROVE TypeOK'
  BY <1>8 DEF Rename, Move, getVars, sweepVars
<1>9. ASSUME NEW p \in Puts, RenameFails(p) PROVE TypeOK'
  BY <1>9 DEF RenameFails, Move, getVars, sweepVars
<1>10. ASSUME NEW p \in Puts, Open(p) PROVE TypeOK'
  BY <1>10 DEF Open, Move, getVars, sweepVars
<1>11. ASSUME NEW p \in Puts, OpenFails(p) PROVE TypeOK'
  BY <1>11 DEF OpenFails, Move, getVars, sweepVars
<1>12. ASSUME NEW p \in Puts, OpenError(p) PROVE TypeOK'
  BY <1>12 DEF OpenError, Move, getVars, sweepVars
<1>13. ASSUME NEW p \in Puts, Cleanup(p) PROVE TypeOK'
  BY <1>13 DEF Cleanup, Move, getVars, sweepVars
<1>14. ASSUME NEW p \in Puts, Unlimited(p) PROVE TypeOK'
  BY <1>14 DEF Unlimited, getVars, sweepVars
<1>15. ASSUME NEW p \in Puts, Lock(p) PROVE TypeOK'
  BY <1>15 DEF Lock, Scan, getVars, sweepVars
<1>16. ASSUME NEW p \in Puts, ReadDirFails(p) PROVE TypeOK'
  BY <1>16 DEF ReadDirFails, getVars, sweepVars
<1>17. ASSUME NEW p \in Puts, Stat(p) PROVE TypeOK'
  <2> USE <1>17 DEF Stat, getVars, sweepVars
  <2>1. PICK k \in names[p] :
            /\ names' = [names EXCEPT ![p] = @ \ {k}]
            /\ snap' = [snap EXCEPT ![p] = @ \cup
                 {[key |-> k, size |-> SizeOf[f.put], mtime |-> f.mtime] : f \in {main[k]} \ {None}}]
    OBVIOUS
  <2>2. k \in Keys /\ main[k] \in Files \cup {None}
    OBVIOUS
  <2>3. \A f \in {main[k]} \ {None} : SizeOf[f.put] \in Nat /\ f.mtime \in Nat
    BY <2>2, SizesArePositive
  <2>4. snap' \in [Puts -> SUBSET [key : Keys, size : Nat, mtime : Nat]]
    BY <2>1, <2>2, <2>3
  <2>5. names' \in [Puts -> SUBSET Keys]
    BY <2>1
  <2> QED BY <2>4, <2>5
<1>18. ASSUME NEW p \in Puts, RemoveMain(p) PROVE TypeOK'
  <2> USE <1>18 DEF RemoveMain, getVars, sweepVars
  <2>1. PICK e \in snap[p] : /\ main' = [main EXCEPT ![e.key] = None]
                             /\ victim' = [victim EXCEPT ![p] = e.key]
                             /\ snap' = [snap EXCEPT ![p] = @ \ {e}]
    BY DEF Oldest
  <2>2. e.key \in Keys
    OBVIOUS
  <2> QED BY <2>1, <2>2
<1>19. ASSUME NEW p \in Puts, RemoveSide(p) PROVE TypeOK'
  BY <1>19 DEF RemoveSide, getVars, sweepVars
<1>20. ASSUME NEW p \in Puts, Unlock(p) PROVE TypeOK'
  BY <1>20 DEF Unlock, getVars, sweepVars
<1>21. ASSUME NEW g \in Gets, ReadSidecar(g) PROVE TypeOK'
  <2> USE <1>21 DEF ReadSidecar, Move, Forget, Tick, getVars, sweepVars
  <2>1. key' \in [Calls -> Keys \cup {None}] /\ now' \in [Gets -> Nat] /\ clock' \in Nat
    OBVIOUS
  <2>2. pc' \in [Calls -> {"idle", "copy", "truncate", "write", "rename", "open", "cleanup",
                          "touch", "done", "failed", "swept", "unopened", "dead"}]
    OBVIOUS
  <2>3. \A h \in Gets \ {g} : pc'[h] = pc[h] /\ type'[h] = type[h] /\ hit'[h] = hit[h]
    OBVIOUS
  <2>4. pc[g] = "idle" /\ pc'[g] = "open"
    OBVIOUS
  <2>5. type'[g] # None /\ hit'[g] = None
    BY <2>4
  <2>6. \A h \in Gets : /\ type'[h] # None <=> pc'[h] \in {"open", "touch"}
                        /\ hit'[h] # None <=> pc'[h] = "touch"
    BY <2>3, <2>4, <2>5, OneGetMoves
  <2>7. type' \in [Gets -> Contents \cup {Empty, None}] /\ hit' \in [Gets -> Files \cup {None}]
    OBVIOUS
  <2> QED BY <2>1, <2>2, <2>6, <2>7
<1>22. ASSUME NEW g \in Gets, OpenMain(g) PROVE TypeOK'
  <2> USE <1>22 DEF OpenMain, Move, Forget, Tick, getVars, sweepVars
  <2>1. key' \in [Calls -> Keys \cup {None}] /\ now' \in [Gets -> Nat] /\ clock' \in Nat
    OBVIOUS
  <2>2. pc' \in [Calls -> {"idle", "copy", "truncate", "write", "rename", "open", "cleanup",
                          "touch", "done", "failed", "swept", "unopened", "dead"}]
    OBVIOUS
  <2>3. \A h \in Gets \ {g} : pc'[h] = pc[h] /\ type'[h] = type[h] /\ hit'[h] = hit[h]
    OBVIOUS
  <2>4. pc[g] = "open" /\ pc'[g] = "touch"
    OBVIOUS
  <2>5. type'[g] # None /\ hit'[g] # None
    BY <2>4
  <2>6. \A h \in Gets : /\ type'[h] # None <=> pc'[h] \in {"open", "touch"}
                        /\ hit'[h] # None <=> pc'[h] = "touch"
    BY <2>3, <2>4, <2>5, OneGetMoves
  <2>7. type' \in [Gets -> Contents \cup {Empty, None}] /\ hit' \in [Gets -> Files \cup {None}]
    OBVIOUS
  <2> QED BY <2>1, <2>2, <2>6, <2>7
<1>23. ASSUME NEW g \in Gets, Touch(g) PROVE TypeOK'
  <2> USE <1>23 DEF Touch, Move, Forget, Tick, getVars, sweepVars
  <2>1. [main[key[g]] EXCEPT !.mtime = now[g]] \in Files \/ main[key[g]] = None
    OBVIOUS
  <2>2. main' \in [Keys -> Files \cup {None}]
    BY <2>1
  <2>3. key' \in [Calls -> Keys \cup {None}] /\ now' \in [Gets -> Nat]
    OBVIOUS
  <2>4. \A h \in Gets \ {g} : pc'[h] = pc[h] /\ type'[h] = type[h] /\ hit'[h] = hit[h]
    OBVIOUS
  <2>5. pc'[g] = "done" /\ type'[g] = None /\ hit'[g] = None
    OBVIOUS
  <2>6. \A h \in Gets : /\ type'[h] # None <=> pc'[h] \in {"open", "touch"}
                        /\ hit'[h] # None <=> pc'[h] = "touch"
    BY <2>4, <2>5, OneGetMoves
  <2>7. type' \in [Gets -> Contents \cup {Empty, None}] /\ hit' \in [Gets -> Files \cup {None}]
    OBVIOUS
  <2>8. pc' \in [Calls -> {"idle", "copy", "truncate", "write", "rename", "open", "cleanup",
                          "touch", "done", "failed", "swept", "unopened", "dead"}]
    OBVIOUS
  <2> QED BY <2>2, <2>3, <2>6, <2>7, <2>8
<1>24. ASSUME NEW g \in Gets, Miss(g) PROVE TypeOK'
  <2> USE <1>24 DEF Miss, Move, Forget, Tick, getVars, sweepVars
  <2>1. key' \in [Calls -> Keys \cup {None}] /\ now' \in [Gets -> Nat] /\ clock' \in Nat
    OBVIOUS
  <2>2. pc' \in [Calls -> {"idle", "copy", "truncate", "write", "rename", "open", "cleanup",
                          "touch", "done", "failed", "swept", "unopened", "dead"}]
    OBVIOUS
  <2>3. \A h \in Gets \ {g} : pc'[h] = pc[h] /\ type'[h] = type[h] /\ hit'[h] = hit[h]
    OBVIOUS
  <2>4. pc'[g] = "done"
    OBVIOUS
  <2>5. type'[g] = None /\ hit'[g] = None
    BY <2>4
  <2>6. \A h \in Gets : /\ type'[h] # None <=> pc'[h] \in {"open", "touch"}
                        /\ hit'[h] # None <=> pc'[h] = "touch"
    BY <2>3, <2>4, <2>5, OneGetMoves
  <2>7. type' \in [Gets -> Contents \cup {Empty, None}] /\ hit' \in [Gets -> Files \cup {None}]
    OBVIOUS
  <2> QED BY <2>1, <2>2, <2>6, <2>7
<1>25. CASE Crash
  <2> USE <1>25 DEF Crash, Over
  <2>1. crashes' \in 0..MaxCrashes
    BY CrashBound
  <2>2. /\ names' \in [Puts -> SUBSET Keys]
        /\ snap' \in [Puts -> SUBSET [key : Keys, size : Nat, mtime : Nat]]
        /\ victim' \in [Puts -> Keys \cup {None}] /\ mutex' = None
    OBVIOUS
  <2>3. key' \in [Calls -> Keys \cup {None}] /\ now' \in [Gets -> Nat]
    OBVIOUS
  <2>4. /\ pc' \in [Calls -> {"idle", "copy", "truncate", "write", "rename", "open", "cleanup",
                              "touch", "done", "failed", "swept", "unopened", "dead"}]
        /\ \A c \in Calls : pc'[c] \notin {"open", "touch"}
    OBVIOUS
  <2>5. sweep' \in [Puts -> {"none", "lock", "scan", "rmside", "done", "unread", "dead"}]
    OBVIOUS
  <2>6. /\ type' \in [Gets -> Contents \cup {Empty, None}] /\ hit' \in [Gets -> Files \cup {None}]
        /\ \A g \in Gets : type'[g] = None /\ hit'[g] = None
    OBVIOUS
  <2> QED BY <2>1, <2>2, <2>3, <2>4, <2>5, <2>6
<1>26. CASE UNCHANGED vars
  BY <1>26 DEF vars, getVars, sweepVars
<1> QED BY <1>1, <1>2, <1>3, <1>4, <1>5, <1>6, <1>7, <1>8, <1>9, <1>10, <1>11, <1>12, <1>13, <1>14, <1>15, <1>16, <1>17, <1>18, <1>19, <1>20, <1>21, <1>22, <1>23, <1>24, <1>25, <1>26 DEF Next, Put, Get, Sweep, AllDone

LEMMA KeysStep ==
    ASSUME TypeOK, KeysAreKnown, [Next]_vars
    PROVE  KeysAreKnown'
<1> USE NamesDiffer, CallsAreOneThing, OldKeysAreKeys DEF TypeOK, KeysAreKnown, Calls
<1>1. ASSUME NEW p \in Puts, CreateTempFails(p) PROVE KeysAreKnown'
  BY <1>1 DEF CreateTempFails, Move, getVars, sweepVars
<1>2. ASSUME NEW p \in Puts, CreateTemp(p) PROVE KeysAreKnown'
  BY <1>2 DEF CreateTemp, Move, getVars, sweepVars
<1>3. ASSUME NEW p \in Puts, Copy(p) PROVE KeysAreKnown'
  BY <1>3 DEF Copy, Move, Tick, getVars, sweepVars
<1>4. ASSUME NEW p \in Puts, CopyFails(p) PROVE KeysAreKnown'
  BY <1>4 DEF CopyFails, Move, getVars, sweepVars
<1>5. ASSUME NEW p \in Puts, TruncateSidecar(p) PROVE KeysAreKnown'
  BY <1>5 DEF TruncateSidecar, Move, getVars, sweepVars
<1>6. ASSUME NEW p \in Puts, WriteSidecar(p) PROVE KeysAreKnown'
  BY <1>6 DEF WriteSidecar, Move, getVars, sweepVars
<1>7. ASSUME NEW p \in Puts, SidecarFails(p) PROVE KeysAreKnown'
  BY <1>7 DEF SidecarFails, Move, getVars, sweepVars
<1>8. ASSUME NEW p \in Puts, Rename(p) PROVE KeysAreKnown'
  BY <1>8 DEF Rename, Move, getVars, sweepVars
<1>9. ASSUME NEW p \in Puts, RenameFails(p) PROVE KeysAreKnown'
  BY <1>9 DEF RenameFails, Move, getVars, sweepVars
<1>10. ASSUME NEW p \in Puts, Open(p) PROVE KeysAreKnown'
  BY <1>10 DEF Open, Move, getVars, sweepVars
<1>11. ASSUME NEW p \in Puts, OpenFails(p) PROVE KeysAreKnown'
  BY <1>11 DEF OpenFails, Move, getVars, sweepVars
<1>12. ASSUME NEW p \in Puts, OpenError(p) PROVE KeysAreKnown'
  BY <1>12 DEF OpenError, Move, getVars, sweepVars
<1>13. ASSUME NEW p \in Puts, Cleanup(p) PROVE KeysAreKnown'
  BY <1>13 DEF Cleanup, Move, getVars, sweepVars
<1>14. ASSUME NEW p \in Puts, Unlimited(p) PROVE KeysAreKnown'
  BY <1>14 DEF Unlimited, getVars, sweepVars
<1>15. ASSUME NEW p \in Puts, Lock(p) PROVE KeysAreKnown'
  BY <1>15 DEF Lock, Scan, getVars, sweepVars
<1>16. ASSUME NEW p \in Puts, ReadDirFails(p) PROVE KeysAreKnown'
  BY <1>16 DEF ReadDirFails, getVars, sweepVars
<1>17. ASSUME NEW p \in Puts, Stat(p) PROVE KeysAreKnown'
  BY <1>17 DEF Stat, getVars, sweepVars
<1>18. ASSUME NEW p \in Puts, RemoveMain(p) PROVE KeysAreKnown'
  BY <1>18 DEF RemoveMain, getVars, sweepVars
<1>19. ASSUME NEW p \in Puts, RemoveSide(p) PROVE KeysAreKnown'
  BY <1>19 DEF RemoveSide, getVars, sweepVars
<1>20. ASSUME NEW p \in Puts, Unlock(p) PROVE KeysAreKnown'
  BY <1>20 DEF Unlock, getVars, sweepVars
<1>21. ASSUME NEW g \in Gets, ReadSidecar(g) PROVE KeysAreKnown'
  BY <1>21 DEF ReadSidecar, Move, Forget, Tick, getVars, sweepVars
<1>22. ASSUME NEW g \in Gets, OpenMain(g) PROVE KeysAreKnown'
  BY <1>22 DEF OpenMain, Move, Forget, Tick, getVars, sweepVars
<1>23. ASSUME NEW g \in Gets, Touch(g) PROVE KeysAreKnown'
  BY <1>23 DEF Touch, Move, Forget, Tick, getVars, sweepVars
<1>24. ASSUME NEW g \in Gets, Miss(g) PROVE KeysAreKnown'
  BY <1>24 DEF Miss, Move, Forget, Tick, getVars, sweepVars
<1>25. CASE Crash
  BY <1>25 DEF Crash, Over
<1>26. CASE UNCHANGED vars
  BY <1>26 DEF vars, getVars, sweepVars
<1> QED BY <1>1, <1>2, <1>3, <1>4, <1>5, <1>6, <1>7, <1>8, <1>9, <1>10, <1>11, <1>12, <1>13, <1>14, <1>15, <1>16, <1>17, <1>18, <1>19, <1>20, <1>21, <1>22, <1>23, <1>24, <1>25, <1>26 DEF Next, Put, Get, Sweep, AllDone

LEMMA WholeStep ==
    ASSUME TypeOK, TempsAreWhole, NoStrayTemps, EntriesAreWhole, [Next]_vars
    PROVE  (TempsAreWhole /\ NoStrayTemps /\ EntriesAreWhole)'
<1> USE NamesDiffer, CallsAreOneThing, OldKeysAreKeys DEF TypeOK, TempsAreWhole, NoStrayTemps, EntriesAreWhole, Calls, Files
<1>1. ASSUME NEW p \in Puts, CreateTempFails(p) PROVE (TempsAreWhole /\ NoStrayTemps /\ EntriesAreWhole)'
  BY <1>1 DEF CreateTempFails, Move, getVars, sweepVars
<1>2. ASSUME NEW p \in Puts, CreateTemp(p) PROVE (TempsAreWhole /\ NoStrayTemps /\ EntriesAreWhole)'
  BY <1>2 DEF CreateTemp, Move, getVars, sweepVars
<1>3. ASSUME NEW p \in Puts, Copy(p) PROVE (TempsAreWhole /\ NoStrayTemps /\ EntriesAreWhole)'
  BY <1>3 DEF Copy, Move, Tick, getVars, sweepVars
<1>4. ASSUME NEW p \in Puts, CopyFails(p) PROVE (TempsAreWhole /\ NoStrayTemps /\ EntriesAreWhole)'
  BY <1>4 DEF CopyFails, Move, getVars, sweepVars
<1>5. ASSUME NEW p \in Puts, TruncateSidecar(p) PROVE (TempsAreWhole /\ NoStrayTemps /\ EntriesAreWhole)'
  BY <1>5 DEF TruncateSidecar, Move, getVars, sweepVars
<1>6. ASSUME NEW p \in Puts, WriteSidecar(p) PROVE (TempsAreWhole /\ NoStrayTemps /\ EntriesAreWhole)'
  BY <1>6 DEF WriteSidecar, Move, getVars, sweepVars
<1>7. ASSUME NEW p \in Puts, SidecarFails(p) PROVE (TempsAreWhole /\ NoStrayTemps /\ EntriesAreWhole)'
  BY <1>7 DEF SidecarFails, Move, getVars, sweepVars
<1>8. ASSUME NEW p \in Puts, Rename(p) PROVE (TempsAreWhole /\ NoStrayTemps /\ EntriesAreWhole)'
  BY <1>8 DEF Rename, Move, getVars, sweepVars
<1>9. ASSUME NEW p \in Puts, RenameFails(p) PROVE (TempsAreWhole /\ NoStrayTemps /\ EntriesAreWhole)'
  BY <1>9 DEF RenameFails, Move, getVars, sweepVars
<1>10. ASSUME NEW p \in Puts, Open(p) PROVE (TempsAreWhole /\ NoStrayTemps /\ EntriesAreWhole)'
  BY <1>10 DEF Open, Move, getVars, sweepVars
<1>11. ASSUME NEW p \in Puts, OpenFails(p) PROVE (TempsAreWhole /\ NoStrayTemps /\ EntriesAreWhole)'
  BY <1>11 DEF OpenFails, Move, getVars, sweepVars
<1>12. ASSUME NEW p \in Puts, OpenError(p) PROVE (TempsAreWhole /\ NoStrayTemps /\ EntriesAreWhole)'
  BY <1>12 DEF OpenError, Move, getVars, sweepVars
<1>13. ASSUME NEW p \in Puts, Cleanup(p) PROVE (TempsAreWhole /\ NoStrayTemps /\ EntriesAreWhole)'
  BY <1>13 DEF Cleanup, Move, getVars, sweepVars
<1>14. ASSUME NEW p \in Puts, Unlimited(p) PROVE (TempsAreWhole /\ NoStrayTemps /\ EntriesAreWhole)'
  BY <1>14 DEF Unlimited, getVars, sweepVars
<1>15. ASSUME NEW p \in Puts, Lock(p) PROVE (TempsAreWhole /\ NoStrayTemps /\ EntriesAreWhole)'
  BY <1>15 DEF Lock, Scan, getVars, sweepVars
<1>16. ASSUME NEW p \in Puts, ReadDirFails(p) PROVE (TempsAreWhole /\ NoStrayTemps /\ EntriesAreWhole)'
  BY <1>16 DEF ReadDirFails, getVars, sweepVars
<1>17. ASSUME NEW p \in Puts, Stat(p) PROVE (TempsAreWhole /\ NoStrayTemps /\ EntriesAreWhole)'
  BY <1>17 DEF Stat, getVars, sweepVars
<1>18. ASSUME NEW p \in Puts, RemoveMain(p) PROVE (TempsAreWhole /\ NoStrayTemps /\ EntriesAreWhole)'
  BY <1>18 DEF RemoveMain, getVars, sweepVars
<1>19. ASSUME NEW p \in Puts, RemoveSide(p) PROVE (TempsAreWhole /\ NoStrayTemps /\ EntriesAreWhole)'
  BY <1>19 DEF RemoveSide, getVars, sweepVars
<1>20. ASSUME NEW p \in Puts, Unlock(p) PROVE (TempsAreWhole /\ NoStrayTemps /\ EntriesAreWhole)'
  BY <1>20 DEF Unlock, getVars, sweepVars
<1>21. ASSUME NEW g \in Gets, ReadSidecar(g) PROVE (TempsAreWhole /\ NoStrayTemps /\ EntriesAreWhole)'
  BY <1>21 DEF ReadSidecar, Move, Forget, Tick, getVars, sweepVars
<1>22. ASSUME NEW g \in Gets, OpenMain(g) PROVE (TempsAreWhole /\ NoStrayTemps /\ EntriesAreWhole)'
  BY <1>22 DEF OpenMain, Move, Forget, Tick, getVars, sweepVars
<1>23. ASSUME NEW g \in Gets, Touch(g) PROVE (TempsAreWhole /\ NoStrayTemps /\ EntriesAreWhole)'
  BY <1>23 DEF Touch, Move, Forget, Tick, getVars, sweepVars
<1>24. ASSUME NEW g \in Gets, Miss(g) PROVE (TempsAreWhole /\ NoStrayTemps /\ EntriesAreWhole)'
  BY <1>24, SMTT(20) DEF Miss, Move, Forget, Tick, getVars, sweepVars
<1>25. CASE Crash
  BY <1>25 DEF Crash, Over
<1>26. CASE UNCHANGED vars
  BY <1>26 DEF vars, getVars, sweepVars
<1> QED BY <1>1, <1>2, <1>3, <1>4, <1>5, <1>6, <1>7, <1>8, <1>9, <1>10, <1>11, <1>12, <1>13, <1>14, <1>15, <1>16, <1>17, <1>18, <1>19, <1>20, <1>21, <1>22, <1>23, <1>24, <1>25, <1>26 DEF Next, Put, Get, Sweep, AllDone

\* Once born, always born.
LEMMA BornGrows ==
    ASSUME TypeOK, KeysAreKnown, [Next]_vars, NEW k \in Keys, Born(k)
    PROVE  Born(k)'
<1>a. /\ key \in [Calls -> Keys \cup {None}]
      /\ pc \in [Calls -> {"idle", "copy", "truncate", "write", "rename", "open", "cleanup",
                           "touch", "done", "failed", "swept", "unopened", "dead"}]
  BY DEF TypeOK
<1> USE <1>a, NamesDiffer, CallsAreOneThing DEF KeysAreKnown, Born, Calls
<1> SUFFICES ASSUME NEW q \in Puts, key[q] = k,
                    pc[q] \in {"open", "done", "swept", "unopened", "dead"}
             PROVE  /\ key'[q] = k
                    /\ pc'[q] \in {"open", "done", "swept", "unopened", "dead"}
  OBVIOUS
<1>1. ASSUME NEW p \in Puts, CreateTempFails(p) PROVE key'[q] = k /\ pc'[q] \in {"open", "done", "swept", "unopened", "dead"}
  BY <1>1 DEF CreateTempFails, Move
<1>2. ASSUME NEW p \in Puts, CreateTemp(p) PROVE key'[q] = k /\ pc'[q] \in {"open", "done", "swept", "unopened", "dead"}
  BY <1>2 DEF CreateTemp, Move
<1>3. ASSUME NEW p \in Puts, Copy(p) PROVE key'[q] = k /\ pc'[q] \in {"open", "done", "swept", "unopened", "dead"}
  BY <1>3 DEF Copy, Move
<1>4. ASSUME NEW p \in Puts, CopyFails(p) PROVE key'[q] = k /\ pc'[q] \in {"open", "done", "swept", "unopened", "dead"}
  BY <1>4 DEF CopyFails, Move
<1>5. ASSUME NEW p \in Puts, TruncateSidecar(p) PROVE key'[q] = k /\ pc'[q] \in {"open", "done", "swept", "unopened", "dead"}
  BY <1>5 DEF TruncateSidecar, Move
<1>6. ASSUME NEW p \in Puts, WriteSidecar(p) PROVE key'[q] = k /\ pc'[q] \in {"open", "done", "swept", "unopened", "dead"}
  BY <1>6 DEF WriteSidecar, Move
<1>7. ASSUME NEW p \in Puts, SidecarFails(p) PROVE key'[q] = k /\ pc'[q] \in {"open", "done", "swept", "unopened", "dead"}
  BY <1>7 DEF SidecarFails, Move
<1>8. ASSUME NEW p \in Puts, Rename(p) PROVE key'[q] = k /\ pc'[q] \in {"open", "done", "swept", "unopened", "dead"}
  BY <1>8 DEF Rename, Move
<1>9. ASSUME NEW p \in Puts, RenameFails(p) PROVE key'[q] = k /\ pc'[q] \in {"open", "done", "swept", "unopened", "dead"}
  BY <1>9 DEF RenameFails, Move
<1>10. ASSUME NEW p \in Puts, Open(p) PROVE key'[q] = k /\ pc'[q] \in {"open", "done", "swept", "unopened", "dead"}
  BY <1>10 DEF Open, Move
<1>11. ASSUME NEW p \in Puts, OpenFails(p) PROVE key'[q] = k /\ pc'[q] \in {"open", "done", "swept", "unopened", "dead"}
  BY <1>11 DEF OpenFails, Move
<1>12. ASSUME NEW p \in Puts, OpenError(p) PROVE key'[q] = k /\ pc'[q] \in {"open", "done", "swept", "unopened", "dead"}
  BY <1>12 DEF OpenError, Move
<1>13. ASSUME NEW p \in Puts, Cleanup(p) PROVE key'[q] = k /\ pc'[q] \in {"open", "done", "swept", "unopened", "dead"}
  BY <1>13 DEF Cleanup, Move
<1>14. ASSUME NEW p \in Puts, Sweep(p) PROVE key' = key /\ pc' = pc
  BY <1>14 DEF Sweep, Unlimited, Lock, Scan, ReadDirFails, Stat, RemoveMain, RemoveSide, Unlock
<1>15. ASSUME NEW g \in Gets, ReadSidecar(g) \/ OpenMain(g) \/ Touch(g) \/ Miss(g)
      PROVE  key'[q] = key[q] /\ pc'[q] = pc[q]
  BY <1>15 DEF ReadSidecar, OpenMain, Touch, Miss, Move, Forget
<1>16. CASE Crash
  BY <1>16 DEF Crash, Over
<1>17. CASE UNCHANGED vars
  BY <1>17 DEF vars
<1> QED BY <1>1, <1>2, <1>3, <1>4, <1>5, <1>6, <1>7, <1>8, <1>9, <1>10, <1>11, <1>12, <1>13, <1>14, <1>15, <1>16, <1>17 DEF Next, Put, Get, AllDone

LEMMA BornStep ==
    ASSUME TypeOK, KeysAreKnown, SweptWasBorn, [Next]_vars
    PROVE  SweptWasBorn'
<1>a. /\ main \in [Keys -> Files \cup {None}] /\ key \in [Calls -> Keys \cup {None}]
      /\ victim \in [Puts -> Keys \cup {None}]
      /\ snap \in [Puts -> SUBSET [key : Keys, size : Nat, mtime : Nat]]
  BY DEF TypeOK
<1>b. \A k \in Keys : Born(k) => Born(k)'
  BY BornGrows
<1>c. /\ \A k \in Keys : main[k] # None => Born(k)'
      /\ \A p \in Puts : \A e \in snap[p] : Born(e.key)'
      /\ \A p \in Puts, k \in Keys : victim[p] = k => Born(k)'
  <2>1. \A k \in Keys : main[k] # None => Born(k)'
    BY <1>b DEF SweptWasBorn
  <2>2. ASSUME NEW p \in Puts, NEW e \in snap[p] PROVE Born(e.key)'
    <3>1. e.key \in Keys /\ Born(e.key)
      BY <1>a DEF SweptWasBorn
    <3> QED BY <3>1, BornGrows
  <2>3. ASSUME NEW p \in Puts, NEW k \in Keys, victim[p] = k PROVE Born(k)'
    <3>1. Born(k)
      BY <2>3, NamesDiffer DEF SweptWasBorn
    <3> QED BY <3>1, BornGrows
  <2> QED BY <2>1, <2>2, <2>3
<1> USE <1>a, <1>c, NamesDiffer, CallsAreOneThing DEF SweptWasBorn
<1>1. ASSUME NEW p \in Puts, CreateTempFails(p) PROVE SweptWasBorn'
  BY <1>1 DEF CreateTempFails, sweepVars
<1>2. ASSUME NEW p \in Puts, CreateTemp(p) PROVE SweptWasBorn'
  BY <1>2 DEF CreateTemp, sweepVars
<1>3. ASSUME NEW p \in Puts, Copy(p) PROVE SweptWasBorn'
  BY <1>3 DEF Copy, sweepVars
<1>4. ASSUME NEW p \in Puts, CopyFails(p) PROVE SweptWasBorn'
  BY <1>4 DEF CopyFails, sweepVars
<1>5. ASSUME NEW p \in Puts, TruncateSidecar(p) PROVE SweptWasBorn'
  BY <1>5 DEF TruncateSidecar, sweepVars
<1>6. ASSUME NEW p \in Puts, WriteSidecar(p) PROVE SweptWasBorn'
  BY <1>6 DEF WriteSidecar, sweepVars
<1>7. ASSUME NEW p \in Puts, SidecarFails(p) PROVE SweptWasBorn'
  BY <1>7 DEF SidecarFails, sweepVars
<1>8. ASSUME NEW p \in Puts, RenameFails(p) PROVE SweptWasBorn'
  BY <1>8 DEF RenameFails, sweepVars
<1>9. ASSUME NEW p \in Puts, Open(p) PROVE SweptWasBorn'
  BY <1>9 DEF Open, sweepVars
<1>10. ASSUME NEW p \in Puts, OpenFails(p) PROVE SweptWasBorn'
  BY <1>10 DEF OpenFails, sweepVars
<1>11. ASSUME NEW p \in Puts, OpenError(p) PROVE SweptWasBorn'
  BY <1>11 DEF OpenError, sweepVars
<1>12. ASSUME NEW p \in Puts, Cleanup(p) PROVE SweptWasBorn'
  BY <1>12 DEF Cleanup, sweepVars
<1>13. ASSUME NEW p \in Puts, Unlimited(p) PROVE SweptWasBorn'
  BY <1>13 DEF Unlimited, sweepVars
<1>14. ASSUME NEW p \in Puts, Lock(p) PROVE SweptWasBorn'
  BY <1>14 DEF Lock, Scan, sweepVars
<1>15. ASSUME NEW p \in Puts, ReadDirFails(p) PROVE SweptWasBorn'
  BY <1>15 DEF ReadDirFails, sweepVars
<1>16. ASSUME NEW p \in Puts, Rename(p) PROVE SweptWasBorn'
  <2>1. key[p] \in Keys => Born(key[p])'
    BY <1>16 DEF Rename, Move, Born, Calls, TypeOK
  <2>2. \A k \in Keys : main'[k] # None => main[k] # None \/ k = key[p]
    BY <1>16 DEF Rename
  <2> QED BY <1>16, <2>1, <2>2 DEF Rename, sweepVars
<1>17. ASSUME NEW p \in Puts, Stat(p) PROVE SweptWasBorn'
  <2>1. PICK k \in names[p] :
            snap' = [snap EXCEPT ![p] = @ \cup
                 {[key |-> k, size |-> SizeOf[f.put], mtime |-> f.mtime] : f \in {main[k]} \ {None}}]
    BY <1>17 DEF Stat
  <2>2. k \in Keys
    BY DEF TypeOK
  <2>3. \A q \in Puts : \A e \in snap'[q] : e \in snap[q] \/ (e.key = k /\ main[k] # None)
    BY <2>1
  <2>4. \A q \in Puts : \A e \in snap'[q] : Born(e.key)'
    BY <2>2, <2>3
  <2> QED BY <1>17, <2>4 DEF Stat
<1>18. ASSUME NEW p \in Puts, RemoveMain(p) PROVE SweptWasBorn'
  <2>1. PICK e \in snap[p] : /\ main' = [main EXCEPT ![e.key] = None]
                             /\ victim' = [victim EXCEPT ![p] = e.key]
                             /\ snap' = [snap EXCEPT ![p] = @ \ {e}]
    BY <1>18 DEF RemoveMain, Oldest
  <2> QED BY <2>1
<1>19. ASSUME NEW p \in Puts, RemoveSide(p) PROVE SweptWasBorn'
  BY <1>19 DEF RemoveSide
<1>20. ASSUME NEW p \in Puts, Unlock(p) PROVE SweptWasBorn'
  BY <1>20 DEF Unlock
<1>21. ASSUME NEW g \in Gets, ReadSidecar(g) PROVE SweptWasBorn'
  BY <1>21 DEF ReadSidecar, sweepVars
<1>22. ASSUME NEW g \in Gets, OpenMain(g) PROVE SweptWasBorn'
  BY <1>22 DEF OpenMain, sweepVars
<1>23. ASSUME NEW g \in Gets, Touch(g) PROVE SweptWasBorn'
  BY <1>23 DEF Touch, sweepVars
<1>24. ASSUME NEW g \in Gets, Miss(g) PROVE SweptWasBorn'
  BY <1>24 DEF Miss, sweepVars
<1>25. CASE Crash
  BY <1>25 DEF Crash
<1>26. CASE UNCHANGED vars
  BY <1>26 DEF vars, sweepVars
<1> QED BY <1>1, <1>2, <1>3, <1>4, <1>5, <1>6, <1>7, <1>8, <1>9, <1>10, <1>11, <1>12, <1>13, <1>14, <1>15, <1>16, <1>17, <1>18, <1>19, <1>20, <1>21, <1>22, <1>23, <1>24, <1>25, <1>26 DEF Next, Put, Get, Sweep, AllDone

LEMMA SidesStep ==
    ASSUME TypeOK, KeysAreKnown, TempsAreWhole, SweptWasBorn, SidesAreRight, [Next]_vars
    PROVE  SidesAreRight'
<1>a. /\ main \in [Keys -> Files \cup {None}] /\ side \in [Keys -> Contents \cup {Empty, None}]
      /\ tmp \in [Puts -> Files \cup {None}] /\ key \in [Calls -> Keys \cup {None}]
      /\ pc \in [Calls -> {"idle", "copy", "truncate", "write", "rename", "open", "cleanup",
                           "touch", "done", "failed", "swept", "unopened", "dead"}]
      /\ victim \in [Puts -> Keys \cup {None}]
      /\ snap \in [Puts -> SUBSET [key : Keys, size : Nat, mtime : Nat]]
  BY DEF TypeOK
<1> USE <1>a, NamesDiffer, CallsAreOneThing, OldKeysAreKeys DEF KeysAreKnown, TempsAreWhole, SweptWasBorn, SidesAreRight, Born, Sole, Calls, Files
<1>1. ASSUME NEW p \in Puts, CreateTempFails(p) PROVE SidesAreRight'
  BY <1>1 DEF CreateTempFails, Move, getVars, sweepVars
<1>2. ASSUME NEW p \in Puts, CreateTemp(p) PROVE SidesAreRight'
  <2> USE <1>2 DEF CreateTemp, Move, getVars, sweepVars
  <2>1. PICK k \in Keys : key' = [key EXCEPT ![p] = k]
    OBVIOUS
  <2>2. key[p] = None /\ \A q \in Puts \ {p} : key'[q] = key[q]
    BY <2>1
  <2>3. \A j \in Keys : Sole(j)' => Sole(j)
    <3>1. \A j \in Keys, q \in Puts : key[q] = j => key'[q] = j
      BY <2>2
    <3> QED BY <3>1 DEF Sole
  <2>4. \A q \in Puts : pc'[q] = "rename" => pc[q] = "rename" /\ key'[q] = key[q]
    BY <2>2
  <2> QED BY <2>3, <2>4
<1>3. ASSUME NEW p \in Puts, Copy(p) PROVE SidesAreRight'
  BY <1>3 DEF Copy, Move, Tick, getVars, sweepVars
<1>4. ASSUME NEW p \in Puts, CopyFails(p) PROVE SidesAreRight'
  BY <1>4 DEF CopyFails, Move, getVars, sweepVars
<1>5. ASSUME NEW p \in Puts, TruncateSidecar(p) PROVE SidesAreRight'
  BY <1>5 DEF TruncateSidecar, Move, getVars, sweepVars
<1>6. ASSUME NEW p \in Puts, WriteSidecar(p) PROVE SidesAreRight'
  BY <1>6 DEF WriteSidecar, Move, getVars, sweepVars
<1>7. ASSUME NEW p \in Puts, SidecarFails(p) PROVE SidesAreRight'
  BY <1>7 DEF SidecarFails, Move, getVars, sweepVars
<1>8. ASSUME NEW p \in Puts, Rename(p) PROVE SidesAreRight'
  BY <1>8 DEF Rename, Move, getVars, sweepVars
<1>9. ASSUME NEW p \in Puts, RenameFails(p) PROVE SidesAreRight'
  BY <1>9 DEF RenameFails, Move, getVars, sweepVars
<1>10. ASSUME NEW p \in Puts, Open(p) PROVE SidesAreRight'
  BY <1>10 DEF Open, Move, getVars, sweepVars
<1>11. ASSUME NEW p \in Puts, OpenFails(p) PROVE SidesAreRight'
  BY <1>11 DEF OpenFails, Move, getVars, sweepVars
<1>12. ASSUME NEW p \in Puts, OpenError(p) PROVE SidesAreRight'
  BY <1>12 DEF OpenError, Move, getVars, sweepVars
<1>13. ASSUME NEW p \in Puts, Cleanup(p) PROVE SidesAreRight'
  BY <1>13 DEF Cleanup, Move, getVars, sweepVars
<1>14. ASSUME NEW p \in Puts, Unlimited(p) PROVE SidesAreRight'
  BY <1>14 DEF Unlimited, getVars, sweepVars
<1>15. ASSUME NEW p \in Puts, Lock(p) PROVE SidesAreRight'
  BY <1>15 DEF Lock, Scan, getVars, sweepVars
<1>16. ASSUME NEW p \in Puts, ReadDirFails(p) PROVE SidesAreRight'
  BY <1>16 DEF ReadDirFails, getVars, sweepVars
<1>17. ASSUME NEW p \in Puts, Stat(p) PROVE SidesAreRight'
  BY <1>17 DEF Stat, getVars, sweepVars
<1>18. ASSUME NEW p \in Puts, RemoveMain(p) PROVE SidesAreRight'
  BY <1>18 DEF RemoveMain, getVars, sweepVars
<1>19. ASSUME NEW p \in Puts, RemoveSide(p) PROVE SidesAreRight'
  BY <1>19 DEF RemoveSide, getVars, sweepVars
<1>20. ASSUME NEW p \in Puts, Unlock(p) PROVE SidesAreRight'
  BY <1>20 DEF Unlock, getVars, sweepVars
<1>21. ASSUME NEW g \in Gets, ReadSidecar(g) PROVE SidesAreRight'
  BY <1>21 DEF ReadSidecar, Move, Forget, Tick, getVars, sweepVars
<1>22. ASSUME NEW g \in Gets, OpenMain(g) PROVE SidesAreRight'
  BY <1>22 DEF OpenMain, Move, Forget, Tick, getVars, sweepVars
<1>23. ASSUME NEW g \in Gets, Touch(g) PROVE SidesAreRight'
  BY <1>23 DEF Touch, Move, Forget, Tick, getVars, sweepVars
<1>24. ASSUME NEW g \in Gets, Miss(g) PROVE SidesAreRight'
  BY <1>24 DEF Miss, Move, Forget, Tick, getVars, sweepVars
<1>25. CASE Crash
  BY <1>25 DEF Crash, Over
<1>26. CASE UNCHANGED vars
  BY <1>26 DEF vars, getVars, sweepVars
<1> QED BY <1>1, <1>2, <1>3, <1>4, <1>5, <1>6, <1>7, <1>8, <1>9, <1>10, <1>11, <1>12, <1>13, <1>14, <1>15, <1>16, <1>17, <1>18, <1>19, <1>20, <1>21, <1>22, <1>23, <1>24, <1>25, <1>26 DEF Next, Put, Get, Sweep, AllDone

LEMMA InitInd == Init => Ind
<1> SUFFICES ASSUME Init PROVE Ind
  OBVIOUS
<1> USE NamesDiffer, CallsAreOneThing, OldKeysAreKeys DEF Init
<1>1. TypeOK
  <2>1. main \in [Keys -> Files \cup {None}] /\ side \in [Keys -> Contents \cup {Empty, None}]
    BY DEF Files, Contents
  <2>2. crashes \in 0..MaxCrashes
    BY CrashBound
  <2> QED BY <2>1, <2>2 DEF TypeOK, Calls
<1>2. EntriesAreWhole /\ NoStrayTemps /\ KeysAreKnown /\ TempsAreWhole
  BY DEF EntriesAreWhole, NoStrayTemps, KeysAreKnown, TempsAreWhole, Calls
<1>3. SweptWasBorn /\ SidesAreRight
  BY DEF SweptWasBorn, Born, SidesAreRight, Calls
<1> QED BY <1>1, <1>2, <1>3 DEF Ind

\* A key that PutOnce allows is Sole's.
LEMMA PutOnceIsSole ==
    ASSUME NEW k, PutOnce(k)
    PROVE  Sole(k)
<1> DEFINE S == {p \in Puts : key[p] = k}
<1>1. IsFiniteSet(S)
  BY PutsAreFinite, FS_Subset
<1>2. ASSUME NEW p \in S PROVE Cardinality(S) >= 1
  BY <1>1, <1>2, FS_EmptySet, FS_CardinalityType
<1>3. ASSUME NEW p \in S, NEW q \in S, p # q PROVE Cardinality(S) >= 2
  <2>1. IsFiniteSet({p}) /\ Cardinality({p}) = 1
    BY FS_Singleton
  <2>2. IsFiniteSet({p} \cup {q}) /\ Cardinality({p} \cup {q}) = 2
    BY <1>3, <2>1, FS_AddElement
  <2>3. {p} \cup {q} \subseteq S
    OBVIOUS
  <2>4. Cardinality({p} \cup {q}) <= Cardinality(S)
    BY <1>1, <2>3, FS_Subset
  <2> QED BY <2>2, <2>4, <1>1, FS_CardinalityType
<1>4. Cardinality(S) \in Nat
  BY <1>1, FS_CardinalityType
<1> QED BY <1>2, <1>3, <1>4 DEF PutOnce, Sole

\* Every reachable state satisfies the inductive invariant.
THEOREM DiskCacheInvariance == Spec => []Ind
<1>1. Ind /\ [Next]_vars => Ind'
  BY TypeStep, KeysStep, WholeStep, BornStep, SidesStep DEF Ind
<1> QED BY InitInd, <1>1, PTL DEF Spec

\* cache/cache.go: every variable of the disk cache keeps its type, for any
\* Puts, Gets, sweeps and crashes.
THEOREM DiskCacheTypeCorrect == Spec => []TypeOK
<1>1. Ind => TypeOK
  BY DEF Ind
<1> QED BY DiskCacheInvariance, <1>1, PTL

\* cache/cache.go:69: what is at a final path is all the bytes of one Put.
THEOREM EntriesAreAlwaysWhole == Spec => []EntriesAreWhole
<1>1. Ind => EntriesAreWhole
  BY DEF Ind
<1> QED BY DiskCacheInvariance, <1>1, PTL

\* cache/cache.go:75-76: a Put that has returned has left no temporary file.
THEOREM TempsAreCleanedUp == Spec => []NoStrayTemps
<1>1. Ind => NoStrayTemps
  BY DEF Ind
<1> QED BY DiskCacheInvariance, <1>1, PTL

\* cache/cache.go:91-93: an entry that no second Put overwrites always has its
\* own MIME type beside it.
THEOREM SoleEntryHasItsType == Spec => []EntryHasItsType
<1>1. Ind => EntryHasItsType
  BY PutOnceIsSole DEF Ind, SidesAreRight, EntryHasItsType
<1> QED BY DiskCacheInvariance, <1>1, PTL


-----------------------------------------------------------------------------
(* Sums of sizes. *)

\* A sum of sizes is a number of units: f[x] of them for each x of R.
Units(f, R) == {u \in R \X Nat : u[2] \in 1..f[u[1]]}

LEMMA UnitsOfOne ==
    ASSUME NEW f, NEW x, f[x] \in Nat
    PROVE  IsFiniteSet(Units(f, {x})) /\ Cardinality(Units(f, {x})) = f[x]
<1>1. Units(f, {x}) = {x} \X (1..f[x])
    BY DEF Units
<1>2. IsFiniteSet({x}) /\ Cardinality({x}) = 1
    BY FS_Singleton
<1>3. IsFiniteSet(1..f[x]) /\ Cardinality(1..f[x]) = f[x]
  <2>1. IsFiniteSet(1..f[x]) /\ Cardinality(1..f[x]) = IF 1 > f[x] THEN 0 ELSE f[x] - 1 + 1
      BY FS_Interval, SMTT(20)
  <2> QED
      BY <2>1
<1>4. /\ IsFiniteSet({x} \X (1..f[x]))
      /\ Cardinality({x} \X (1..f[x])) = Cardinality({x}) * Cardinality(1..f[x])
    BY <1>2, <1>3, FS_Product
<1>5. Cardinality({x} \X (1..f[x])) = 1 * f[x]
    BY <1>2, <1>3, <1>4
<1>6. 1 * f[x] = f[x]
    OBVIOUS
<1> QED
    BY <1>1, <1>4, <1>5, <1>6

\* A finite set has every property that the empty set has and that passes from sets with one
\* element less: P are the subsets that have it.
LEMMA SubsetInduction ==
    ASSUME NEW S, IsFiniteSet(S), NEW P,
           \A R \in SUBSET S : (\A x \in R : R \ {x} \in P) => R \in P
    PROVE  S \in P
<1> DEFINE Bad == {R \in SUBSET S : R \notin P}
<1>1. SUFFICES ASSUME S \notin P PROVE FALSE
    OBVIOUS
<1>2. IsWellFoundedOn(StrictSubsetOrdering(S), SUBSET S)
    BY FS_StrictSubsetOrderingWellFounded, FS_FiniteSubsetsOfFinite
<1>3. Bad # {} /\ Bad \subseteq SUBSET S
    BY <1>1
<1>4. PICK R \in Bad : \A Q \in Bad : ~(<<Q, R>> \in StrictSubsetOrdering(S))
  <2> HIDE DEF Bad
  <2> QED
      BY <1>2, <1>3, WFMin
<1>5. ASSUME NEW x \in R PROVE R \ {x} \in P
  <2>1. R \ {x} \in SUBSET S /\ R \ {x} # R
      BY <1>4
  <2>2. <<R \ {x}, R>> \in StrictSubsetOrdering(S)
      BY <1>4, <2>1 DEF StrictSubsetOrdering
  <2> QED
      BY <1>4, <2>1, <2>2
<1> QED
    BY <1>4, <1>5

LEMMA UnitsSplit ==
    ASSUME NEW f, NEW R, NEW x \in R, f[x] \in Nat, IsFiniteSet(Units(f, R \ {x}))
    PROVE  /\ IsFiniteSet(Units(f, R))
           /\ Cardinality(Units(f, R)) = f[x] + Cardinality(Units(f, R \ {x}))
<1> DEFINE A == Units(f, {x})
           B == Units(f, R \ {x})
<1>1. IsFiniteSet(A) /\ Cardinality(A) = f[x]
    BY UnitsOfOne
<1>2. Units(f, R) = A \cup B /\ A \cap B = {}
    BY DEF Units
<1> HIDE DEF A, B
<1>3. /\ IsFiniteSet(A \cup B)
      /\ Cardinality(A \cup B) = Cardinality(A) + Cardinality(B) - Cardinality(A \cap B)
    BY <1>1, FS_Union DEF B
<1>4. Cardinality({}) = 0 /\ Cardinality(B) \in Nat
    BY FS_EmptySet, FS_CardinalityType DEF B
<1>5. Cardinality(A \cup B) = f[x] + Cardinality(B) - 0
    BY <1>1, <1>2, <1>3, <1>4
<1>6. Cardinality(A \cup B) = f[x] + Cardinality(B)
    BY <1>4, <1>5
<1> QED
    BY <1>2, <1>3, <1>6 DEF B

LEMMA UnitsAreFinite ==
    ASSUME NEW f, NEW S, IsFiniteSet(S), \A x \in S : f[x] \in Nat
    PROVE  IsFiniteSet(Units(f, S))
<1> DEFINE P == {R \in SUBSET S : IsFiniteSet(Units(f, R))}
<1>1. ASSUME NEW R \in SUBSET S, \A x \in R : R \ {x} \in P PROVE R \in P
  <2>1. CASE R = {}
    <3>1. Units(f, R) = {}
        BY <2>1 DEF Units
    <3> QED
        BY <3>1, FS_EmptySet
  <2>2. ASSUME NEW x \in R PROVE IsFiniteSet(Units(f, R))
    <3>1. IsFiniteSet(Units(f, R \ {x})) /\ f[x] \in Nat
        BY <1>1
    <3> QED
        BY <3>1, UnitsSplit
  <2> QED
      BY <2>1, <2>2
<1>2. S \in P
  <2> HIDE DEF P
  <2> QED
      BY <1>1, SubsetInduction
<1> QED
    BY <1>2

\* What a sum over R is in terms of the sums g over its subsets: the recursion of the folds.
SumStep(f, g, R) == IF R = {} THEN 0
                    ELSE LET x == CHOOSE y \in R : TRUE IN f[x] + g[R \ {x}]

LEMMA SumsExist ==
    ASSUME NEW f, NEW S, IsFiniteSet(S), \A x \in S : f[x] \in Nat
    PROVE  \E g : g = [R \in SUBSET S |-> SumStep(f, g, R)]
<1> DEFINE g == [R \in SUBSET S |-> Cardinality(Units(f, R))]
<1>1. ASSUME NEW R \in SUBSET S PROVE g[R] = SumStep(f, g, R)
  <2>1. CASE R = {}
    <3>1. Units(f, R) = {}
        BY <2>1 DEF Units
    <3> QED
        BY <2>1, <3>1, FS_EmptySet DEF SumStep
  <2>2. CASE R # {}
    <3> DEFINE x == CHOOSE y \in R : TRUE
               Q == R \ {x}
    <3>1. x \in R
        BY <2>2
    <3>2. Q \in SUBSET S /\ IsFiniteSet(Q) /\ f[x] \in Nat
        BY <3>1, FS_Subset
    <3>3. IsFiniteSet(Units(f, Q))
        BY <3>2, UnitsAreFinite
    <3> HIDE DEF x
    <3>4. Cardinality(Units(f, R)) = f[x] + Cardinality(Units(f, Q))
        BY <3>1, <3>2, <3>3, UnitsSplit
    <3>5. g[Q] = Cardinality(Units(f, Q)) /\ g[R] = Cardinality(Units(f, R))
        BY <3>2
    <3> HIDE DEF g
    <3> QED
        BY <2>2, <3>4, <3>5 DEF SumStep, x
  <2> QED
      BY <2>1, <2>2
<1>2. g = [R \in SUBSET S |-> SumStep(f, g, R)]
    BY <1>1
<1> HIDE DEF g
<1> QED
    BY <1>2

LEMMA SumIsUnits ==
    ASSUME NEW f, NEW S, IsFiniteSet(S), \A x \in S : f[x] \in Nat,
           NEW g, g = [R \in SUBSET S |-> SumStep(f, g, R)]
    PROVE  g[S] = Cardinality(Units(f, S))
<1> DEFINE P == {R \in SUBSET S : g[R] = Cardinality(Units(f, R))}
<1>1. ASSUME NEW R \in SUBSET S, \A x \in R : R \ {x} \in P PROVE R \in P
  <2>0. g[R] = SumStep(f, g, R)
      OBVIOUS
  <2>1. CASE R = {}
    <3>1. Units(f, R) = {}
        BY <2>1 DEF Units
    <3> QED
        BY <2>0, <2>1, <3>1, FS_EmptySet DEF SumStep
  <2>2. CASE R # {}
    <3> DEFINE x == CHOOSE y \in R : TRUE
    <3>1. x \in R
        BY <2>2
    <3>2. g[R] = f[x] + g[R \ {x}]
        BY <2>0, <2>2 DEF SumStep
    <3> HIDE DEF x
    <3>3. g[R \ {x}] = Cardinality(Units(f, R \ {x}))
        BY <1>1, <3>1
    <3>4. IsFiniteSet(R \ {x}) /\ f[x] \in Nat
        BY <3>1, FS_Subset
    <3>5. IsFiniteSet(Units(f, R \ {x}))
        BY <3>4, UnitsAreFinite
    <3>6. Cardinality(Units(f, R)) = f[x] + Cardinality(Units(f, R \ {x}))
        BY <3>1, <3>4, <3>5, UnitsSplit
    <3> QED
        BY <3>2, <3>3, <3>6
  <2> QED
      BY <2>1, <2>2
<1>2. S \in P
  <2> HIDE DEF P
  <2> QED
      BY <1>1, SubsetInduction
<1> QED
    BY <1>2

\* The sum over a set is at most that over another one into which it can be embedded, sizes kept.
LEMMA UnitsEmbedded ==
    ASSUME NEW f, NEW S, NEW h, NEW T, IsFiniteSet(T), \A y \in T : h[y] \in Nat,
           NEW m \in [S -> T], \A x, z \in S : m[x] = m[z] => x = z,
           \A x \in S : f[x] = h[m[x]]
    PROVE  Cardinality(Units(f, S)) <= Cardinality(Units(h, T))
<1> DEFINE A == Units(f, S)
           B == Units(h, T)
           n == [u \in A |-> <<m[u[1]], u[2]>>]
<1>1. IsFiniteSet(B)
    BY UnitsAreFinite
<1>2. ASSUME NEW u \in A PROVE <<m[u[1]], u[2]>> \in B
    BY DEF Units
<1>3. n \in [A -> B]
    BY <1>2
<1>4. ASSUME NEW u \in A, NEW v \in A, n[u] = n[v] PROVE u = v
  <2>1. m[u[1]] = m[v[1]] /\ u[2] = v[2]
      BY <1>4
  <2>2. u[1] \in S /\ v[1] \in S /\ u = <<u[1], u[2]>> /\ v = <<v[1], v[2]>>
      BY DEF Units
  <2> QED
      BY <2>1, <2>2
<1> HIDE DEF A, B, n
<1>5. n \in Injection(A, B)
    BY <1>3, <1>4, Fun_IsInj
<1>6. Cardinality(A) <= Cardinality(B)
    BY <1>1, <1>5, FS_Injection
<1> QED
    BY <1>6 DEF A, B

\* The total of a sweep's snapshot, and that of the files on disk.
LEMMA TotalIsUnits ==
    ASSUME NEW E, IsFiniteSet(E), \A e \in E : e.size \in Nat
    PROVE  Total(E) = Cardinality(Units([e \in E |-> e.size], E))
<1> DEFINE f == [e \in E |-> e.size]
           step(g, R) == IF R = {} THEN 0
                         ELSE LET x == CHOOSE y \in R : TRUE IN x.size + g[R \ {x}]
           sum == CHOOSE g : g = [R \in SUBSET E |-> step(g, R)]
<1>1. \A x \in E : f[x] \in Nat /\ f[x] = x.size
    OBVIOUS
<1>2. ASSUME NEW g, NEW R \in SUBSET E PROVE step(g, R) = SumStep(f, g, R)
  <2>1. CASE R = {}
      BY <2>1 DEF SumStep
  <2>2. CASE R # {}
    <3>1. (CHOOSE y \in R : TRUE) \in E
        BY <2>2
    <3> QED
        BY <2>2, <3>1 DEF SumStep
  <2> QED
      BY <2>1, <2>2
<1>3. Total(E) = sum[E]
    BY DEF Total, MapThenSumSet, MapThenFoldSet
<1> HIDE DEF f, step
<1>4. \E g : g = [R \in SUBSET E |-> step(g, R)]
  <2>1. PICK g : g = [R \in SUBSET E |-> SumStep(f, g, R)]
      BY <1>1, SumsExist
  <2>2. g = [R \in SUBSET E |-> step(g, R)]
      BY <1>2, <2>1
  <2> QED
      BY <2>2
<1>5. sum = [R \in SUBSET E |-> step(sum, R)]
    BY <1>4
<1> HIDE DEF sum
<1>6. sum = [R \in SUBSET E |-> SumStep(f, sum, R)]
    BY <1>2, <1>5
<1>7. sum[E] = Cardinality(Units(f, E))
    BY <1>1, <1>6, SumIsUnits
<1> QED
    BY <1>3, <1>7 DEF f

OnDisk == {k \in Keys : main[k] # None}

LEMMA DiskTotalIsUnits ==
    ASSUME IsFiniteSet(OnDisk), \A k \in OnDisk : SizeOf[main[k].put] \in Nat
    PROVE  DiskTotal = Cardinality(Units([k \in OnDisk |-> SizeOf[main[k].put]], OnDisk))
<1> DEFINE f == [k \in OnDisk |-> SizeOf[main[k].put]]
           step(g, R) == IF R = {} THEN 0
                         ELSE LET x == CHOOSE y \in R : TRUE IN SizeOf[main[x].put] + g[R \ {x}]
           sum == CHOOSE g : g = [R \in SUBSET OnDisk |-> step(g, R)]
<1>1. \A x \in OnDisk : f[x] \in Nat /\ f[x] = SizeOf[main[x].put]
    OBVIOUS
<1>2. ASSUME NEW g, NEW R \in SUBSET OnDisk PROVE step(g, R) = SumStep(f, g, R)
  <2>1. CASE R = {}
      BY <2>1 DEF SumStep
  <2>2. CASE R # {}
    <3>1. (CHOOSE y \in R : TRUE) \in OnDisk
        BY <2>2
    <3> QED
        BY <2>2, <3>1 DEF SumStep
  <2> QED
      BY <2>1, <2>2
<1>3. DiskTotal = sum[OnDisk]
    BY DEF DiskTotal, MapThenSumSet, MapThenFoldSet, OnDisk
<1> HIDE DEF f, step
<1>4. \E g : g = [R \in SUBSET OnDisk |-> step(g, R)]
  <2>1. PICK g : g = [R \in SUBSET OnDisk |-> SumStep(f, g, R)]
      BY <1>1, SumsExist
  <2>2. g = [R \in SUBSET OnDisk |-> step(g, R)]
      BY <1>2, <2>1
  <2> QED
      BY <2>2
<1>5. sum = [R \in SUBSET OnDisk |-> step(sum, R)]
    BY <1>4
<1> HIDE DEF sum
<1>6. sum = [R \in SUBSET OnDisk |-> SumStep(f, sum, R)]
    BY <1>2, <1>5
<1>7. sum[OnDisk] = Cardinality(Units(f, OnDisk))
    BY <1>1, <1>6, SumIsUnits
<1> QED
    BY <1>3, <1>7 DEF f

-----------------------------------------------------------------------------
(* Sweeps. *)

Sweeping(p) == sweep[p] \in {"scan", "rmside"}

\* Sweeps run one at a time, after their Put has returned, and only where there is a budget.
SweepsAreSerial ==
    \A p \in Puts : /\ Sweeping(p) => mutex = p /\ maxBytes > 0
                    /\ sweep[p] # "none" => pc[p] = "done"

\* A sweep lists each entry once, and none before or after it runs.
SnapsAreLists ==
    \A p \in Puts :
        /\ ~Sweeping(p) => snap[p] = {}
        /\ IsFiniteSet(snap[p])
        /\ \A e \in snap[p] : e.key \notin names[p]
        /\ \A e, o \in snap[p] : e.key = o.key => e = o

\* What is stored under k will be swept, or never will.
Later(k) == \E q \in Puts : key[q] = k /\ (pc[q] \in {"open", "unopened"} \/ sweep[q] \in {"lock", "unread"})

\* A sweep that runs knows every entry there is, but for those that a later one will see.
Sees(p, k) == \/ k \in names[p]
              \/ \E e \in snap[p] : e.key = k /\ e.size = SizeOf[main[k].put]
              \/ Later(k)
SweepsSeeAll == \A p \in Puts : Sweeping(p) => \A k \in Keys : main[k] # None => Sees(p, k)

\* Where no key is stored twice, what a sweep has listed is still there.
SnapsAreTrue ==
    (\A k \in Keys : Sole(k)) =>
        \A p \in Puts : \A e \in snap[p] : main[e.key] # None /\ e.size = SizeOf[main[e.key].put]

SweepInd == /\ SweepsAreSerial /\ SnapsAreLists /\ IsFiniteSet(OnDisk)
            /\ SweepsSeeAll /\ SnapsAreTrue

LEMMA SerialStep ==
    ASSUME TypeOK, SweepsAreSerial, [Next]_vars
    PROVE  SweepsAreSerial'
<1> USE NamesDiffer, CallsAreOneThing DEF TypeOK, SweepsAreSerial, Sweeping, Calls
<1>1. ASSUME NEW p \in Puts, CreateTempFails(p) PROVE SweepsAreSerial'
  BY <1>1 DEF CreateTempFails, Move, getVars, sweepVars
<1>2. ASSUME NEW p \in Puts, CreateTemp(p) PROVE SweepsAreSerial'
  BY <1>2 DEF CreateTemp, Move, getVars, sweepVars
<1>3. ASSUME NEW p \in Puts, Copy(p) PROVE SweepsAreSerial'
  BY <1>3 DEF Copy, Move, getVars, sweepVars, Tick
<1>4. ASSUME NEW p \in Puts, CopyFails(p) PROVE SweepsAreSerial'
  BY <1>4 DEF CopyFails, Move, getVars, sweepVars
<1>5. ASSUME NEW p \in Puts, TruncateSidecar(p) PROVE SweepsAreSerial'
  BY <1>5 DEF TruncateSidecar, Move, getVars, sweepVars
<1>6. ASSUME NEW p \in Puts, WriteSidecar(p) PROVE SweepsAreSerial'
  BY <1>6 DEF WriteSidecar, Move, getVars, sweepVars
<1>7. ASSUME NEW p \in Puts, SidecarFails(p) PROVE SweepsAreSerial'
  BY <1>7 DEF SidecarFails, Move, getVars, sweepVars
<1>8. ASSUME NEW p \in Puts, Rename(p) PROVE SweepsAreSerial'
  BY <1>8 DEF Rename, Move, getVars, sweepVars
<1>9. ASSUME NEW p \in Puts, RenameFails(p) PROVE SweepsAreSerial'
  BY <1>9 DEF RenameFails, Move, getVars, sweepVars
<1>10. ASSUME NEW p \in Puts, Open(p) PROVE SweepsAreSerial'
  BY <1>10 DEF Open, Move, getVars, sweepVars
<1>11. ASSUME NEW p \in Puts, OpenFails(p) PROVE SweepsAreSerial'
  BY <1>11 DEF OpenFails, Move, getVars, sweepVars
<1>12. ASSUME NEW p \in Puts, OpenError(p) PROVE SweepsAreSerial'
  BY <1>12 DEF OpenError, Move, getVars, sweepVars
<1>13. ASSUME NEW p \in Puts, Cleanup(p) PROVE SweepsAreSerial'
  BY <1>13 DEF Cleanup, Move, getVars, sweepVars
<1>14. ASSUME NEW p \in Puts, Unlimited(p) PROVE SweepsAreSerial'
  BY <1>14 DEF Unlimited, getVars
<1>15. ASSUME NEW p \in Puts, Lock(p) PROVE SweepsAreSerial'
  <2>1. sweep[p] = "lock" /\ mutex = None /\ maxBytes > 0
    BY <1>15 DEF Lock
  <2>2. mutex' = p /\ maxBytes' = maxBytes /\ pc' = pc /\ sweep' = [sweep EXCEPT ![p] = "scan"]
    BY <1>15 DEF Lock, Scan
  <2>3. \A q \in Puts : ~Sweeping(q)
    BY <2>1 DEF Contents
  <2> QED BY <2>1, <2>2, <2>3
<1>16. ASSUME NEW p \in Puts, ReadDirFails(p) PROVE SweepsAreSerial'
  BY <1>16 DEF ReadDirFails, getVars
<1>17. ASSUME NEW p \in Puts, Stat(p) PROVE SweepsAreSerial'
  BY <1>17 DEF Stat, getVars
<1>18. ASSUME NEW p \in Puts, RemoveMain(p) PROVE SweepsAreSerial'
  BY <1>18 DEF RemoveMain, getVars, Oldest
<1>19. ASSUME NEW p \in Puts, RemoveSide(p) PROVE SweepsAreSerial'
  BY <1>19 DEF RemoveSide, getVars
<1>20. ASSUME NEW p \in Puts, Unlock(p) PROVE SweepsAreSerial'
  BY <1>20 DEF Unlock, getVars
<1>21. ASSUME NEW g \in Gets, ReadSidecar(g) PROVE SweepsAreSerial'
  BY <1>21 DEF ReadSidecar, Move, getVars, sweepVars
<1>22. ASSUME NEW g \in Gets, OpenMain(g) PROVE SweepsAreSerial'
  BY <1>22 DEF OpenMain, Move, getVars, sweepVars, Tick
<1>23. ASSUME NEW g \in Gets, Touch(g) PROVE SweepsAreSerial'
  BY <1>23 DEF Touch, Move, getVars, sweepVars, Forget
<1>24. ASSUME NEW g \in Gets, Miss(g) PROVE SweepsAreSerial'
  BY <1>24 DEF Miss, Move, getVars, sweepVars, Forget
<1>25. CASE Crash
  BY <1>25 DEF Crash, Over
<1>26. CASE UNCHANGED vars
  BY <1>26 DEF vars, getVars, sweepVars
<1> QED BY <1>1, <1>2, <1>3, <1>4, <1>5, <1>6, <1>7, <1>8, <1>9, <1>10, <1>11, <1>12, <1>13, <1>14, <1>15, <1>16, <1>17, <1>18, <1>19, <1>20, <1>21, <1>22, <1>23, <1>24, <1>25, <1>26 DEF Next, Put, Get, Sweep, AllDone

LEMMA ListsStep ==
    ASSUME TypeOK, SweepsAreSerial, SnapsAreLists, [Next]_vars
    PROVE  SnapsAreLists'
<1>a. /\ snap \in [Puts -> SUBSET [key : Keys, size : Nat, mtime : Nat]]
      /\ names \in [Puts -> SUBSET Keys]
  BY DEF TypeOK
<1> USE <1>a, NamesDiffer DEF SnapsAreLists, Sweeping
<1>1. ASSUME NEW p \in Puts, CreateTempFails(p) PROVE SnapsAreLists'
  BY <1>1 DEF CreateTempFails, Move, getVars, sweepVars
<1>2. ASSUME NEW p \in Puts, CreateTemp(p) PROVE SnapsAreLists'
  BY <1>2 DEF CreateTemp, Move, getVars, sweepVars
<1>3. ASSUME NEW p \in Puts, Copy(p) PROVE SnapsAreLists'
  BY <1>3 DEF Copy, Move, getVars, sweepVars, Tick
<1>4. ASSUME NEW p \in Puts, CopyFails(p) PROVE SnapsAreLists'
  BY <1>4 DEF CopyFails, Move, getVars, sweepVars
<1>5. ASSUME NEW p \in Puts, TruncateSidecar(p) PROVE SnapsAreLists'
  BY <1>5 DEF TruncateSidecar, Move, getVars, sweepVars
<1>6. ASSUME NEW p \in Puts, WriteSidecar(p) PROVE SnapsAreLists'
  BY <1>6 DEF WriteSidecar, Move, getVars, sweepVars
<1>7. ASSUME NEW p \in Puts, SidecarFails(p) PROVE SnapsAreLists'
  BY <1>7 DEF SidecarFails, Move, getVars, sweepVars
<1>8. ASSUME NEW p \in Puts, Rename(p) PROVE SnapsAreLists'
  BY <1>8 DEF Rename, Move, getVars, sweepVars
<1>9. ASSUME NEW p \in Puts, RenameFails(p) PROVE SnapsAreLists'
  BY <1>9 DEF RenameFails, Move, getVars, sweepVars
<1>10. ASSUME NEW p \in Puts, Open(p) PROVE SnapsAreLists'
  BY <1>10 DEF Open, Move, getVars, sweepVars, SweepsAreSerial, TypeOK
<1>11. ASSUME NEW p \in Puts, OpenFails(p) PROVE SnapsAreLists'
  BY <1>11 DEF OpenFails, Move, getVars, sweepVars
<1>12. ASSUME NEW p \in Puts, OpenError(p) PROVE SnapsAreLists'
  BY <1>12 DEF OpenError, Move, getVars, sweepVars
<1>13. ASSUME NEW p \in Puts, Cleanup(p) PROVE SnapsAreLists'
  BY <1>13 DEF Cleanup, Move, getVars, sweepVars
<1>14. ASSUME NEW p \in Puts, Unlimited(p) PROVE SnapsAreLists'
  BY <1>14 DEF Unlimited, getVars, TypeOK
<1>15. ASSUME NEW p \in Puts, Lock(p) PROVE SnapsAreLists'
  <2>1. snap' = snap /\ snap[p] = {} /\ \A q \in Puts \ {p} : names'[q] = names[q]
    BY <1>15 DEF Lock, Scan
  <2>2. \A q \in Puts \ {p} : Sweeping(q)' <=> Sweeping(q)
    BY <1>15 DEF Lock, Scan, TypeOK
  <2>3. Sweeping(p)'
    BY <1>15 DEF Lock, Scan, TypeOK
  <2> QED BY <2>1, <2>2, <2>3
<1>16. ASSUME NEW p \in Puts, ReadDirFails(p) PROVE SnapsAreLists'
  BY <1>16 DEF ReadDirFails, getVars, TypeOK
<1>17. ASSUME NEW p \in Puts, Stat(p) PROVE SnapsAreLists'
  <2>1. PICK k \in names[p] :
            /\ names' = [names EXCEPT ![p] = @ \ {k}]
            /\ snap' = [snap EXCEPT ![p] = @ \cup
                 {[key |-> k, size |-> SizeOf[f.put], mtime |-> f.mtime] : f \in {main[k]} \ {None}}]
    BY <1>17 DEF Stat
  <2> DEFINE new == {[key |-> k, size |-> SizeOf[f.put], mtime |-> f.mtime] : f \in {main[k]} \ {None}}
  <2>2. IsFiniteSet(new) /\ (\A e, o \in new : e = o) /\ \A e \in new : e.key = k
    <3>1. CASE main[k] = None
      <4>1. new = {}
        BY <3>1
      <4> QED BY <4>1, FS_EmptySet
    <3>2. CASE main[k] # None
      <4> DEFINE r == [key |-> k, size |-> SizeOf[main[k].put], mtime |-> main[k].mtime]
      <4>1. new = {r}
        BY <3>2
      <4>2. r.key = k
        OBVIOUS
      <4> HIDE DEF r, new
      <4> QED BY <4>1, <4>2, FS_Singleton
    <3> QED BY <3>1, <3>2
  <2> HIDE DEF new
  <2>3. snap'[p] = snap[p] \cup new /\ \A q \in Puts \ {p} : snap'[q] = snap[q] /\ names'[q] = names[q]
    BY <2>1 DEF new
  <2>4. names'[p] = names[p] \ {k} /\ sweep' = sweep /\ Sweeping(p)
    BY <2>1, <1>17 DEF Stat, Sweeping
  <2>5. IsFiniteSet(snap[p] \cup new)
    BY <2>2, FS_Union
  <2>6. \A e \in snap[p] : e.key # k
    BY <2>1
  <2>7. \A e, o \in snap'[p] : e.key = o.key => e = o
    BY <2>2, <2>3, <2>6
  <2>8. \A e \in snap'[p] : e.key \notin names'[p]
    BY <2>2, <2>3, <2>4
  <2> QED BY <2>2, <2>3, <2>4, <2>5, <2>7, <2>8
<1>18. ASSUME NEW p \in Puts, RemoveMain(p) PROVE SnapsAreLists'
  <2>1. PICK e \in snap[p] : snap' = [snap EXCEPT ![p] = @ \ {e}]
    BY <1>18 DEF RemoveMain, Oldest
  <2>2. IsFiniteSet(snap[p] \ {e})
    BY FS_Subset
  <2>3. snap'[p] = snap[p] \ {e} /\ \A q \in Puts \ {p} : snap'[q] = snap[q]
    BY <2>1
  <2>4. names' = names /\ \A q \in Puts : Sweeping(q)' <=> Sweeping(q)
    BY <1>18 DEF RemoveMain, TypeOK
  <2> QED BY <2>2, <2>3, <2>4
<1>19. ASSUME NEW p \in Puts, RemoveSide(p) PROVE SnapsAreLists'
  BY <1>19 DEF RemoveSide, getVars, TypeOK
<1>20. ASSUME NEW p \in Puts, Unlock(p) PROVE SnapsAreLists'
  <2>1. snap'[p] = {} /\ names' = names /\ \A q \in Puts \ {p} : snap'[q] = snap[q]
    BY <1>20 DEF Unlock
  <2>2. \A q \in Puts \ {p} : Sweeping(q)' <=> Sweeping(q)
    BY <1>20 DEF Unlock, TypeOK
  <2> QED BY <2>1, <2>2, FS_EmptySet
<1>21. ASSUME NEW g \in Gets, ReadSidecar(g) PROVE SnapsAreLists'
  BY <1>21 DEF ReadSidecar, Move, getVars, sweepVars
<1>22. ASSUME NEW g \in Gets, OpenMain(g) PROVE SnapsAreLists'
  BY <1>22 DEF OpenMain, Move, getVars, sweepVars, Tick
<1>23. ASSUME NEW g \in Gets, Touch(g) PROVE SnapsAreLists'
  BY <1>23 DEF Touch, Move, getVars, sweepVars, Forget
<1>24. ASSUME NEW g \in Gets, Miss(g) PROVE SnapsAreLists'
  BY <1>24 DEF Miss, Move, getVars, sweepVars, Forget
<1>25. CASE Crash
  <2>1. \A q \in Puts : snap'[q] = {}
    BY <1>25 DEF Crash
  <2> QED BY <2>1, FS_EmptySet
<1>26. CASE UNCHANGED vars
  BY <1>26 DEF vars, getVars, sweepVars
<1> QED BY <1>1, <1>2, <1>3, <1>4, <1>5, <1>6, <1>7, <1>8, <1>9, <1>10, <1>11, <1>12, <1>13, <1>14, <1>15, <1>16, <1>17, <1>18, <1>19, <1>20, <1>21, <1>22, <1>23, <1>24, <1>25, <1>26 DEF Next, Put, Get, Sweep, AllDone

LEMMA OnDiskStep ==
    ASSUME TypeOK, KeysAreKnown, IsFiniteSet(OnDisk), [Next]_vars
    PROVE  IsFiniteSet(OnDisk')
<1>1. \E k : OnDisk' \subseteq OnDisk \cup {k}
  <2>1. ASSUME NEW p \in Puts, Rename(p) PROVE OnDisk' \subseteq OnDisk \cup {key[p]}
    BY <2>1 DEF Rename, OnDisk, TypeOK
  <2>2. ASSUME NEW p \in Puts, RemoveMain(p) PROVE OnDisk' \subseteq OnDisk
    BY <2>2 DEF RemoveMain, OnDisk, TypeOK
  <2>3. ASSUME NEW g \in Gets, Touch(g) PROVE OnDisk' \subseteq OnDisk
    BY <2>3 DEF Touch, OnDisk, TypeOK
  <2>4. \/ main' = main \/ (\E p \in Puts : Rename(p) \/ RemoveMain(p)) \/ (\E g \in Gets : Touch(g))
    BY DEF Next, Put, Get, Sweep, AllDone, vars, CreateTempFails, CreateTemp, Copy, CopyFails, TruncateSidecar, WriteSidecar, SidecarFails, RenameFails, Open, OpenFails, OpenError, Cleanup, Unlimited, Lock, Scan, ReadDirFails, Stat, RemoveSide, Unlock, ReadSidecar, OpenMain, Miss, Crash
  <2>5. CASE main' = main
    BY <2>5 DEF OnDisk
  <2> QED BY <2>1, <2>2, <2>3, <2>4, <2>5
<1>2. PICK k : OnDisk' \subseteq OnDisk \cup {k}
  BY <1>1
<1>3. IsFiniteSet(OnDisk \cup {k})
  BY FS_AddElement
<1> QED BY <1>2, <1>3, FS_Subset

\* While a sweep runs, what a later one will see it will still see.
LEMMA LaterStays ==
    ASSUME TypeOK, KeysAreKnown, SweepsAreSerial, NEW r \in Puts, Sweeping(r), Sweeping(r)',
           NEW k \in Keys, Later(k), main'[k] # None, [Next]_vars
    PROVE  Later(k)'
<1>a. /\ key \in [Calls -> Keys \cup {None}] /\ sweep \in [Puts -> {"none", "lock", "scan", "rmside", "done", "unread", "dead"}]
      /\ pc \in [Calls -> {"idle", "copy", "truncate", "write", "rename", "open", "cleanup",
                           "touch", "done", "failed", "swept", "unopened", "dead"}]
  BY DEF TypeOK
<1>b. mutex = r /\ mutex # None /\ maxBytes > 0
  BY NamesDiffer DEF SweepsAreSerial, Contents
<1>c. PICK q \in Puts : key[q] = k /\ (pc[q] \in {"open", "unopened"} \/ sweep[q] \in {"lock", "unread"})
  BY DEF Later
<1>d. k # None
  BY NamesDiffer
<1> USE <1>a, <1>b, <1>c, <1>d, CallsAreOneThing DEF KeysAreKnown, Calls
<1>1. ASSUME NEW p \in Puts, CreateTempFails(p) PROVE Later(k)'
  BY <1>1 DEF CreateTempFails, Move, getVars, sweepVars, Later
<1>2. ASSUME NEW p \in Puts, CreateTemp(p) PROVE Later(k)'
  BY <1>2 DEF CreateTemp, Move, getVars, sweepVars, Later
<1>3. ASSUME NEW p \in Puts, Copy(p) PROVE Later(k)'
  BY <1>3 DEF Copy, Move, getVars, sweepVars, Tick, Later
<1>4. ASSUME NEW p \in Puts, CopyFails(p) PROVE Later(k)'
  BY <1>4 DEF CopyFails, Move, getVars, sweepVars, Later
<1>5. ASSUME NEW p \in Puts, TruncateSidecar(p) PROVE Later(k)'
  BY <1>5 DEF TruncateSidecar, Move, getVars, sweepVars, Later
<1>6. ASSUME NEW p \in Puts, WriteSidecar(p) PROVE Later(k)'
  BY <1>6 DEF WriteSidecar, Move, getVars, sweepVars, Later
<1>7. ASSUME NEW p \in Puts, SidecarFails(p) PROVE Later(k)'
  BY <1>7 DEF SidecarFails, Move, getVars, sweepVars, Later
<1>8. ASSUME NEW p \in Puts, Rename(p) PROVE Later(k)'
  BY <1>8 DEF Rename, Move, getVars, sweepVars, Later
<1>9. ASSUME NEW p \in Puts, RenameFails(p) PROVE Later(k)'
  BY <1>9 DEF RenameFails, Move, getVars, sweepVars, Later
<1>10. ASSUME NEW p \in Puts, Open(p) PROVE Later(k)'
  BY <1>10 DEF Open, Move, getVars, sweepVars, Later
<1>11. ASSUME NEW p \in Puts, OpenFails(p) PROVE Later(k)'
  BY <1>11 DEF OpenFails, Move, getVars, sweepVars, Later
<1>12. ASSUME NEW p \in Puts, OpenError(p) PROVE Later(k)'
  BY <1>12 DEF OpenError, Move, getVars, sweepVars, Later
<1>13. ASSUME NEW p \in Puts, Cleanup(p) PROVE Later(k)'
  BY <1>13 DEF Cleanup, Move, getVars, sweepVars, Later
<1>14. ASSUME NEW p \in Puts, Unlimited(p) PROVE Later(k)'
  BY <1>14 DEF Unlimited, getVars, Later
<1>15. ASSUME NEW p \in Puts, Lock(p) PROVE Later(k)'
  BY <1>15 DEF Lock, Scan, getVars, Later
<1>16. ASSUME NEW p \in Puts, ReadDirFails(p) PROVE Later(k)'
  BY <1>16 DEF ReadDirFails, getVars, Later
<1>17. ASSUME NEW p \in Puts, Stat(p) PROVE Later(k)'
  BY <1>17 DEF Stat, getVars, Later
<1>18. ASSUME NEW p \in Puts, RemoveMain(p) PROVE Later(k)'
  BY <1>18 DEF RemoveMain, getVars, Oldest, Later
<1>19. ASSUME NEW p \in Puts, RemoveSide(p) PROVE Later(k)'
  BY <1>19 DEF RemoveSide, getVars, Later
<1>20. ASSUME NEW p \in Puts, Unlock(p) PROVE Later(k)'
  BY <1>20 DEF Unlock, getVars, Later
<1>21. ASSUME NEW g \in Gets, ReadSidecar(g) PROVE Later(k)'
  BY <1>21 DEF ReadSidecar, Move, getVars, sweepVars, Later
<1>22. ASSUME NEW g \in Gets, OpenMain(g) PROVE Later(k)'
  BY <1>22 DEF OpenMain, Move, getVars, sweepVars, Tick, Later
<1>23. ASSUME NEW g \in Gets, Touch(g) PROVE Later(k)'
  BY <1>23 DEF Touch, Move, getVars, sweepVars, Forget, Later
<1>24. ASSUME NEW g \in Gets, Miss(g) PROVE Later(k)'
  BY <1>24 DEF Miss, Move, getVars, sweepVars, Forget, Later
<1>25. CASE Crash
  BY <1>25 DEF Crash, Sweeping, Later
<1>26. CASE UNCHANGED vars
  BY <1>26 DEF vars, getVars, sweepVars, Later
<1> QED BY <1>1, <1>2, <1>3, <1>4, <1>5, <1>6, <1>7, <1>8, <1>9, <1>10, <1>11, <1>12, <1>13, <1>14, <1>15, <1>16, <1>17, <1>18, <1>19, <1>20, <1>21, <1>22, <1>23, <1>24, <1>25, <1>26 DEF Next, Put, Get, Sweep, AllDone

LEMMA SeesStep ==
    ASSUME TypeOK, KeysAreKnown, SweepsAreSerial, SweepsSeeAll, [Next]_vars
    PROVE  SweepsSeeAll'
<1>a. /\ main \in [Keys -> Files \cup {None}] /\ key \in [Calls -> Keys \cup {None}]
      /\ names \in [Puts -> SUBSET Keys] /\ sweep \in [Puts -> {"none", "lock", "scan", "rmside", "done", "unread", "dead"}]
      /\ snap \in [Puts -> SUBSET [key : Keys, size : Nat, mtime : Nat]]
  BY DEF TypeOK
<1>b. \A r \in Puts, k \in Keys : Sweeping(r) /\ Sweeping(r)' /\ main'[k] # None /\ Later(k) => Later(k)'
  BY LaterStays
<1> USE <1>a DEF SweepsSeeAll, Sweeping
<1>1. ASSUME NEW p \in Puts, CreateTempFails(p) PROVE SweepsSeeAll'
  <2>1. main' = main /\ names' = names /\ snap' = snap /\ \A q \in Puts : Sweeping(q)' => Sweeping(q)
    BY <1>1 DEF CreateTempFails, Move, getVars, sweepVars
  <2> QED BY <1>b, <2>1 DEF Sees
<1>2. ASSUME NEW p \in Puts, CreateTemp(p) PROVE SweepsSeeAll'
  <2>1. main' = main /\ names' = names /\ snap' = snap /\ \A q \in Puts : Sweeping(q)' => Sweeping(q)
    BY <1>2 DEF CreateTemp, Move, getVars, sweepVars
  <2> QED BY <1>b, <2>1 DEF Sees
<1>3. ASSUME NEW p \in Puts, Copy(p) PROVE SweepsSeeAll'
  <2>1. main' = main /\ names' = names /\ snap' = snap /\ \A q \in Puts : Sweeping(q)' => Sweeping(q)
    BY <1>3 DEF Copy, Move, getVars, sweepVars, Tick
  <2> QED BY <1>b, <2>1 DEF Sees
<1>4. ASSUME NEW p \in Puts, CopyFails(p) PROVE SweepsSeeAll'
  <2>1. main' = main /\ names' = names /\ snap' = snap /\ \A q \in Puts : Sweeping(q)' => Sweeping(q)
    BY <1>4 DEF CopyFails, Move, getVars, sweepVars
  <2> QED BY <1>b, <2>1 DEF Sees
<1>5. ASSUME NEW p \in Puts, TruncateSidecar(p) PROVE SweepsSeeAll'
  <2>1. main' = main /\ names' = names /\ snap' = snap /\ \A q \in Puts : Sweeping(q)' => Sweeping(q)
    BY <1>5 DEF TruncateSidecar, Move, getVars, sweepVars
  <2> QED BY <1>b, <2>1 DEF Sees
<1>6. ASSUME NEW p \in Puts, WriteSidecar(p) PROVE SweepsSeeAll'
  <2>1. main' = main /\ names' = names /\ snap' = snap /\ \A q \in Puts : Sweeping(q)' => Sweeping(q)
    BY <1>6 DEF WriteSidecar, Move, getVars, sweepVars
  <2> QED BY <1>b, <2>1 DEF Sees
<1>7. ASSUME NEW p \in Puts, SidecarFails(p) PROVE SweepsSeeAll'
  <2>1. main' = main /\ names' = names /\ snap' = snap /\ \A q \in Puts : Sweeping(q)' => Sweeping(q)
    BY <1>7 DEF SidecarFails, Move, getVars, sweepVars
  <2> QED BY <1>b, <2>1 DEF Sees
<1>8. ASSUME NEW p \in Puts, Rename(p) PROVE SweepsSeeAll'
  <2>1. sweep' = sweep /\ names' = names /\ snap' = snap /\ pc'[p] = "open" /\ key' = key
    BY <1>8, <1>a DEF Rename, Move, sweepVars, TypeOK, Calls
  <2>2. ASSUME NEW r \in Puts, Sweeping(r)', NEW k \in Keys, main'[k] # None PROVE Sees(r, k)'
    <3>1. CASE k = key[p]
      BY <2>1, <3>1 DEF Sees, Later
    <3>2. CASE k # key[p]
      <4>1. main'[k] = main[k] /\ Sweeping(r)
        BY <2>1, <2>2, <3>2, <1>8 DEF Rename
      <4>2. Sees(r, k)
        BY <2>2, <4>1
      <4> QED BY <2>1, <2>2, <4>1, <4>2, <1>b DEF Sees
    <3> QED BY <3>1, <3>2
  <2> QED BY <2>2
<1>9. ASSUME NEW p \in Puts, RenameFails(p) PROVE SweepsSeeAll'
  <2>1. main' = main /\ names' = names /\ snap' = snap /\ \A q \in Puts : Sweeping(q)' => Sweeping(q)
    BY <1>9 DEF RenameFails, Move, getVars, sweepVars
  <2> QED BY <1>b, <2>1 DEF Sees
<1>10. ASSUME NEW p \in Puts, Open(p) PROVE SweepsSeeAll'
  <2>1. main' = main /\ names' = names /\ snap' = snap /\ \A q \in Puts : Sweeping(q)' => Sweeping(q)
    BY <1>10 DEF Open, Move, getVars, sweepVars
  <2> QED BY <1>b, <2>1 DEF Sees
<1>11. ASSUME NEW p \in Puts, OpenFails(p) PROVE SweepsSeeAll'
  <2>1. main' = main /\ names' = names /\ snap' = snap /\ \A q \in Puts : Sweeping(q)' => Sweeping(q)
    BY <1>11 DEF OpenFails, Move, getVars, sweepVars
  <2> QED BY <1>b, <2>1 DEF Sees
<1>12. ASSUME NEW p \in Puts, OpenError(p) PROVE SweepsSeeAll'
  <2>1. main' = main /\ names' = names /\ snap' = snap /\ \A q \in Puts : Sweeping(q)' => Sweeping(q)
    BY <1>12 DEF OpenError, Move, getVars, sweepVars
  <2> QED BY <1>b, <2>1 DEF Sees
<1>13. ASSUME NEW p \in Puts, Cleanup(p) PROVE SweepsSeeAll'
  <2>1. main' = main /\ names' = names /\ snap' = snap /\ \A q \in Puts : Sweeping(q)' => Sweeping(q)
    BY <1>13 DEF Cleanup, Move, getVars, sweepVars
  <2> QED BY <1>b, <2>1 DEF Sees
<1>14. ASSUME NEW p \in Puts, Unlimited(p) PROVE SweepsSeeAll'
  <2>1. main' = main /\ names' = names /\ snap' = snap /\ \A q \in Puts : Sweeping(q)' => Sweeping(q)
    BY <1>14 DEF Unlimited, getVars
  <2> QED BY <1>b, <2>1 DEF Sees
<1>15. ASSUME NEW p \in Puts, Lock(p) PROVE SweepsSeeAll'
  <2>1. names'[p] = {k \in Keys : main[k] # None} /\ main' = main /\ snap' = snap
    BY <1>15 DEF Lock, Scan
  <2>2. \A q \in Puts \ {p} : names'[q] = names[q] /\ (Sweeping(q)' <=> Sweeping(q))
    BY <1>15 DEF Lock, Scan
  <2>3. ASSUME NEW r \in Puts, Sweeping(r)', NEW k \in Keys, main'[k] # None PROVE Sees(r, k)'
    <3>1. CASE r = p
      BY <2>1, <2>3, <3>1 DEF Sees
    <3>2. CASE r # p
      BY <1>b, <2>1, <2>2, <2>3, <3>2 DEF Sees
    <3> QED BY <3>1, <3>2
  <2> QED BY <2>3
<1>16. ASSUME NEW p \in Puts, ReadDirFails(p) PROVE SweepsSeeAll'
  <2>1. main' = main /\ names' = names /\ snap' = snap /\ \A q \in Puts : Sweeping(q)' => Sweeping(q)
    BY <1>16 DEF ReadDirFails, getVars
  <2> QED BY <1>b, <2>1 DEF Sees
<1>17. ASSUME NEW p \in Puts, Stat(p) PROVE SweepsSeeAll'
  <2>1. PICK j \in names[p] :
            /\ names' = [names EXCEPT ![p] = @ \ {j}]
            /\ snap' = [snap EXCEPT ![p] = @ \cup
                 {[key |-> j, size |-> SizeOf[f.put], mtime |-> f.mtime] : f \in {main[j]} \ {None}}]
    BY <1>17 DEF Stat
  <2>2. main' = main /\ sweep' = sweep
    BY <1>17 DEF Stat
  <2>3. main[j] # None => \E e \in snap'[p] : e.key = j /\ e.size = SizeOf[main[j].put]
    <3> DEFINE e == [key |-> j, size |-> SizeOf[main[j].put], mtime |-> main[j].mtime]
    <3>1. main[j] # None => e \in snap'[p]
      BY <2>1
    <3>2. e.key = j /\ e.size = SizeOf[main[j].put]
      OBVIOUS
    <3> HIDE DEF e
    <3> QED BY <3>1, <3>2
  <2>4. \A q \in Puts : snap[q] \subseteq snap'[q]
    BY <2>1
  <2>5. \A q \in Puts : names[q] \ {j} \subseteq names'[q] /\ (q # p => names'[q] = names[q])
    BY <2>1
  <2>6. ASSUME NEW r \in Puts, Sweeping(r)', NEW k \in Keys, main'[k] # None PROVE Sees(r, k)'
    <3>1. Sees(r, k) /\ Sweeping(r)
      BY <2>2, <2>6
    <3>2. CASE k \in names[r]
      BY <2>2, <2>3, <2>5, <2>6, <3>2 DEF Sees
    <3>3. CASE k \notin names[r]
      BY <1>b, <2>2, <2>4, <2>6, <3>1, <3>3 DEF Sees
    <3> QED BY <3>2, <3>3
  <2> QED BY <2>6
<1>18. ASSUME NEW p \in Puts, RemoveMain(p) PROVE SweepsSeeAll'
  <2>1. PICK o \in snap[p] : main' = [main EXCEPT ![o.key] = None] /\ snap' = [snap EXCEPT ![p] = @ \ {o}]
    BY <1>18 DEF RemoveMain, Oldest
  <2>2. names' = names /\ \A q \in Puts : Sweeping(q)' <=> Sweeping(q)
    BY <1>18 DEF RemoveMain
  <2>3. ASSUME NEW r \in Puts, Sweeping(r)', NEW k \in Keys, main'[k] # None PROVE Sees(r, k)'
    <3>1. k # o.key /\ main'[k] = main[k]
      BY <2>1, <2>3
    <3>2. Sees(r, k) /\ Sweeping(r)
      BY <2>2, <2>3, <3>1
    <3>3. \A e \in snap[r] : e.key = k => e \in snap'[r]
      BY <2>1, <3>1
    <3> QED BY <1>b, <2>2, <2>3, <3>1, <3>2, <3>3 DEF Sees
  <2> QED BY <2>3
<1>19. ASSUME NEW p \in Puts, RemoveSide(p) PROVE SweepsSeeAll'
  <2>1. main' = main /\ names' = names /\ snap' = snap /\ \A q \in Puts : Sweeping(q)' => Sweeping(q)
    BY <1>19 DEF RemoveSide, getVars
  <2> QED BY <1>b, <2>1 DEF Sees
<1>20. ASSUME NEW p \in Puts, Unlock(p) PROVE SweepsSeeAll'
  <2>1. main' = main /\ names' = names /\ ~Sweeping(p)'
    BY <1>20 DEF Unlock
  <2>2. \A q \in Puts \ {p} : snap'[q] = snap[q] /\ (Sweeping(q)' <=> Sweeping(q))
    BY <1>20 DEF Unlock
  <2> QED BY <1>b, <2>1, <2>2 DEF Sees
<1>21. ASSUME NEW g \in Gets, ReadSidecar(g) PROVE SweepsSeeAll'
  <2>1. main' = main /\ names' = names /\ snap' = snap /\ \A q \in Puts : Sweeping(q)' => Sweeping(q)
    BY <1>21 DEF ReadSidecar, Move, getVars, sweepVars
  <2> QED BY <1>b, <2>1 DEF Sees
<1>22. ASSUME NEW g \in Gets, OpenMain(g) PROVE SweepsSeeAll'
  <2>1. main' = main /\ names' = names /\ snap' = snap /\ \A q \in Puts : Sweeping(q)' => Sweeping(q)
    BY <1>22 DEF OpenMain, Move, getVars, sweepVars, Tick
  <2> QED BY <1>b, <2>1 DEF Sees
<1>23. ASSUME NEW g \in Gets, Touch(g) PROVE SweepsSeeAll'
  <2>1. sweep' = sweep /\ names' = names /\ snap' = snap
    BY <1>23 DEF Touch, sweepVars
  <2>2. ASSUME NEW r \in Puts, Sweeping(r)', NEW k \in Keys, main'[k] # None PROVE Sees(r, k)'
    <3>1. main[k] # None /\ main'[k].put = main[k].put /\ Sweeping(r)
      BY <2>1, <2>2, <1>23 DEF Touch, Files
    <3> QED BY <1>b, <2>1, <2>2, <3>1 DEF Sees
  <2> QED BY <2>2
<1>24. ASSUME NEW g \in Gets, Miss(g) PROVE SweepsSeeAll'
  <2>1. main' = main /\ names' = names /\ snap' = snap /\ \A q \in Puts : Sweeping(q)' => Sweeping(q)
    BY <1>24 DEF Miss, Move, getVars, sweepVars, Forget
  <2> QED BY <1>b, <2>1 DEF Sees
<1>25. CASE Crash
  BY <1>25 DEF Crash
<1>26. CASE UNCHANGED vars
  <2>1. main' = main /\ names' = names /\ snap' = snap /\ sweep' = sweep
    BY <1>26 DEF vars
  <2> QED BY <1>b, <2>1 DEF Sees
<1> QED BY <1>1, <1>2, <1>3, <1>4, <1>5, <1>6, <1>7, <1>8, <1>9, <1>10, <1>11, <1>12, <1>13, <1>14, <1>15, <1>16, <1>17, <1>18, <1>19, <1>20, <1>21, <1>22, <1>23, <1>24, <1>25, <1>26 DEF Next, Put, Get, Sweep, AllDone

\* A key once taken is never let go of: what is stored once at most after a step was so before it.
LEMMA SoleBefore ==
    ASSUME TypeOK, KeysAreKnown, [Next]_vars, NEW k \in Keys, Sole(k)'
    PROVE  Sole(k)
<1>1. ASSUME NEW q \in Puts, key[q] = k PROVE key'[q] = k
  <2>1. key[q] # None /\ q \notin Gets /\ pc[q] # "idle"
    BY <1>1, NamesDiffer, CallsAreOneThing DEF KeysAreKnown
  <2>2. ASSUME NEW p \in Puts, CreateTemp(p) PROVE key'[q] = key[q]
    BY <2>1, <2>2 DEF CreateTemp, Move, TypeOK, Calls
  <2>3. ASSUME NEW g \in Gets, Forget(g) \/ ReadSidecar(g) PROVE key'[q] = key[q]
    BY <2>1, <2>3 DEF Forget, ReadSidecar, TypeOK, Calls
  <2>4. CASE Crash
    BY <1>1, <2>1, <2>4 DEF Crash, Calls
  <2>5. \/ key' = key \/ Crash \/ (\E p \in Puts : CreateTemp(p))
        \/ \E g \in Gets : Forget(g) \/ ReadSidecar(g)
    BY DEF Next, Put, Get, Sweep, AllDone, vars, CreateTempFails, Copy, CopyFails, TruncateSidecar, WriteSidecar, SidecarFails, Rename, RenameFails, Open, OpenFails, OpenError, Cleanup, Unlimited, Lock, Scan, ReadDirFails, Stat, RemoveMain, RemoveSide, Unlock, OpenMain, Touch, Miss
  <2> QED BY <1>1, <2>2, <2>3, <2>4, <2>5
<1> QED BY <1>1 DEF Sole

LEMMA TrueStep ==
    ASSUME TypeOK, KeysAreKnown, SweptWasBorn, SweepsAreSerial, SnapsAreLists, SnapsAreTrue, [Next]_vars
    PROVE  SnapsAreTrue'
<1>a. /\ main \in [Keys -> Files \cup {None}] /\ key \in [Calls -> Keys \cup {None}]
      /\ snap \in [Puts -> SUBSET [key : Keys, size : Nat, mtime : Nat]]
  BY DEF TypeOK
<1>b. (\A k \in Keys : Sole(k))' => \A k \in Keys : Sole(k)
  BY SoleBefore
<1>c. \A p \in Puts : \A e \in snap[p] : e.key \in Keys /\ Born(e.key)
  BY <1>a DEF SweptWasBorn
<1>d. \A p \in Puts : snap[p] # {} => Sweeping(p) /\ mutex = p
  BY DEF SnapsAreLists, SweepsAreSerial
<1> USE <1>a DEF SnapsAreTrue
<1>1. ASSUME NEW p \in Puts, CreateTempFails(p) PROVE SnapsAreTrue'
  <2>1. main' = main /\ snap' = snap
    BY <1>1 DEF CreateTempFails, Move, getVars, sweepVars
  <2> QED BY <1>b, <2>1
<1>2. ASSUME NEW p \in Puts, CreateTemp(p) PROVE SnapsAreTrue'
  <2>1. main' = main /\ snap' = snap
    BY <1>2 DEF CreateTemp, Move, getVars, sweepVars
  <2> QED BY <1>b, <2>1
<1>3. ASSUME NEW p \in Puts, Copy(p) PROVE SnapsAreTrue'
  <2>1. main' = main /\ snap' = snap
    BY <1>3 DEF Copy, Move, getVars, sweepVars, Tick
  <2> QED BY <1>b, <2>1
<1>4. ASSUME NEW p \in Puts, CopyFails(p) PROVE SnapsAreTrue'
  <2>1. main' = main /\ snap' = snap
    BY <1>4 DEF CopyFails, Move, getVars, sweepVars
  <2> QED BY <1>b, <2>1
<1>5. ASSUME NEW p \in Puts, TruncateSidecar(p) PROVE SnapsAreTrue'
  <2>1. main' = main /\ snap' = snap
    BY <1>5 DEF TruncateSidecar, Move, getVars, sweepVars
  <2> QED BY <1>b, <2>1
<1>6. ASSUME NEW p \in Puts, WriteSidecar(p) PROVE SnapsAreTrue'
  <2>1. main' = main /\ snap' = snap
    BY <1>6 DEF WriteSidecar, Move, getVars, sweepVars
  <2> QED BY <1>b, <2>1
<1>7. ASSUME NEW p \in Puts, SidecarFails(p) PROVE SnapsAreTrue'
  <2>1. main' = main /\ snap' = snap
    BY <1>7 DEF SidecarFails, Move, getVars, sweepVars
  <2> QED BY <1>b, <2>1
<1>8. ASSUME NEW p \in Puts, Rename(p) PROVE SnapsAreTrue'
  <2>1. snap' = snap /\ key' = key /\ pc[p] = "rename" /\ \A k \in Keys : k # key[p] => main'[k] = main[k]
    BY <1>8 DEF Rename, Move, sweepVars
  <2>2. ASSUME \A k \in Keys : Sole(k), NEW q \in Puts, NEW e \in snap[q] PROVE e.key # key[p]
    <3>1. e.key \in Keys /\ Born(e.key) /\ Sole(e.key)
      BY <1>c, <2>2
    <3> QED BY <2>1, <3>1 DEF Born, Sole
  <2> QED BY <1>b, <1>c, <2>1, <2>2
<1>9. ASSUME NEW p \in Puts, RenameFails(p) PROVE SnapsAreTrue'
  <2>1. main' = main /\ snap' = snap
    BY <1>9 DEF RenameFails, Move, getVars, sweepVars
  <2> QED BY <1>b, <2>1
<1>10. ASSUME NEW p \in Puts, Open(p) PROVE SnapsAreTrue'
  <2>1. main' = main /\ snap' = snap
    BY <1>10 DEF Open, Move, getVars, sweepVars
  <2> QED BY <1>b, <2>1
<1>11. ASSUME NEW p \in Puts, OpenFails(p) PROVE SnapsAreTrue'
  <2>1. main' = main /\ snap' = snap
    BY <1>11 DEF OpenFails, Move, getVars, sweepVars
  <2> QED BY <1>b, <2>1
<1>12. ASSUME NEW p \in Puts, OpenError(p) PROVE SnapsAreTrue'
  <2>1. main' = main /\ snap' = snap
    BY <1>12 DEF OpenError, Move, getVars, sweepVars
  <2> QED BY <1>b, <2>1
<1>13. ASSUME NEW p \in Puts, Cleanup(p) PROVE SnapsAreTrue'
  <2>1. main' = main /\ snap' = snap
    BY <1>13 DEF Cleanup, Move, getVars, sweepVars
  <2> QED BY <1>b, <2>1
<1>14. ASSUME NEW p \in Puts, Unlimited(p) PROVE SnapsAreTrue'
  <2>1. main' = main /\ snap' = snap
    BY <1>14 DEF Unlimited, getVars
  <2> QED BY <1>b, <2>1
<1>15. ASSUME NEW p \in Puts, Lock(p) PROVE SnapsAreTrue'
  <2>1. main' = main /\ snap' = snap
    BY <1>15 DEF Lock, Scan, getVars
  <2> QED BY <1>b, <2>1
<1>16. ASSUME NEW p \in Puts, ReadDirFails(p) PROVE SnapsAreTrue'
  <2>1. main' = main /\ snap' = snap
    BY <1>16 DEF ReadDirFails, getVars
  <2> QED BY <1>b, <2>1
<1>17. ASSUME NEW p \in Puts, Stat(p) PROVE SnapsAreTrue'
  <2>1. PICK j \in names[p] :
            snap' = [snap EXCEPT ![p] = @ \cup
                 {[key |-> j, size |-> SizeOf[f.put], mtime |-> f.mtime] : f \in {main[j]} \ {None}}]
    BY <1>17 DEF Stat
  <2>2. main' = main
    BY <1>17 DEF Stat
  <2>3. \A q \in Puts : \A e \in snap'[q] :
            e \in snap[q] \/ (main[j] # None /\ e.key = j /\ e.size = SizeOf[main[j].put])
    BY <2>1
  <2> QED BY <1>b, <2>2, <2>3
<1>18. ASSUME NEW p \in Puts, RemoveMain(p) PROVE SnapsAreTrue'
  <2>1. PICK o \in snap[p] : main' = [main EXCEPT ![o.key] = None] /\ snap' = [snap EXCEPT ![p] = @ \ {o}]
    BY <1>18 DEF RemoveMain, Oldest
  <2>2. \A q \in Puts \ {p} : snap[q] = {}
    BY <1>d, <2>1
  <2>3. \A q \in Puts : \A e \in snap'[q] : q = p /\ e \in snap[p] /\ e # o
    BY <2>1, <2>2
  <2>4. \A e \in snap[p] : e # o => e.key # o.key
    BY <2>1 DEF SnapsAreLists
  <2>5. \A e \in snap[p] : e # o => main'[e.key] = main[e.key]
    BY <1>c, <2>1, <2>4
  <2> QED BY <1>b, <2>3, <2>5
<1>19. ASSUME NEW p \in Puts, RemoveSide(p) PROVE SnapsAreTrue'
  <2>1. main' = main /\ snap' = snap
    BY <1>19 DEF RemoveSide, getVars
  <2> QED BY <1>b, <2>1
<1>20. ASSUME NEW p \in Puts, Unlock(p) PROVE SnapsAreTrue'
  <2>1. main' = main /\ \A q \in Puts : snap'[q] \subseteq snap[q]
    BY <1>20 DEF Unlock
  <2> QED BY <1>b, <2>1
<1>21. ASSUME NEW g \in Gets, ReadSidecar(g) PROVE SnapsAreTrue'
  <2>1. main' = main /\ snap' = snap
    BY <1>21 DEF ReadSidecar, Move, getVars, sweepVars
  <2> QED BY <1>b, <2>1
<1>22. ASSUME NEW g \in Gets, OpenMain(g) PROVE SnapsAreTrue'
  <2>1. main' = main /\ snap' = snap
    BY <1>22 DEF OpenMain, Move, getVars, sweepVars, Tick
  <2> QED BY <1>b, <2>1
<1>23. ASSUME NEW g \in Gets, Touch(g) PROVE SnapsAreTrue'
  <2>1. snap' = snap /\ \A k \in Keys : k # key[g] => main'[k] = main[k]
    BY <1>23 DEF Touch, sweepVars
  <2>2. ASSUME key[g] \in Keys, main[key[g]] # None
        PROVE  main'[key[g]] # None /\ main'[key[g]].put = main[key[g]].put
    <3>1. main'[key[g]] = [main[key[g]] EXCEPT !.mtime = now[g]]
      BY <1>23, <2>2 DEF Touch
    <3>2. main[key[g]] \in Files
      BY <2>2
    <3>3. [main[key[g]] EXCEPT !.mtime = now[g]] \in Files
      BY <3>2 DEF Files, TypeOK
    <3>4. main'[key[g]] # None
      BY <3>1, <3>3, NamesDiffer DEF Files
    <3> QED BY <3>1, <3>2, <3>4 DEF Files
  <2> QED BY <1>b, <1>c, <2>1, <2>2
<1>24. ASSUME NEW g \in Gets, Miss(g) PROVE SnapsAreTrue'
  <2>1. main' = main /\ snap' = snap
    BY <1>24 DEF Miss, Move, getVars, sweepVars, Forget
  <2> QED BY <1>b, <2>1
<1>25. CASE Crash
  <2>1. \A q \in Puts : snap'[q] = {}
    BY <1>25 DEF Crash
  <2> QED BY <2>1
<1>26. CASE UNCHANGED vars
  <2>1. main' = main /\ snap' = snap
    BY <1>26 DEF vars
  <2> QED BY <1>b, <2>1
<1> QED BY <1>1, <1>2, <1>3, <1>4, <1>5, <1>6, <1>7, <1>8, <1>9, <1>10, <1>11, <1>12, <1>13, <1>14, <1>15, <1>16, <1>17, <1>18, <1>19, <1>20, <1>21, <1>22, <1>23, <1>24, <1>25, <1>26 DEF Next, Put, Get, Sweep, AllDone

\* What is known of sweeps holds of every reachable state.
THEOREM SweepInvariance == Spec => []SweepInd
<1>1. Init => SweepInd
  <2> SUFFICES ASSUME Init PROVE SweepInd
    OBVIOUS
  <2>1. OnDisk \subseteq OldKeys
    BY DEF Init, OnDisk
  <2>2. IsFiniteSet(OnDisk)
    BY <2>1, OldKeysAreKeys, FS_Subset
  <2>3. SweepsAreSerial /\ SweepsSeeAll /\ SnapsAreTrue
    BY DEF Init, SweepsAreSerial, SweepsSeeAll, SnapsAreTrue, Sweeping
  <2>4. SnapsAreLists
    BY FS_EmptySet DEF Init, SnapsAreLists
  <2> QED BY <2>2, <2>3, <2>4 DEF SweepInd
<1>2. Ind /\ SweepInd /\ [Next]_vars => SweepInd'
  <2> SUFFICES ASSUME Ind, SweepInd, [Next]_vars PROVE SweepInd'
    OBVIOUS
  <2>1. SweepsAreSerial'
    BY SerialStep DEF Ind, SweepInd
  <2>2. SnapsAreLists'
    BY ListsStep DEF Ind, SweepInd
  <2>3. IsFiniteSet(OnDisk')
    BY OnDiskStep DEF Ind, SweepInd
  <2>4. SweepsSeeAll'
    BY SeesStep DEF Ind, SweepInd
  <2>5. SnapsAreTrue'
    BY TrueStep DEF Ind, SweepInd
  <2> QED BY <2>1, <2>2, <2>3, <2>4, <2>5 DEF SweepInd
<1> QED BY DiskCacheInvariance, <1>1, <1>2, PTL DEF Spec

\* The sizes that sums are made of are naturals, and the sets finite.
LEMMA SizesAreKnown ==
    ASSUME Ind, SweepInd
    PROVE  /\ IsFiniteSet(OnDisk) /\ \A k \in OnDisk : SizeOf[main[k].put] \in Nat
           /\ \A p \in Puts : IsFiniteSet(snap[p]) /\ \A e \in snap[p] : e.size \in Nat /\ e.key \in Keys
           /\ maxBytes \in Nat
<1>1. IsFiniteSet(OnDisk) /\ \A p \in Puts : IsFiniteSet(snap[p])
  BY DEF SweepInd, SnapsAreLists
<1>2. main \in [Keys -> Files \cup {None}] /\ snap \in [Puts -> SUBSET [key : Keys, size : Nat, mtime : Nat]]
  BY DEF Ind, TypeOK
<1>3. \A k \in OnDisk : main[k].put \in Contents
  BY <1>2 DEF OnDisk, Files
<1>4. \A k \in OnDisk : SizeOf[main[k].put] \in Nat
  BY <1>3, SizesArePositive
<1>5. maxBytes \in Nat
  BY BudgetsAreNatural DEF Ind, TypeOK
<1> QED BY <1>1, <1>2, <1>4, <1>5

\* cache/cache.go:118-119: a sweep that ends has brought the cache within its budget, unless a Put
\* has stored something meanwhile.
THEOREM SweepsRestoreTheBudget == Spec => SweepRestoresBudget
<1> DEFINE Restored == \A p \in Puts : sweep[p] = "scan" /\ sweep'[p] = "done" =>
                           \/ DiskTotal <= maxBytes
                           \/ \E q \in Puts : pc[q] \in {"open", "unopened"} \/ sweep[q] \in {"lock", "unread"}
<1>1. ASSUME Ind, SweepInd, [Next]_vars PROVE Restored
  <2> USE <1>1
  <2> SUFFICES ASSUME NEW p \in Puts, sweep[p] = "scan", sweep'[p] = "done",
                      ~\E q \in Puts : pc[q] \in {"open", "unopened"} \/ sweep[q] \in {"lock", "unread"}
               PROVE  DiskTotal <= maxBytes
    OBVIOUS
  <2>1. sweep \in [Puts -> {"none", "lock", "scan", "rmside", "done", "unread", "dead"}]
    BY DEF Ind, TypeOK
  <2>2. Unlock(p)
    <3>1. ASSUME NEW q \in Puts, Sweep(q) PROVE Unlock(p)
      BY <2>1, <3>1 DEF Sweep, Unlimited, Lock, Scan, ReadDirFails, Stat, RemoveMain, RemoveSide, Unlock
    <3>2. ASSUME NEW q \in Puts, Open(q) PROVE FALSE
      BY <2>1, <3>2 DEF Open
    <3>3. sweep'[p] # sweep[p]
      OBVIOUS
    <3>4. CASE Crash
      BY <3>4 DEF Crash
    <3>5. ASSUME NEW q \in Puts, CreateTempFails(q) \/ CreateTemp(q) \/ (Put(q) /\ ~Open(q))
          PROVE  sweep' = sweep
      BY <3>5 DEF CreateTempFails, CreateTemp, Put, Copy, CopyFails, TruncateSidecar, WriteSidecar, SidecarFails, Rename, RenameFails, OpenFails, OpenError, Cleanup, sweepVars
    <3>6. ASSUME NEW g \in Gets, Get(g) PROVE sweep' = sweep
      BY <3>6 DEF Get, ReadSidecar, OpenMain, Touch, Miss, sweepVars
    <3>7. CASE UNCHANGED vars
      BY <3>7 DEF vars
    <3> QED BY <3>1, <3>2, <3>3, <3>4, <3>5, <3>6, <3>7 DEF Next, AllDone
  <2>3. names[p] = {} /\ Total(snap[p]) <= maxBytes
    BY <2>2 DEF Unlock
  <2> DEFINE E == snap[p]
             f == [e \in E |-> e.size]
             h == [k \in OnDisk |-> SizeOf[main[k].put]]
             m == [k \in OnDisk |-> CHOOSE e \in E : e.key = k /\ e.size = h[k]]
  <2>4. ASSUME NEW k \in OnDisk PROVE m[k] \in E /\ m[k].key = k /\ f[m[k]] = h[k]
    <3>1. Sees(p, k)
      BY DEF SweepInd, SweepsSeeAll, Sweeping, OnDisk
    <3>2. ~Later(k)
      BY DEF Later
    <3>3. \E e \in E : e.key = k /\ e.size = h[k]
      BY <2>3, <3>1, <3>2 DEF Sees
    <3>4. m[k] \in E /\ m[k].key = k /\ m[k].size = h[k]
      BY <3>3
    <3> HIDE DEF m
    <3> QED BY <3>4
  <2>5. /\ IsFiniteSet(E) /\ \A e \in E : e.size \in Nat /\ f[e] \in Nat
        /\ IsFiniteSet(OnDisk) /\ \A k \in OnDisk : SizeOf[main[k].put] \in Nat
        /\ maxBytes \in Nat
    BY SizesAreKnown
  <2>6. Total(E) = Cardinality(Units(f, E))
    BY <2>5, TotalIsUnits
  <2>7. DiskTotal = Cardinality(Units(h, OnDisk))
    BY <2>5, DiskTotalIsUnits
  <2>8. m \in [OnDisk -> E] /\ \A j, k \in OnDisk : m[j] = m[k] => j = k
    <3>1. \A k \in OnDisk : m[k] \in E /\ m[k].key = k
      BY <2>4
    <3>2. m = [k \in OnDisk |-> m[k]]
      OBVIOUS
    <3> HIDE DEF m
    <3> QED BY <3>1, <3>2
  <2>9. \A k \in OnDisk : h[k] = f[m[k]]
    BY <2>4
  <2> HIDE DEF E, f, h, m
  <2>10. \A e \in E : f[e] \in Nat
    BY <2>5
  <2>11. Cardinality(Units(h, OnDisk)) <= Cardinality(Units(f, E))
    BY <2>5, <2>8, <2>9, <2>10, UnitsEmbedded
  <2>12. IsFiniteSet(Units(f, E))
    BY <2>5, <2>10, UnitsAreFinite
  <2>13. IsFiniteSet(Units(h, OnDisk))
    BY <2>5, UnitsAreFinite DEF h
  <2>14. Cardinality(Units(f, E)) \in Nat /\ Cardinality(Units(h, OnDisk)) \in Nat
    BY <2>12, <2>13, FS_CardinalityType
  <2>15. Total(E) <= maxBytes
    BY <2>3 DEF E
  <2> QED BY <2>5, <2>6, <2>7, <2>11, <2>14, <2>15
<1>2. Ind /\ SweepInd /\ [Next]_vars => [Restored]_vars
  BY <1>1
<1> QED BY DiskCacheInvariance, SweepInvariance, <1>2, PTL DEF Spec, SweepRestoresBudget

\* cache/cache.go:126-127: sweeps that overlap do not delete more than one would: where no key is
\* stored twice, nothing is deleted while the cache is within its budget.
THEOREM NothingIsOverEvicted == Spec => NoOverEviction
<1> DEFINE Justified == \A k \in Keys : main[k] # None /\ main'[k] = None /\ (\A j \in Keys : PutOnce(j)) =>
                            DiskTotal > maxBytes
<1>1. ASSUME Ind, SweepInd, [Next]_vars PROVE Justified
  <2> USE <1>1
  <2> SUFFICES ASSUME NEW k \in Keys, main[k] # None, main'[k] = None, \A j \in Keys : PutOnce(j)
               PROVE  DiskTotal > maxBytes
    OBVIOUS
  <2>0. /\ main \in [Keys -> Files \cup {None}] /\ tmp \in [Puts -> Files \cup {None}]
        /\ snap \in [Puts -> SUBSET [key : Keys, size : Nat, mtime : Nat]] /\ now \in [Gets -> Nat]
    BY DEF Ind, TypeOK
  <2>1. \A j \in Keys : Sole(j)
    BY PutOnceIsSole
  <2>2. PICK p \in Puts : RemoveMain(p)
    <3>1. ASSUME NEW q \in Puts, Rename(q) PROVE FALSE
      <4>1. key[q] = k /\ tmp[q] = None
        BY <2>0, <3>1 DEF Rename
      <4>2. pc[q] = "rename" /\ side[k] = q
        BY <2>1, <3>1, <4>1 DEF Rename, Move, Ind, SidesAreRight
      <4>3. Born(k)
        BY DEF Ind, SweptWasBorn
      <4> QED BY <2>1, <4>1, <4>2, <4>3 DEF Born, Sole
    <3>2. ASSUME NEW g \in Gets, Touch(g) PROVE FALSE
      <4>1. key[g] = k /\ main'[k] = [main[k] EXCEPT !.mtime = now[g]]
        BY <2>0, <3>2 DEF Touch
      <4>2. [main[k] EXCEPT !.mtime = now[g]] \in Files
        BY <2>0 DEF Files
      <4> QED BY <4>1, <4>2, NamesDiffer DEF Files
    <3>3. \/ main' = main \/ (\E q \in Puts : Rename(q) \/ RemoveMain(q)) \/ (\E g \in Gets : Touch(g))
      BY DEF Next, Put, Get, Sweep, AllDone, vars, CreateTempFails, CreateTemp, Copy, CopyFails, TruncateSidecar, WriteSidecar, SidecarFails, RenameFails, Open, OpenFails, OpenError, Cleanup, Unlimited, Lock, Scan, ReadDirFails, Stat, RemoveSide, Unlock, ReadSidecar, OpenMain, Miss, Crash
    <3> QED BY <3>1, <3>2, <3>3
  <2>3. Total(snap[p]) > maxBytes
    BY <2>2 DEF RemoveMain
  <2> DEFINE E == snap[p]
             f == [e \in E |-> e.size]
             h == [j \in OnDisk |-> SizeOf[main[j].put]]
             m == [e \in E |-> e.key]
  <2>4. ASSUME NEW e \in E PROVE m[e] \in OnDisk /\ f[e] = h[m[e]]
    <3>1. e.key \in Keys /\ main[e.key] # None /\ e.size = SizeOf[main[e.key].put]
      BY <2>0, <2>1 DEF SweepInd, SnapsAreTrue
    <3>2. e.key \in OnDisk
      BY <3>1 DEF OnDisk
    <3> QED BY <3>1, <3>2
  <2>5. /\ IsFiniteSet(E) /\ \A e \in E : e.size \in Nat
        /\ IsFiniteSet(OnDisk) /\ \A j \in OnDisk : SizeOf[main[j].put] \in Nat /\ h[j] \in Nat
        /\ maxBytes \in Nat
    BY SizesAreKnown
  <2>6. Total(E) = Cardinality(Units(f, E))
    BY <2>5, TotalIsUnits
  <2>7. DiskTotal = Cardinality(Units(h, OnDisk))
    BY <2>5, DiskTotalIsUnits
  <2>8. m \in [E -> OnDisk] /\ \A e, o \in E : m[e] = m[o] => e = o
    <3>1. \A e, o \in E : e.key = o.key => e = o
      BY DEF SweepInd, SnapsAreLists
    <3>2. \A e \in E : m[e] = e.key
      OBVIOUS
    <3>3. m = [e \in E |-> m[e]]
      OBVIOUS
    <3>4. \A e \in E : m[e] \in OnDisk
      BY <2>4
    <3> HIDE DEF m
    <3> QED BY <3>1, <3>2, <3>3, <3>4
  <2>9. \A e \in E : f[e] = h[m[e]]
    BY <2>4
  <2>10. \A e \in E : f[e] \in Nat
    BY <2>5
  <2> HIDE DEF E, f, h, m
  <2>11. Cardinality(Units(f, E)) <= Cardinality(Units(h, OnDisk))
    BY <2>5, <2>8, <2>9, UnitsEmbedded
  <2>12. IsFiniteSet(Units(f, E)) /\ IsFiniteSet(Units(h, OnDisk))
    BY <2>5, <2>10, UnitsAreFinite
  <2>13. Cardinality(Units(f, E)) \in Nat /\ Cardinality(Units(h, OnDisk)) \in Nat
    BY <2>12, FS_CardinalityType
  <2>14. Total(E) > maxBytes
    BY <2>3 DEF E
  <2> QED BY <2>5, <2>6, <2>7, <2>11, <2>13, <2>14
<1>2. Ind /\ SweepInd /\ [Next]_vars => [Justified]_vars
  BY <1>1
<1> QED BY DiskCacheInvariance, SweepInvariance, <1>2, PTL DEF Spec, NoOverEviction
=============================================================================
