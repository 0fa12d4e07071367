------------------------- MODULE ListingCacheProofs -------------------------
(***************************************************************************)
(* The listing cache and the SystemUpdateID for any number of calls, any   *)
(* listings and plans, any TTL and any width of the id.                    *)
(***************************************************************************)
EXTENDS ListingCache, TLAPS

\* A call visits each listing of its plan once, and its own entry for a
\* listing is done only when it has passed that listing, or is about to.
Ahead(c) ==
    /\ \A i, j \in 1..Len(plan[c]) : plan[c][i] = plan[c][j] => i = j
    /\ pc[c] \in {"ask", "load", "wait", "observe", "publish", "forget"} => plan[c] # <<>>
    /\ \A i \in 1..Len(plan[c]) : <<c, plan[c][i]>> \in done => i = 1 /\ pc[c] = "forget"
    /\ pc[c] = "idle" => \A k \in Keys : <<c, k>> \notin done

PlansAhead == \A c \in Calls : Ahead(c)

\* A result is there before anyone takes it.
ResultsAreReady ==
    /\ \A c \in Calls : /\ pc[c] = "observe" => got[c] \in Versions
                        /\ pc[c] = "publish" => got[c] \in Results
    /\ \A e \in Calls \X Keys : IF e \in done THEN val[e] \in Results ELSE val[e] = None

\* Whoever loads a listing has the entry.
LeadersOwn ==
    ttl > 0 => \A c \in Calls : pc[c] \in {"load", "observe", "publish"} =>
                  entries[Wanted(c)] = c

\* No call looked at the cache in the future.
NobodyIsAhead == \A c \in Calls : began[c] <= clock

\* The id d changes after id i, for d less than a full turn.
Later(i, d) == IF i + d < IdRange THEN i + d ELSE i + d - (IdRange - 1)

\* What earlier answers of this run of the proxy say about the id and the
\* listings now ...
AnswersLeadHere ==
    \A r \in answers :
        /\ r.boot <= restarts
        /\ r.boot = restarts =>
               /\ r.bumps <= bumps
               /\ bumps - r.bumps < IdRange - 1 => id = Later(r.id, bumps - r.bumps)
               /\ r.bumps = bumps => r.heard \in {None, seen[r.key]}

\* ... and about one another.
AnswersAgree ==
    \A r, s \in answers : r.boot = s.boot /\ r.bumps <= s.bumps =>
        /\ s.bumps - r.bumps < IdRange - 1 => s.id = Later(r.id, s.bumps - r.bumps)
        /\ r.bumps = s.bumps /\ r.key = s.key => r.heard = s.heard \/ None \in {r.heard, s.heard}

Ind == /\ TypeOK /\ PlansAhead /\ ResultsAreReady /\ LeadersOwn /\ FailuresAreForgotten
       /\ NobodyIsAhead /\ NoStaleHits /\ AnswersLeadHere /\ AnswersAgree

-----------------------------------------------------------------------------
(* Lemmas. *)

LEMMA PlanTail ==
    ASSUME NEW s \in Seq(Keys), s # <<>>
    PROVE  /\ Tail(s) \in Seq(Keys) /\ Len(Tail(s)) = Len(s) - 1
           /\ Len(s) \in Nat /\ Len(s) > 0
           /\ Head(s) = s[1] /\ Head(s) \in Keys
           /\ \A i \in 1..Len(s) - 1 : Tail(s)[i] = s[i + 1]
OBVIOUS

LEMMA WatchedAreKeys == Watched \subseteq Keys /\ PollPlan \in Seq(Keys) \ {<<>>}
BY PlansListKeys DEF Watched

\* The id skips zero.
LEMMA BumpIsLater ==
    ASSUME NEW i \in 1..IdRange - 1
    PROVE  Bump(i) = (IF i + 1 = IdRange THEN 1 ELSE i + 1) /\ Bump(i) \in 1..IdRange - 1
<1>1. CASE i + 1 = IdRange
  BY <1>1, NumbersAreNatural DEF Bump
<1>2. CASE i + 1 # IdRange
  <2>1. (i + 1) % IdRange = i + 1
    BY <1>2, NumbersAreNatural
  <2> QED BY <1>2, <2>1, NumbersAreNatural DEF Bump
<1> QED BY <1>1, <1>2

\* What becomes of call c when it takes a result.
Moved(c) ==
    /\ plan' \in [Calls -> Seq(Keys)]
    /\ got' \in [Calls -> Results \cup {None}]
    /\ view' \in [Calls -> [Keys -> Versions \cup {None}]]
    /\ began' \in [Calls -> 0..MaxTime] /\ began'[c] = 0
    /\ pc' \in [Calls -> Places]
    /\ pc'[c] \in {"ask", "answer", "done"}
    /\ plan'[c] = <<>> \/ plan'[c] = Tail(plan[c])
    /\ pc'[c] = "ask" => plan'[c] # <<>>
    /\ \A d \in Calls \ {c} : /\ plan'[d] = plan[d] /\ got'[d] = got[d]
                              /\ began'[d] = began[d] /\ pc'[d] = pc[d]

LEMMA Taken ==
    ASSUME TypeOK, NEW c \in Calls, NEW r \in Results, plan[c] # <<>>, Take(c, r)
    PROVE  Moved(c)
<1>1. plan[c] \in Seq(Keys) /\ Wanted(c) \in Keys
  BY PlanTail DEF TypeOK, Wanted
<1>2. began' \in [Calls -> 0..MaxTime] /\ began'[c] = 0 /\ got' \in [Calls -> Results \cup {None}]
  BY NumbersAreNatural DEF Take, TypeOK
<1>3. CASE c \in Browses /\ r = Failed
  <2>1. /\ plan' = [plan EXCEPT ![c] = <<>>] /\ view' = [view EXCEPT ![c] = Nothing]
        /\ pc' = [pc EXCEPT ![c] = "done"]
    BY <1>3 DEF Take, Goto
  <2>2. plan' \in [Calls -> Seq(Keys)] /\ plan'[c] = <<>>
    BY <2>1 DEF TypeOK
  <2>3. view' \in [Calls -> [Keys -> Versions \cup {None}]]
    BY <2>1 DEF TypeOK, Nothing
  <2>4. /\ pc' \in [Calls -> Places]
        /\ pc'[c] = "done"
    BY <2>1 DEF TypeOK, Places
  <2>5. \A d \in Calls \ {c} : plan'[d] = plan[d] /\ pc'[d] = pc[d]
    BY <2>1 DEF TypeOK
  <2>6. \A d \in Calls \ {c} : got'[d] = got[d] /\ began'[d] = began[d]
    BY DEF Take, TypeOK
  <2> QED BY <1>2, <2>2, <2>3, <2>4, <2>5, <2>6 DEF Moved
<1>4. CASE ~(c \in Browses /\ r = Failed)
  <2>1. /\ plan' = [plan EXCEPT ![c] = Tail(plan[c])]
        /\ view' = IF c \in Browses THEN [view EXCEPT ![c][Wanted(c)] = r] ELSE view
        /\ pc' = [pc EXCEPT ![c] = IF Len(plan[c]) > 1 THEN "ask" ELSE "answer"]
    BY <1>4 DEF Take, Goto
  <2>2. plan' \in [Calls -> Seq(Keys)] /\ plan'[c] = Tail(plan[c])
    BY <1>1, <2>1, PlanTail DEF TypeOK
  <2>3. view' \in [Calls -> [Keys -> Versions \cup {None}]]
    <3>1. CASE c \in Browses
      <4>1. r \in Versions
        BY <1>4, <3>1 DEF Results
      <4>2. view' = [view EXCEPT ![c] = [view[c] EXCEPT ![Wanted(c)] = r]]
        BY <2>1, <3>1 DEF TypeOK
      <4>3. [view[c] EXCEPT ![Wanted(c)] = r] \in [Keys -> Versions \cup {None}]
        BY <4>1 DEF TypeOK
      <4> QED BY <4>2, <4>3 DEF TypeOK
    <3>2. CASE c \notin Browses
      BY <2>1, <3>2 DEF TypeOK
    <3> QED BY <3>1, <3>2
  <2>4. /\ pc' \in [Calls -> Places]
        /\ pc'[c] \in {"ask", "answer"}
        /\ pc'[c] = "ask" => Len(plan[c]) > 1
    BY <2>1 DEF TypeOK, Places
  <2>5. pc'[c] = "ask" => plan'[c] # <<>>
    <3>1. Len(plan'[c]) = Len(plan[c]) - 1 /\ Len(plan[c]) \in Nat
      BY <1>1, <2>2, PlanTail
    <3>2. Len(<<>>) = 0
      OBVIOUS
    <3> QED BY <3>1, <3>2, <2>4
  <2>6. \A d \in Calls \ {c} : plan'[d] = plan[d] /\ pc'[d] = pc[d]
    BY <2>1 DEF TypeOK
  <2>7. \A d \in Calls \ {c} : got'[d] = got[d] /\ began'[d] = began[d]
    BY DEF Take, TypeOK
  <2> QED BY <1>2, <2>2, <2>3, <2>4, <2>5, <2>6, <2>7 DEF Moved
<1> QED BY <1>3, <1>4

\* The listing a call is at.
LEMMA AtAListing ==
    ASSUME TypeOK, PlansAhead, NEW c \in Calls,
           pc[c] \in {"ask", "load", "wait", "observe", "publish", "forget"}
    PROVE  /\ plan[c] \in Seq(Keys) /\ plan[c] # <<>>
           /\ 1 \in 1..Len(plan[c]) /\ Wanted(c) = plan[c][1] /\ Wanted(c) \in Keys
           /\ Own(c) \in Calls \X Keys
           /\ Own(c) \in done => pc[c] = "forget"
<1>1. plan[c] \in Seq(Keys) /\ plan[c] # <<>>
  BY DEF TypeOK, PlansAhead, Ahead
<1>2. 1 \in 1..Len(plan[c]) /\ Wanted(c) = plan[c][1] /\ Wanted(c) \in Keys
  BY <1>1, PlanTail DEF Wanted
<1> QED BY <1>1, <1>2 DEF PlansAhead, Ahead, Own

\* The steps that take a result.
Takes(c) == \/ Wake(c) \/ Forget(c) \/ ReturnDirect(c)
            \/ Publish(c) /\ got[c] # Failed

LEMMA TakesMove ==
    ASSUME TypeOK, PlansAhead, ResultsAreReady, NEW c \in Calls, Takes(c)
    PROVE  Moved(c) /\ pc[c] \in {"wait", "forget", "publish"}
<1>1. CASE Wake(c)
  <2>1. plan[c] # <<>> /\ Wanted(c) \in Keys
    BY <1>1, AtAListing DEF Wake, At
  <2>2. waits[c] \in Calls
    BY <1>1 DEF Wake, At, TypeOK
  <2>3. val[<<waits[c], Wanted(c)>>] \in Results
    BY <1>1, <2>1, <2>2 DEF Wake, ResultsAreReady
  <2> QED BY <1>1, <2>1, <2>3, Taken DEF Wake, At
<1>2. CASE Forget(c)
  BY <1>2, AtAListing, Taken DEF Forget, At, Results
<1>3. CASE ReturnDirect(c)
  BY <1>3, AtAListing, Taken DEF ReturnDirect, At, ResultsAreReady
<1>4. CASE Publish(c) /\ got[c] # Failed
  BY <1>4, AtAListing, Taken DEF Publish, At, ResultsAreReady
<1> QED BY <1>1, <1>2, <1>3, <1>4 DEF Takes

\* A call that goes elsewhere.
LEMMA Goes ==
    ASSUME TypeOK, NEW c \in Calls, NEW place \in Places, Goto(c, place)
    PROVE  /\ pc' \in [Calls -> Places] /\ pc'[c] = place
           /\ \A d \in Calls \ {c} : pc'[d] = pc[d]
BY DEF TypeOK, Goto

\* Who waits.
LEMMA NobodyStartsToWait ==
    ASSUME TypeOK, NEW c \in Calls, pc[c] # "wait", pc'[c] # "wait",
           \A d \in Calls \ {c} : pc'[d] = pc[d], UNCHANGED waits
    PROVE  /\ waits' \in [Calls -> Calls \cup {None}]
           /\ \A d \in Calls : waits'[d] # None <=> pc'[d] = "wait"
BY DEF TypeOK

\* A call stays where it is.
LEMMA OthersAhead ==
    ASSUME NEW d \in Calls, Ahead(d), plan'[d] = plan[d], pc'[d] = pc[d],
           \A k : <<d, k>> \in done' => <<d, k>> \in done
    PROVE  Ahead(d)'
BY DEF Ahead

\* A call that takes a result has passed the listing it was at.
LEMMA TakerAhead ==
    ASSUME TypeOK, PlansAhead, NEW c \in Calls, pc[c] \in {"wait", "forget", "publish"},
           Moved(c), \A k : <<c, k>> \in done' => <<c, k>> \in done \/ k = Wanted(c)
    PROVE  Ahead(c)'
<1>1. /\ plan[c] \in Seq(Keys) /\ plan[c] # <<>> /\ Len(plan[c]) \in Nat
      /\ 1 \in 1..Len(plan[c]) /\ Wanted(c) = plan[c][1]
  BY AtAListing, PlanTail
<1>2. CASE plan'[c] = <<>>
  BY <1>2 DEF Ahead, Moved
<1>3. CASE plan'[c] = Tail(plan[c])
  <2>1. /\ Len(plan'[c]) = Len(plan[c]) - 1
        /\ \A i \in 1..Len(plan'[c]) : /\ plan'[c][i] = plan[c][i + 1]
                                       /\ i + 1 \in 1..Len(plan[c]) /\ i + 1 # 1
    BY <1>1, <1>3, PlanTail
  <2>2. \A i, j \in 1..Len(plan'[c]) : plan'[c][i] = plan'[c][j] => i = j
    <3> SUFFICES ASSUME NEW i \in 1..Len(plan'[c]), NEW j \in 1..Len(plan'[c]),
                        plan'[c][i] = plan'[c][j]
                 PROVE  i = j
      OBVIOUS
    <3>1. i + 1 = j + 1
      BY <2>1 DEF PlansAhead, Ahead
    <3> QED BY <3>1
  <2>3. \A i \in 1..Len(plan'[c]) : <<c, plan'[c][i]>> \notin done'
    <3> SUFFICES ASSUME NEW i \in 1..Len(plan'[c]), <<c, plan'[c][i]>> \in done'
                 PROVE  FALSE
      OBVIOUS
    <3>1. <<c, plan[c][i + 1]>> \in done \/ plan[c][i + 1] = plan[c][1]
      BY <1>1, <2>1
    <3> QED BY <1>1, <2>1, <3>1 DEF PlansAhead, Ahead
  <2> QED BY <2>2, <2>3 DEF Ahead, Moved
<1> QED BY <1>2, <1>3 DEF Moved

LEMMA TypeStep ==
    ASSUME TypeOK, PlansAhead, ResultsAreReady, [Next]_vars
    PROVE  TypeOK'
<1> USE NoneIsNothing, NumbersAreNatural DEF Nothing
<1>1. CASE Edit
  BY <1>1 DEF Edit, cacheVars, trackerVars, callVars, TypeOK, Versions, Places
<1>2. CASE Tick
  BY <1>2, SMTT(20) DEF Tick, cacheVars, trackerVars, callVars, TypeOK, Versions, Places
<1>3. CASE Restart
  BY <1>3, SMTT(20) DEF Restart, cacheVars, trackerVars, callVars, TypeOK, Versions, Places
<1>4. ASSUME NEW c \in Calls, Begin(c) PROVE TypeOK'
  <2>1. PICK p \in IF c \in Polls THEN {PollPlan} ELSE Plans : plan' = [plan EXCEPT ![c] = p]
    BY <1>4 DEF Begin
  <2>2. p \in Seq(Keys)
    BY PlansListKeys
  <2>3. plan' \in [Calls -> Seq(Keys)]
    BY <2>1, <2>2 DEF TypeOK
  <2>4. pc[c] = "idle" /\ pc' \in [Calls -> Places] /\ pc'[c] = "ask"
        /\ \A d \in Calls \ {c} : pc'[d] = pc[d]
    BY <1>4, Goes DEF Begin, At, Places
  <2>5. /\ waits' \in [Calls -> Calls \cup {None}]
        /\ \A d \in Calls : waits'[d] # None <=> pc'[d] = "wait"
    BY <1>4, <2>4, NobodyStartsToWait DEF Begin
  <2> QED BY <1>4, <2>3, <2>4, <2>5 DEF Begin, cacheVars, trackerVars, TypeOK, Versions
<1>5. ASSUME NEW c \in Calls, Direct(c) PROVE TypeOK'
  <2>1. pc[c] = "ask" /\ pc' \in [Calls -> Places] /\ pc'[c] # "wait"
        /\ \A d \in Calls \ {c} : pc'[d] = pc[d]
    BY <1>5, Goes DEF Direct, At, Places
  <2>2. /\ waits' \in [Calls -> Calls \cup {None}]
        /\ \A d \in Calls : waits'[d] # None <=> pc'[d] = "wait"
    BY <1>5, <2>1, NobodyStartsToWait DEF Direct
  <2>3. Wanted(c) \in Keys
    BY <2>1, AtAListing
  <2>4. began' \in [Calls -> 0..MaxTime]
    BY <1>5 DEF Direct, TypeOK
  <2> QED BY <1>5, <2>1, <2>2, <2>4 DEF Direct, cacheVars, trackerVars, TypeOK, Versions
<1>6. ASSUME NEW c \in Calls, Lead(c) PROVE TypeOK'
  <2>1. pc[c] = "ask" /\ pc' \in [Calls -> Places] /\ pc'[c] # "wait"
        /\ \A d \in Calls \ {c} : pc'[d] = pc[d]
    BY <1>6, Goes DEF Lead, At, Places
  <2>2. /\ waits' \in [Calls -> Calls \cup {None}]
        /\ \A d \in Calls : waits'[d] # None <=> pc'[d] = "wait"
    BY <1>6, <2>1, NobodyStartsToWait DEF Lead
  <2>3. Wanted(c) \in Keys
    BY <2>1, AtAListing
  <2>4. Kept \in [Keys -> Calls \cup {None}]
    BY DEF Kept, TypeOK
  <2>5. began' \in [Calls -> 0..MaxTime] /\ entries' \in [Keys -> Calls \cup {None}]
    BY <1>6, <2>3, <2>4 DEF Lead, TypeOK
  <2> QED BY <1>6, <2>1, <2>2, <2>5 DEF Lead, cacheVars, trackerVars, TypeOK, Versions
<1>7. ASSUME NEW c \in Calls, Follow(c) PROVE TypeOK'
  <2>1. pc[c] = "ask" /\ pc' \in [Calls -> Places] /\ pc'[c] = "wait"
        /\ \A d \in Calls \ {c} : pc'[d] = pc[d]
    BY <1>7, Goes DEF Follow, At, Places
  <2>3. Wanted(c) \in Keys
    BY <2>1, AtAListing
  <2>4. Kept \in [Keys -> Calls \cup {None}]
    BY DEF Kept, TypeOK
  <2>5. began' \in [Calls -> 0..MaxTime] /\ entries' \in [Keys -> Calls \cup {None}]
    BY <1>7, <2>3, <2>4 DEF Follow, TypeOK
  <2>6. waits' \in [Calls -> Calls \cup {None}] /\ waits'[c] # None
        /\ \A d \in Calls \ {c} : waits'[d] = waits[d]
    BY <1>7, <2>3, <2>4, NoneIsNothing DEF Follow, TypeOK
  <2>7. \A d \in Calls : waits'[d] # None <=> pc'[d] = "wait"
    BY <2>1, <2>6 DEF TypeOK
  <2> QED BY <1>7, <2>1, <2>5, <2>6, <2>7 DEF Follow, cacheVars, trackerVars, TypeOK, Versions
<1>8. ASSUME NEW c \in Calls, Wake(c) PROVE TypeOK'
  <2>1. Moved(c)
    BY <1>8, TakesMove DEF Takes
  <2>2. /\ waits' \in [Calls -> Calls \cup {None}]
        /\ \A d \in Calls : waits'[d] # None <=> pc'[d] = "wait"
    <3>1. waits' \in [Calls -> Calls \cup {None}] /\ waits'[c] = None
          /\ \A d \in Calls \ {c} : waits'[d] = waits[d]
      BY <1>8 DEF Wake, TypeOK
    <3> QED BY <2>1, <3>1, ZenonT(30) DEF Moved, TypeOK
  <2> QED BY <1>8, <2>1, <2>2 DEF Wake, Moved, cacheVars, trackerVars, TypeOK, Versions
<1>9. ASSUME NEW c \in Calls, LoadSucceeds(c) PROVE TypeOK'
  <2>1. pc[c] = "load" /\ pc' \in [Calls -> Places] /\ pc'[c] # "wait"
        /\ \A d \in Calls \ {c} : pc'[d] = pc[d]
    BY <1>9, Goes DEF LoadSucceeds, At, Places
  <2>2. /\ waits' \in [Calls -> Calls \cup {None}]
        /\ \A d \in Calls : waits'[d] # None <=> pc'[d] = "wait"
    BY <1>9, <2>1, NobodyStartsToWait DEF LoadSucceeds
  <2>3. Wanted(c) \in Keys
    BY <2>1, AtAListing
  <2>4. got' \in [Calls -> Results \cup {None}]
    BY <1>9, <2>3 DEF LoadSucceeds, TypeOK, Results
  <2> QED BY <1>9, <2>1, <2>2, <2>4 DEF LoadSucceeds, cacheVars, trackerVars, TypeOK, Versions
<1>10. ASSUME NEW c \in Calls, LoadFails(c) PROVE TypeOK'
  <2>1. pc[c] = "load" /\ pc' \in [Calls -> Places] /\ pc'[c] # "wait"
        /\ \A d \in Calls \ {c} : pc'[d] = pc[d]
    BY <1>10, Goes DEF LoadFails, At, Places
  <2>2. /\ waits' \in [Calls -> Calls \cup {None}]
        /\ \A d \in Calls : waits'[d] # None <=> pc'[d] = "wait"
    BY <1>10, <2>1, NobodyStartsToWait DEF LoadFails
  <2>3. Wanted(c) \in Keys
    BY <2>1, AtAListing
  <2>4. got' \in [Calls -> Results \cup {None}]
    BY <1>10, <2>3 DEF LoadFails, TypeOK, Results
  <2> QED BY <1>10, <2>1, <2>2, <2>4 DEF LoadFails, cacheVars, trackerVars, TypeOK, Versions
<1>11. ASSUME NEW c \in Calls, Observe(c) PROVE TypeOK'
  <2>1. pc[c] = "observe" /\ pc' \in [Calls -> Places] /\ pc'[c] # "wait"
        /\ \A d \in Calls \ {c} : pc'[d] = pc[d]
    BY <1>11, Goes DEF Observe, At, Places
  <2>2. /\ waits' \in [Calls -> Calls \cup {None}]
        /\ \A d \in Calls : waits'[d] # None <=> pc'[d] = "wait"
    BY <1>11, <2>1, NobodyStartsToWait DEF Observe
  <2>3. Wanted(c) \in Keys
    BY <2>1, AtAListing
  <2>4. got[c] \in Versions
    BY <2>1 DEF ResultsAreReady
  <2>5. seen' \in [Keys -> Versions \cup {None}]
    BY <1>11, <2>4 DEF Observe, TypeOK
  <2>6. id' \in 1..IdRange - 1 /\ bumps' \in Nat
    BY <1>11, BumpIsLater DEF Observe, TypeOK
  <2> QED BY <1>11, <2>1, <2>2, <2>5, <2>6 DEF Observe, cacheVars, trackerVars, TypeOK, Versions
<1>12. ASSUME NEW c \in Calls, Publish(c) PROVE TypeOK'
  <2>1. pc[c] = "publish" /\ Own(c) \in Calls \X Keys /\ got[c] \in Results
    BY <1>12, AtAListing DEF Publish, At, ResultsAreReady
  <2>2. /\ done' \in SUBSET (Calls \X Keys)
        /\ val' \in [Calls \X Keys -> Results \cup {None}]
    BY <1>12, <2>1 DEF Publish, TypeOK
  <2>3. clock + ttl \in 0..MaxTime + ttl /\ ttl' = ttl
    BY <1>12, NumbersAreNatural DEF Publish, TypeOK
  <2>4. expires' \in [Calls \X Keys -> 0..MaxTime + ttl']
    BY <1>12, <2>1, <2>3 DEF Publish, TypeOK
  <2>5. /\ plan' \in [Calls -> Seq(Keys)] /\ got' \in [Calls -> Results \cup {None}]
        /\ view' \in [Calls -> [Keys -> Versions \cup {None}]]
        /\ began' \in [Calls -> 0..MaxTime] /\ pc' \in [Calls -> Places] /\ pc'[c] # "wait"
        /\ \A d \in Calls \ {c} : pc'[d] = pc[d]
    <3>1. CASE got[c] = Failed
      BY <1>12, <3>1, Goes DEF Publish, TypeOK, Places
    <3>2. CASE got[c] # Failed
      BY <1>12, <3>2, TakesMove DEF Takes, Moved
    <3> QED BY <3>1, <3>2
  <2>6. /\ waits' \in [Calls -> Calls \cup {None}]
        /\ \A d \in Calls : waits'[d] # None <=> pc'[d] = "wait"
    BY <1>12, <2>1, <2>5, NobodyStartsToWait DEF Publish
  <2> QED BY <1>12, <2>2, <2>4, <2>5, <2>6 DEF Publish, trackerVars, TypeOK, Versions
<1>13. ASSUME NEW c \in Calls, Forget(c) PROVE TypeOK'
  <2>1. Moved(c)
    BY <1>13, TakesMove DEF Takes
  <2>2. /\ waits' \in [Calls -> Calls \cup {None}]
        /\ \A d \in Calls : waits'[d] # None <=> pc'[d] = "wait"
    BY <1>13, <2>1, NobodyStartsToWait DEF Forget, At, Moved
  <2>3. entries' \in [Keys -> Calls \cup {None}]
    BY <1>13 DEF Forget, TypeOK
  <2> QED BY <1>13, <2>1, <2>2, <2>3 DEF Forget, Moved, cacheVars, trackerVars, TypeOK, Versions
<1>14. ASSUME NEW c \in Calls, ReturnDirect(c) PROVE TypeOK'
  <2>1. Moved(c)
    BY <1>14, TakesMove DEF Takes
  <2>2. /\ waits' \in [Calls -> Calls \cup {None}]
        /\ \A d \in Calls : waits'[d] # None <=> pc'[d] = "wait"
    BY <1>14, <2>1, NobodyStartsToWait DEF ReturnDirect, At, Moved
  <2> QED BY <1>14, <2>1, <2>2 DEF ReturnDirect, Moved, cacheVars, trackerVars, TypeOK, Versions
<1>15. ASSUME NEW c \in Calls, Answer(c) PROVE TypeOK'
  <2>1. pc[c] = "answer" /\ pc' \in [Calls -> Places] /\ pc'[c] = "done"
        /\ \A d \in Calls \ {c} : pc'[d] = pc[d]
    BY <1>15, Goes DEF Answer, At, Places
  <2>2. /\ waits' \in [Calls -> Calls \cup {None}]
        /\ \A d \in Calls : waits'[d] # None <=> pc'[d] = "wait"
    BY <1>15, <2>1, NobodyStartsToWait DEF Answer
  <2>3. view' \in [Calls -> [Keys -> Versions \cup {None}]]
    BY <1>15 DEF Answer, TypeOK, Nothing
  <2>4. \A k \in {j \in Watched : c \in Browses /\ view[c][j] # None} :
            /\ k \in Keys /\ view[c][k] \in Versions /\ seen[k] \in Versions \cup {None}
            /\ restarts \in 0..MaxRestarts /\ id \in 1..IdRange - 1 /\ bumps \in Nat
    BY WatchedAreKeys DEF TypeOK
  <2>5. answers' \subseteq [boot : 0..MaxRestarts, key : Keys, val : Versions,
                            id : 1..IdRange - 1, heard : Versions \cup {None}, bumps : Nat]
    BY <1>15, <2>4 DEF Answer, TypeOK
  <2> QED BY <1>15, <2>1, <2>2, <2>3, <2>5 DEF Answer, cacheVars, trackerVars, TypeOK, Versions
<1>16. CASE UNCHANGED vars
  BY <1>16 DEF vars, cacheVars, trackerVars, callVars, TypeOK, Versions, Places
<1> QED BY <1>1, <1>2, <1>3, <1>4, <1>5, <1>6, <1>7, <1>8, <1>9, <1>10, <1>11, <1>12, <1>13, <1>14, <1>15, <1>16 DEF Next, Step, AllAnswered

LEMMA PlansStep ==
    ASSUME TypeOK, PlansAhead, ResultsAreReady, [Next]_vars
    PROVE  PlansAhead'
<1> USE NoneIsNothing DEF Nothing
<1>1. CASE Edit
  BY <1>1 DEF Edit, cacheVars, trackerVars, callVars, TypeOK, PlansAhead, Ahead
<1>2. CASE Tick
  BY <1>2 DEF Tick, cacheVars, trackerVars, callVars, TypeOK, PlansAhead, Ahead
<1>3. CASE Restart
  BY <1>3 DEF Restart, cacheVars, trackerVars, callVars, TypeOK, PlansAhead, Ahead
<1>4. ASSUME NEW c \in Calls, Begin(c) PROVE PlansAhead'
  <2>1. PICK p \in IF c \in Polls THEN {PollPlan} ELSE Plans : plan' = [plan EXCEPT ![c] = p]
    BY <1>4 DEF Begin
  <2>2. p \in Seq(Keys) \ {<<>>} /\ \A i, j \in DOMAIN p : p[i] = p[j] => i = j
    BY PlansListKeys, PlansVisitOnce
  <2>3. \A i \in 1..Len(p) : p[i] \in Keys
    BY <2>2
  <2>4. plan'[c] = p /\ pc'[c] = "ask" /\ pc[c] = "idle" /\ done' = done
    BY <1>4, <2>1 DEF Begin, At, Goto, cacheVars, TypeOK
  <2>5. Ahead(c)'
    BY <2>2, <2>3, <2>4 DEF PlansAhead, Ahead
  <2>6. \A d \in Calls \ {c} : plan'[d] = plan[d] /\ pc'[d] = pc[d]
    BY <1>4, <2>1 DEF Begin, Goto, TypeOK
  <2> QED BY <2>4, <2>5, <2>6, OthersAhead DEF PlansAhead
<1>5. ASSUME NEW c \in Calls, Direct(c) PROVE PlansAhead'
  BY <1>5, ZenonT(60) DEF Direct, At, Goto, cacheVars, trackerVars, callVars, TypeOK, PlansAhead, Ahead
<1>6. ASSUME NEW c \in Calls, Lead(c) PROVE PlansAhead'
  BY <1>6 DEF Lead, At, Goto, cacheVars, trackerVars, callVars, TypeOK, PlansAhead, Ahead
<1>7. ASSUME NEW c \in Calls, Follow(c) PROVE PlansAhead'
  BY <1>7 DEF Follow, At, Goto, cacheVars, trackerVars, callVars, TypeOK, PlansAhead, Ahead
<1>8. ASSUME NEW c \in Calls, Wake(c) PROVE PlansAhead'
  <2>1. Moved(c) /\ pc[c] \in {"wait", "forget", "publish"}
    BY <1>8, TakesMove DEF Takes
  <2>2. done' = done
    BY <1>8 DEF Wake, cacheVars
  <2>3. Ahead(c)'
    BY <2>1, <2>2, TakerAhead
  <2>4. \A d \in Calls \ {c} : Ahead(d)'
    BY <2>1, <2>2, OthersAhead DEF PlansAhead, Moved
  <2> QED BY <2>3, <2>4 DEF PlansAhead
<1>9. ASSUME NEW c \in Calls, LoadSucceeds(c) PROVE PlansAhead'
  BY <1>9 DEF LoadSucceeds, At, Goto, cacheVars, trackerVars, callVars, TypeOK, PlansAhead, Ahead
<1>10. ASSUME NEW c \in Calls, LoadFails(c) PROVE PlansAhead'
  BY <1>10 DEF LoadFails, At, Goto, cacheVars, trackerVars, callVars, TypeOK, PlansAhead, Ahead
<1>11. ASSUME NEW c \in Calls, Observe(c) PROVE PlansAhead'
  BY <1>11 DEF Observe, At, Goto, cacheVars, trackerVars, callVars, TypeOK, PlansAhead, Ahead
<1>12. ASSUME NEW c \in Calls, Publish(c) PROVE PlansAhead'
  <2>1. done' = done \cup {Own(c)} /\ pc[c] = "publish"
    BY <1>12 DEF Publish, At
  <2>2. \A d \in Calls \ {c} : \A k : <<d, k>> \in done' => <<d, k>> \in done
    BY <2>1 DEF Own
  <2>3. \A k : <<c, k>> \in done' => <<c, k>> \in done \/ k = Wanted(c)
    BY <2>1 DEF Own
  <2>4. CASE got[c] # Failed
    <3>1. Moved(c)
      BY <1>12, <2>4, TakesMove DEF Takes
    <3>2. Ahead(c)'
      BY <2>1, <2>3, <3>1, TakerAhead
    <3>3. \A d \in Calls \ {c} : Ahead(d)'
      BY <2>2, <3>1, OthersAhead DEF PlansAhead, Moved
    <3> QED BY <3>2, <3>3 DEF PlansAhead
  <2>5. CASE got[c] = Failed
    <3>1. plan' = plan /\ pc'[c] = "forget" /\ \A d \in Calls \ {c} : pc'[d] = pc[d]
      BY <1>12, <2>5, Goes DEF Publish, Places
    <3>2. \A d \in Calls \ {c} : Ahead(d)'
      BY <2>2, <3>1, OthersAhead DEF PlansAhead
    <3>3. 1 \in 1..Len(plan[c]) /\ Wanted(c) = plan[c][1] /\ plan[c] # <<>>
      BY <2>1, AtAListing
    <3>4. Ahead(c)'
      BY <2>1, <2>3, <3>1, <3>3 DEF PlansAhead, Ahead
    <3> QED BY <3>2, <3>4 DEF PlansAhead
  <2> QED BY <2>4, <2>5
<1>13. ASSUME NEW c \in Calls, Forget(c) PROVE PlansAhead'
  <2>1. Moved(c) /\ pc[c] \in {"wait", "forget", "publish"}
    BY <1>13, TakesMove DEF Takes
  <2>2. done' = done
    BY <1>13 DEF Forget, cacheVars
  <2>3. Ahead(c)'
    BY <2>1, <2>2, TakerAhead
  <2>4. \A d \in Calls \ {c} : Ahead(d)'
    BY <2>1, <2>2, OthersAhead DEF PlansAhead, Moved
  <2> QED BY <2>3, <2>4 DEF PlansAhead
<1>14. ASSUME NEW c \in Calls, ReturnDirect(c) PROVE PlansAhead'
  <2>1. Moved(c) /\ pc[c] \in {"wait", "forget", "publish"}
    BY <1>14, TakesMove DEF Takes
  <2>2. done' = done
    BY <1>14 DEF ReturnDirect, cacheVars
  <2>3. Ahead(c)'
    BY <2>1, <2>2, TakerAhead
  <2>4. \A d \in Calls \ {c} : Ahead(d)'
    BY <2>1, <2>2, OthersAhead DEF PlansAhead, Moved
  <2> QED BY <2>3, <2>4 DEF PlansAhead
<1>15. ASSUME NEW c \in Calls, Answer(c) PROVE PlansAhead'
  BY <1>15 DEF Answer, At, Goto, cacheVars, trackerVars, callVars, TypeOK, PlansAhead, Ahead
<1>16. CASE UNCHANGED vars
  BY <1>16 DEF vars, cacheVars, trackerVars, callVars, TypeOK, PlansAhead, Ahead
<1> QED BY <1>1, <1>2, <1>3, <1>4, <1>5, <1>6, <1>7, <1>8, <1>9, <1>10, <1>11, <1>12, <1>13, <1>14, <1>15, <1>16 DEF Next, Step, AllAnswered

LEMMA ReadyStep ==
    ASSUME TypeOK, PlansAhead, ResultsAreReady, [Next]_vars
    PROVE  ResultsAreReady'
<1> USE NoneIsNothing DEF Nothing
<1>1. CASE Edit
  BY <1>1 DEF Edit, cacheVars, trackerVars, callVars, TypeOK, ResultsAreReady
<1>2. CASE Tick
  BY <1>2 DEF Tick, cacheVars, trackerVars, callVars, TypeOK, ResultsAreReady
<1>3. CASE Restart
  BY <1>3 DEF Restart, cacheVars, trackerVars, callVars, TypeOK, ResultsAreReady
<1>4. ASSUME NEW c \in Calls, Begin(c) PROVE ResultsAreReady'
  BY <1>4 DEF Begin, At, Goto, cacheVars, trackerVars, callVars, TypeOK, ResultsAreReady, Wanted, Results
<1>5. ASSUME NEW c \in Calls, Direct(c) PROVE ResultsAreReady'
  BY <1>5 DEF Direct, At, Goto, cacheVars, trackerVars, callVars, TypeOK, ResultsAreReady, Wanted, Results
<1>6. ASSUME NEW c \in Calls, Lead(c) PROVE ResultsAreReady'
  BY <1>6 DEF Lead, At, Goto, cacheVars, trackerVars, callVars, TypeOK, ResultsAreReady, Wanted, Results
<1>7. ASSUME NEW c \in Calls, Follow(c) PROVE ResultsAreReady'
  BY <1>7 DEF Follow, At, Goto, cacheVars, trackerVars, callVars, TypeOK, ResultsAreReady, Wanted, Results
<1>8. ASSUME NEW c \in Calls, Wake(c) PROVE ResultsAreReady'
  <2>1. Moved(c) /\ pc[c] \in {"wait", "forget", "publish"}
    BY <1>8, TakesMove DEF Takes
  <2>2. val' = val /\ done' = done
    BY <1>8 DEF Wake, cacheVars
  <2>3. \A d \in Calls : /\ pc'[d] = "observe" => got'[d] \in Versions
                         /\ pc'[d] = "publish" => got'[d] \in Results
    BY <2>1 DEF Moved, ResultsAreReady
  <2> QED BY <2>2, <2>3 DEF ResultsAreReady
<1>9. ASSUME NEW c \in Calls, LoadSucceeds(c) PROVE ResultsAreReady'
  <2>1. pc[c] = "load" /\ Wanted(c) \in Keys
    BY <1>9, AtAListing DEF LoadSucceeds, At
  <2>2. /\ pc'[c] \in {"observe", "publish"} /\ \A d \in Calls \ {c} : pc'[d] = pc[d]
        /\ val' = val /\ done' = done
    BY <1>9, Goes DEF LoadSucceeds, cacheVars, Places
  <2>3. got'[c] \in Versions /\ \A d \in Calls \ {c} : got'[d] = got[d]
    BY <1>9, <2>1 DEF LoadSucceeds, TypeOK
  <2> QED BY <2>2, <2>3 DEF ResultsAreReady, Results
<1>10. ASSUME NEW c \in Calls, LoadFails(c) PROVE ResultsAreReady'
  BY <1>10 DEF LoadFails, At, Goto, cacheVars, trackerVars, callVars, TypeOK, ResultsAreReady, Wanted, Results
<1>11. ASSUME NEW c \in Calls, Observe(c) PROVE ResultsAreReady'
  BY <1>11 DEF Observe, At, Goto, cacheVars, trackerVars, callVars, TypeOK, ResultsAreReady, Wanted, Results
<1>12. ASSUME NEW c \in Calls, Publish(c) PROVE ResultsAreReady'
  <2>1. pc[c] = "publish" /\ Own(c) \in Calls \X Keys /\ got[c] \in Results
    BY <1>12, AtAListing DEF Publish, At, ResultsAreReady
  <2>2. \A e \in Calls \X Keys : IF e \in done' THEN val'[e] \in Results ELSE val'[e] = None
    BY <1>12, <2>1 DEF Publish, ResultsAreReady, TypeOK
  <2>3. \A d \in Calls : /\ pc'[d] = "observe" => got'[d] \in Versions
                         /\ pc'[d] = "publish" => got'[d] \in Results
    <3>1. CASE got[c] = Failed
      <4>1. got' = got /\ pc'[c] = "forget" /\ \A d \in Calls \ {c} : pc'[d] = pc[d]
        BY <1>12, <3>1, Goes DEF Publish, Places
      <4> QED BY <4>1 DEF ResultsAreReady
    <3>2. CASE got[c] # Failed
      <4>1. Moved(c)
        BY <1>12, <3>2, TakesMove DEF Takes
      <4> QED BY <4>1 DEF Moved, ResultsAreReady
    <3> QED BY <3>1, <3>2
  <2> QED BY <2>2, <2>3 DEF ResultsAreReady
<1>13. ASSUME NEW c \in Calls, Forget(c) PROVE ResultsAreReady'
  <2>1. Moved(c) /\ pc[c] \in {"wait", "forget", "publish"}
    BY <1>13, TakesMove DEF Takes
  <2>2. val' = val /\ done' = done
    BY <1>13 DEF Forget, cacheVars
  <2>3. \A d \in Calls : /\ pc'[d] = "observe" => got'[d] \in Versions
                         /\ pc'[d] = "publish" => got'[d] \in Results
    BY <2>1 DEF Moved, ResultsAreReady
  <2> QED BY <2>2, <2>3 DEF ResultsAreReady
<1>14. ASSUME NEW c \in Calls, ReturnDirect(c) PROVE ResultsAreReady'
  <2>1. Moved(c) /\ pc[c] \in {"wait", "forget", "publish"}
    BY <1>14, TakesMove DEF Takes
  <2>2. val' = val /\ done' = done
    BY <1>14 DEF ReturnDirect, cacheVars
  <2>3. \A d \in Calls : /\ pc'[d] = "observe" => got'[d] \in Versions
                         /\ pc'[d] = "publish" => got'[d] \in Results
    BY <2>1 DEF Moved, ResultsAreReady
  <2> QED BY <2>2, <2>3 DEF ResultsAreReady
<1>15. ASSUME NEW c \in Calls, Answer(c) PROVE ResultsAreReady'
  BY <1>15 DEF Answer, At, Goto, cacheVars, trackerVars, callVars, TypeOK, ResultsAreReady, Wanted, Results
<1>16. CASE UNCHANGED vars
  BY <1>16 DEF vars, cacheVars, trackerVars, callVars, TypeOK, ResultsAreReady
<1> QED BY <1>1, <1>2, <1>3, <1>4, <1>5, <1>6, <1>7, <1>8, <1>9, <1>10, <1>11, <1>12, <1>13, <1>14, <1>15, <1>16 DEF Next, Step, AllAnswered

\* A sweep of the expired entries removes none that is being loaded.
LEMMA KeptKeepsLeaders ==
    ASSUME TypeOK, PlansAhead, LeadersOwn, ttl > 0, NEW d \in Calls,
           pc[d] \in {"load", "observe", "publish"}
    PROVE  Wanted(d) \in Keys /\ Kept[Wanted(d)] = d
<1>1. Wanted(d) \in Keys /\ entries[Wanted(d)] = d /\ <<d, Wanted(d)>> \notin done
  BY AtAListing DEF LeadersOwn, Own
<1> QED BY <1>1 DEF Kept, Expired

LEMMA KeptIsPart ==
    ASSUME NEW k \in Keys
    PROVE  /\ Kept[k] = None \/ Kept[k] = entries[k]
           /\ Kept[k] # None => ~Expired(<<entries[k], k>>)
BY DEF Kept

LEMMA OwnStep ==
    ASSUME TypeOK, PlansAhead, ResultsAreReady, LeadersOwn, [Next]_vars
    PROVE  LeadersOwn'
<1> USE NoneIsNothing, NumbersAreNatural DEF Nothing
<1>1. CASE Edit
  BY <1>1 DEF Edit, cacheVars, trackerVars, callVars, TypeOK, LeadersOwn, Wanted
<1>2. CASE Tick
  BY <1>2 DEF Tick, cacheVars, trackerVars, callVars, TypeOK, LeadersOwn, Wanted
<1>3. CASE Restart
  BY <1>3 DEF Restart, cacheVars, trackerVars, callVars, TypeOK, LeadersOwn, Wanted
<1>4. ASSUME NEW c \in Calls, Begin(c) PROVE LeadersOwn'
  BY <1>4 DEF Begin, At, Goto, cacheVars, trackerVars, callVars, TypeOK, LeadersOwn, Wanted
<1>5. ASSUME NEW c \in Calls, Direct(c) PROVE LeadersOwn'
  BY <1>5 DEF Direct, At, Goto, cacheVars, trackerVars, callVars, TypeOK, LeadersOwn, Wanted
<1>6. ASSUME NEW c \in Calls, Lead(c) PROVE LeadersOwn'
  <2>1. /\ ttl > 0 /\ ttl' = ttl /\ pc[c] = "ask" /\ Wanted(c) \in Keys /\ plan' = plan
        /\ Kept[Wanted(c)] = None /\ entries' = [Kept EXCEPT ![Wanted(c)] = c]
        /\ \A d \in Calls \ {c} : pc'[d] = pc[d]
    BY <1>6, AtAListing, Goes DEF Lead, At, Places
  <2>2. entries'[Wanted(c)] = c
    BY <2>1 DEF Kept
  <2>3. ASSUME NEW d \in Calls \ {c}, pc[d] \in {"load", "observe", "publish"}
        PROVE  entries'[Wanted(d)] = d
    <3>1. Wanted(d) \in Keys /\ Kept[Wanted(d)] = d
      BY <2>1, <2>3, KeptKeepsLeaders
    <3>2. Wanted(d) # Wanted(c)
      BY <2>1, <3>1
    <3> QED BY <2>1, <3>1, <3>2 DEF Kept
  <2> QED BY <2>1, <2>2, <2>3 DEF LeadersOwn, Wanted
<1>7. ASSUME NEW c \in Calls, Follow(c) PROVE LeadersOwn'
  <2>1. /\ ttl > 0 /\ entries' = Kept /\ plan' = plan /\ pc'[c] = "wait"
        /\ \A d \in Calls \ {c} : pc'[d] = pc[d]
    BY <1>7, Goes DEF Follow, Places
  <2>2. \A d \in Calls : pc[d] \in {"load", "observe", "publish"} => Kept[Wanted(d)] = d
    BY <2>1, KeptKeepsLeaders
  <2> QED BY <2>1, <2>2 DEF LeadersOwn, Wanted
<1>8. ASSUME NEW c \in Calls, Wake(c) PROVE LeadersOwn'
  <2>1. Moved(c) /\ pc[c] \in {"wait", "forget", "publish"}
    BY <1>8, TakesMove DEF Takes
  <2>2. entries' = entries /\ ttl' = ttl
    BY <1>8 DEF Wake, cacheVars
  <2> QED BY <2>1, <2>2 DEF LeadersOwn, Wanted, Moved
<1>9. ASSUME NEW c \in Calls, LoadSucceeds(c) PROVE LeadersOwn'
  BY <1>9 DEF LoadSucceeds, At, Goto, cacheVars, trackerVars, callVars, TypeOK, LeadersOwn, Wanted
<1>10. ASSUME NEW c \in Calls, LoadFails(c) PROVE LeadersOwn'
  BY <1>10 DEF LoadFails, At, Goto, cacheVars, trackerVars, callVars, TypeOK, LeadersOwn, Wanted
<1>11. ASSUME NEW c \in Calls, Observe(c) PROVE LeadersOwn'
  BY <1>11 DEF Observe, At, Goto, cacheVars, trackerVars, callVars, TypeOK, LeadersOwn, Wanted
<1>12. ASSUME NEW c \in Calls, Publish(c) PROVE LeadersOwn'
  <2>1. entries' = entries /\ ttl' = ttl
    BY <1>12 DEF Publish
  <2>2. /\ pc'[c] \notin {"load", "observe", "publish"}
        /\ \A d \in Calls \ {c} : pc'[d] = pc[d] /\ plan'[d] = plan[d]
    <3>1. CASE got[c] = Failed
      BY <1>12, <3>1, Goes DEF Publish, Places
    <3>2. CASE got[c] # Failed
      BY <1>12, <3>2, TakesMove DEF Takes, Moved
    <3> QED BY <3>1, <3>2
  <2> QED BY <2>1, <2>2 DEF LeadersOwn, Wanted
<1>13. ASSUME NEW c \in Calls, Forget(c) PROVE LeadersOwn'
  <2>1. Moved(c) /\ pc[c] \in {"wait", "forget", "publish"}
    BY <1>13, TakesMove DEF Takes
  <2>2. entries' = [entries EXCEPT ![Wanted(c)] = IF @ = c THEN None ELSE @] /\ ttl' = ttl
    BY <1>13 DEF Forget
  <2>3. ASSUME ttl > 0, NEW d \in Calls \ {c}, pc[d] \in {"load", "observe", "publish"}
        PROVE  entries'[Wanted(d)] = d
    <3>1. Wanted(d) \in Keys /\ entries[Wanted(d)] = d
      BY <2>3, AtAListing DEF LeadersOwn
    <3> QED BY <2>2, <3>1 DEF TypeOK
  <2> QED BY <2>1, <2>2, <2>3 DEF LeadersOwn, Wanted, Moved
<1>14. ASSUME NEW c \in Calls, ReturnDirect(c) PROVE LeadersOwn'
  <2>1. Moved(c) /\ pc[c] \in {"wait", "forget", "publish"}
    BY <1>14, TakesMove DEF Takes
  <2>2. entries' = entries /\ ttl' = ttl
    BY <1>14 DEF ReturnDirect, cacheVars
  <2> QED BY <2>1, <2>2 DEF LeadersOwn, Wanted, Moved
<1>15. ASSUME NEW c \in Calls, Answer(c) PROVE LeadersOwn'
  BY <1>15 DEF Answer, At, Goto, cacheVars, trackerVars, callVars, TypeOK, LeadersOwn, Wanted
<1>16. CASE UNCHANGED vars
  BY <1>16 DEF vars, cacheVars, trackerVars, callVars, TypeOK, LeadersOwn, Wanted
<1> QED BY <1>1, <1>2, <1>3, <1>4, <1>5, <1>6, <1>7, <1>8, <1>9, <1>10, <1>11, <1>12, <1>13, <1>14, <1>15, <1>16 DEF Next, Step, AllAnswered

LEMMA FailuresStep ==
    ASSUME TypeOK, PlansAhead, ResultsAreReady, FailuresAreForgotten, [Next]_vars
    PROVE  FailuresAreForgotten'
<1> USE NoneIsNothing DEF Nothing
<1>1. CASE Edit
  BY <1>1 DEF Edit, cacheVars, trackerVars, callVars, FailuresAreForgotten, Wanted, At
<1>2. CASE Tick
  BY <1>2 DEF Tick, cacheVars, trackerVars, callVars, FailuresAreForgotten, Wanted, At
<1>3. CASE Restart
  BY <1>3 DEF Restart, FailuresAreForgotten
<1>4. ASSUME NEW c \in Calls, Begin(c) PROVE FailuresAreForgotten'
  BY <1>4 DEF Begin, At, Goto, cacheVars, trackerVars, callVars, TypeOK, FailuresAreForgotten, Wanted
<1>5. ASSUME NEW c \in Calls, Direct(c) PROVE FailuresAreForgotten'
  BY <1>5 DEF Direct, At, Goto, cacheVars, trackerVars, callVars, TypeOK, FailuresAreForgotten, Wanted
<1>6. ASSUME NEW c \in Calls, Lead(c) PROVE FailuresAreForgotten'
  <2>1. /\ pc[c] = "ask" /\ Wanted(c) \in Keys /\ plan' = plan /\ val' = val
        /\ entries' = [Kept EXCEPT ![Wanted(c)] = c]
        /\ \A d \in Calls \ {c} : pc'[d] = pc[d]
    BY <1>6, AtAListing, Goes DEF Lead, At, Places
  <2>2. val[<<c, Wanted(c)>>] = None
    <3>1. Own(c) \notin done /\ Own(c) \in Calls \X Keys
      BY <2>1, AtAListing
    <3> QED BY <3>1 DEF ResultsAreReady, Own
  <2>3. ASSUME NEW k \in Keys, entries'[k] # None, val[<<entries'[k], k>>] = Failed
        PROVE  pc'[entries'[k]] = "forget" /\ Wanted(entries'[k]) = k
    <3>1. entries'[k] = Kept[k] /\ k # Wanted(c)
      BY <2>1, <2>2, <2>3 DEF Kept
    <3>2. entries'[k] = entries[k] /\ entries[k] \in Calls
      BY <2>3, <3>1, KeptIsPart DEF TypeOK
    <3>3. pc[entries[k]] = "forget" /\ Wanted(entries[k]) = k
      BY <2>3, <3>2 DEF FailuresAreForgotten, At
    <3> QED BY <2>1, <3>2, <3>3
  <2> QED BY <2>1, <2>3 DEF FailuresAreForgotten, At, Wanted
<1>7. ASSUME NEW c \in Calls, Follow(c) PROVE FailuresAreForgotten'
  <2>1. /\ pc[c] = "ask" /\ plan' = plan /\ val' = val /\ entries' = Kept
        /\ \A d \in Calls \ {c} : pc'[d] = pc[d]
    BY <1>7, Goes DEF Follow, At, Places
  <2>2. ASSUME NEW k \in Keys, entries'[k] # None, val[<<entries'[k], k>>] = Failed
        PROVE  pc'[entries'[k]] = "forget" /\ Wanted(entries'[k]) = k
    <3>1. entries'[k] = entries[k] /\ entries[k] \in Calls
      BY <2>1, <2>2, KeptIsPart DEF TypeOK
    <3>2. pc[entries[k]] = "forget" /\ Wanted(entries[k]) = k
      BY <2>2, <3>1 DEF FailuresAreForgotten, At
    <3> QED BY <2>1, <3>1, <3>2
  <2> QED BY <2>1, <2>2 DEF FailuresAreForgotten, At, Wanted
<1>8. ASSUME NEW c \in Calls, Wake(c) PROVE FailuresAreForgotten'
  <2>1. Moved(c) /\ pc[c] # "forget"
    BY <1>8, TakesMove DEF Takes, Wake, At
  <2>2. entries' = entries /\ val' = val
    BY <1>8 DEF Wake, cacheVars
  <2>3. ASSUME NEW k \in Keys, entries[k] # None, val[<<entries[k], k>>] = Failed
        PROVE  pc'[entries[k]] = "forget" /\ plan'[entries[k]] = plan[entries[k]]
    <3>1. entries[k] \in Calls /\ pc[entries[k]] = "forget"
      BY <2>3 DEF FailuresAreForgotten, At, TypeOK
    <3> QED BY <2>1, <3>1 DEF Moved
  <2> QED BY <2>2, <2>3 DEF FailuresAreForgotten, At, Wanted
<1>9. ASSUME NEW c \in Calls, LoadSucceeds(c) PROVE FailuresAreForgotten'
  BY <1>9 DEF LoadSucceeds, At, Goto, cacheVars, trackerVars, callVars, TypeOK, FailuresAreForgotten, Wanted
<1>10. ASSUME NEW c \in Calls, LoadFails(c) PROVE FailuresAreForgotten'
  BY <1>10 DEF LoadFails, At, Goto, cacheVars, trackerVars, callVars, TypeOK, FailuresAreForgotten, Wanted
<1>11. ASSUME NEW c \in Calls, Observe(c) PROVE FailuresAreForgotten'
  BY <1>11 DEF Observe, At, Goto, cacheVars, trackerVars, callVars, TypeOK, FailuresAreForgotten, Wanted
<1>12. ASSUME NEW c \in Calls, Publish(c) PROVE FailuresAreForgotten'
  <2>1. /\ entries' = entries /\ val' = [val EXCEPT ![Own(c)] = got[c]]
        /\ pc[c] = "publish" /\ Own(c) \in Calls \X Keys
    BY <1>12, AtAListing DEF Publish, At
  <2>2. \A d \in Calls \ {c} : pc'[d] = pc[d] /\ plan'[d] = plan[d]
    <3>1. CASE got[c] = Failed
      BY <1>12, <3>1, Goes DEF Publish, Places
    <3>2. CASE got[c] # Failed
      BY <1>12, <3>2, TakesMove DEF Takes, Moved
    <3> QED BY <3>1, <3>2
  <2>3. ASSUME NEW k \in Keys, entries[k] # None, val'[<<entries[k], k>>] = Failed
        PROVE  pc'[entries[k]] = "forget" /\ Head(plan'[entries[k]]) = k
    <3>1. entries[k] \in Calls
      BY <2>3 DEF TypeOK
    <3>2. CASE <<entries[k], k>> = Own(c)
      <4>1. got[c] = Failed /\ entries[k] = c /\ Wanted(c) = k
        BY <2>1, <2>3, <3>2 DEF TypeOK, Own
      <4>2. pc'[c] = "forget" /\ plan' = plan
        BY <1>12, <4>1, Goes DEF Publish, Places
      <4> QED BY <4>1, <4>2 DEF Wanted
    <3>3. CASE <<entries[k], k>> # Own(c)
      <4>1. val[<<entries[k], k>>] = Failed
        BY <2>1, <2>3, <3>1, <3>3 DEF TypeOK
      <4>2. pc[entries[k]] = "forget" /\ Wanted(entries[k]) = k
        BY <2>3, <4>1 DEF FailuresAreForgotten, At
      <4> QED BY <2>1, <2>2, <3>1, <4>2 DEF Wanted
    <3> QED BY <3>2, <3>3
  <2> QED BY <2>1, <2>3 DEF FailuresAreForgotten, At, Wanted
<1>13. ASSUME NEW c \in Calls, Forget(c) PROVE FailuresAreForgotten'
  <2>1. Moved(c) /\ pc[c] \in {"wait", "forget", "publish"}
    BY <1>13, TakesMove DEF Takes
  <2>2. entries' = [entries EXCEPT ![Wanted(c)] = IF @ = c THEN None ELSE @] /\ val' = val
    BY <1>13 DEF Forget
  <2>3. ASSUME NEW k \in Keys, entries'[k] # None, val[<<entries'[k], k>>] = Failed
        PROVE  /\ pc'[entries'[k]] = "forget" /\ plan'[entries'[k]] = plan[entries'[k]]
               /\ Wanted(entries'[k]) = k
    <3>1. entries'[k] = entries[k] /\ (k = Wanted(c) => entries[k] # c)
      BY <2>2, <2>3 DEF TypeOK
    <3>2. entries[k] \in Calls /\ pc[entries[k]] = "forget" /\ Wanted(entries[k]) = k
      BY <2>3, <3>1 DEF FailuresAreForgotten, At, TypeOK
    <3> QED BY <2>1, <3>1, <3>2 DEF Moved
  <2> QED BY <2>2, <2>3 DEF FailuresAreForgotten, At, Wanted
<1>14. ASSUME NEW c \in Calls, ReturnDirect(c) PROVE FailuresAreForgotten'
  <2>1. Moved(c) /\ pc[c] # "forget"
    BY <1>14, TakesMove DEF Takes, ReturnDirect, At
  <2>2. entries' = entries /\ val' = val
    BY <1>14 DEF ReturnDirect, cacheVars
  <2>3. ASSUME NEW k \in Keys, entries[k] # None, val[<<entries[k], k>>] = Failed
        PROVE  pc'[entries[k]] = "forget" /\ plan'[entries[k]] = plan[entries[k]]
    <3>1. entries[k] \in Calls /\ pc[entries[k]] = "forget"
      BY <2>3 DEF FailuresAreForgotten, At, TypeOK
    <3> QED BY <2>1, <3>1 DEF Moved
  <2> QED BY <2>2, <2>3 DEF FailuresAreForgotten, At, Wanted
<1>15. ASSUME NEW c \in Calls, Answer(c) PROVE FailuresAreForgotten'
  BY <1>15 DEF Answer, At, Goto, cacheVars, trackerVars, callVars, TypeOK, FailuresAreForgotten, Wanted
<1>16. CASE UNCHANGED vars
  BY <1>16 DEF vars, cacheVars, trackerVars, callVars, FailuresAreForgotten, Wanted, At
<1> QED BY <1>1, <1>2, <1>3, <1>4, <1>5, <1>6, <1>7, <1>8, <1>9, <1>10, <1>11, <1>12, <1>13, <1>14, <1>15, <1>16 DEF Next, Step, AllAnswered

\* What a follower waits for is fresh.
Fresh(d) == pc[d] = "wait" /\ <<waits[d], Wanted(d)>> \in done =>
               began[d] <= expires[<<waits[d], Wanted(d)>>]

LEMMA StaysFresh ==
    ASSUME NEW d \in Calls, Fresh(d), done' = done, expires' = expires,
           pc'[d] = "wait" => /\ pc[d] = "wait" /\ waits'[d] = waits[d]
                              /\ plan'[d] = plan[d] /\ began'[d] = began[d]
    PROVE  Fresh(d)'
BY DEF Fresh, Wanted

LEMMA StaleStep ==
    ASSUME TypeOK, PlansAhead, ResultsAreReady, NobodyIsAhead, NoStaleHits, [Next]_vars
    PROVE  (NobodyIsAhead /\ NoStaleHits)'
<1> USE NoneIsNothing, NumbersAreNatural DEF Nothing
<1>1. CASE Edit
  BY <1>1 DEF Edit, cacheVars, callVars, NobodyIsAhead, NoStaleHits, At, Wanted
<1>2. CASE Tick
  <2>1. \A d \in Calls : began'[d] <= clock'
    BY <1>2 DEF Tick, callVars, NobodyIsAhead, TypeOK
  <2>2. NoStaleHits'
    BY <1>2 DEF Tick, callVars, cacheVars, NoStaleHits, At, Wanted
  <2> QED BY <2>1, <2>2 DEF NobodyIsAhead
<1>3. CASE Restart
  <2>1. \A d \in Calls : began'[d] <= clock'
    BY <1>3 DEF Restart, TypeOK
  <2>2. \A d \in Calls : pc'[d] # "wait"
    BY <1>3 DEF Restart
  <2> QED BY <2>1, <2>2 DEF NobodyIsAhead, NoStaleHits, At
<1>4. ASSUME NEW c \in Calls, Begin(c) PROVE (NobodyIsAhead /\ NoStaleHits)'
  <2>8. \A d \in Calls : Fresh(d)
    BY DEF NoStaleHits, Fresh, At
  <2>2. done' = done /\ expires' = expires /\ clock' = clock
        /\ \A d \in Calls : pc'[d] = "wait" => /\ pc[d] = "wait" /\ waits'[d] = waits[d]
                                               /\ plan'[d] = plan[d] /\ began'[d] = began[d]
    BY <1>4 DEF Begin, At, Goto, cacheVars, TypeOK
  <2>3. \A d \in Calls : began'[d] <= clock'
    BY <1>4, <2>2 DEF Begin, NobodyIsAhead, TypeOK
  <2>4. \A d \in Calls : Fresh(d)'
    BY <2>2, <2>8, StaysFresh
  <2>5. NobodyIsAhead'
    BY <2>3 DEF NobodyIsAhead
  <2>6. NoStaleHits'
    BY <2>4 DEF NoStaleHits, Fresh, At
  <2> QED BY <2>5, <2>6
<1>5. ASSUME NEW c \in Calls, Direct(c) PROVE (NobodyIsAhead /\ NoStaleHits)'
  <2>8. \A d \in Calls : Fresh(d)
    BY DEF NoStaleHits, Fresh, At
  <2>2. done' = done /\ expires' = expires /\ clock' = clock
        /\ \A d \in Calls : pc'[d] = "wait" => /\ pc[d] = "wait" /\ waits'[d] = waits[d]
                                               /\ plan'[d] = plan[d] /\ began'[d] = began[d]
    BY <1>5 DEF Direct, At, Goto, cacheVars, TypeOK
  <2>3. \A d \in Calls : began'[d] <= clock'
    BY <1>5, <2>2 DEF Direct, NobodyIsAhead, TypeOK
  <2>4. \A d \in Calls : Fresh(d)'
    BY <2>2, <2>8, StaysFresh
  <2>5. NobodyIsAhead'
    BY <2>3 DEF NobodyIsAhead
  <2>6. NoStaleHits'
    BY <2>4 DEF NoStaleHits, Fresh, At
  <2> QED BY <2>5, <2>6
<1>6. ASSUME NEW c \in Calls, Lead(c) PROVE (NobodyIsAhead /\ NoStaleHits)'
  <2>8. \A d \in Calls : Fresh(d)
    BY DEF NoStaleHits, Fresh, At
  <2>2. done' = done /\ expires' = expires /\ clock' = clock
        /\ \A d \in Calls : pc'[d] = "wait" => /\ pc[d] = "wait" /\ waits'[d] = waits[d]
                                               /\ plan'[d] = plan[d] /\ began'[d] = began[d]
    BY <1>6 DEF Lead, At, Goto, cacheVars, TypeOK
  <2>3. \A d \in Calls : began'[d] <= clock'
    BY <1>6, <2>2 DEF Lead, NobodyIsAhead, TypeOK
  <2>4. \A d \in Calls : Fresh(d)'
    BY <2>2, <2>8, StaysFresh
  <2>5. NobodyIsAhead'
    BY <2>3 DEF NobodyIsAhead
  <2>6. NoStaleHits'
    BY <2>4 DEF NoStaleHits, Fresh, At
  <2> QED BY <2>5, <2>6
<1>7. ASSUME NEW c \in Calls, Follow(c) PROVE (NobodyIsAhead /\ NoStaleHits)'
  <2>8. \A d \in Calls : Fresh(d)
    BY DEF NoStaleHits, Fresh, At
  <2>1. /\ Wanted(c) \in Keys /\ Kept[Wanted(c)] # None
        /\ waits' = [waits EXCEPT ![c] = Kept[Wanted(c)]]
        /\ began' = [began EXCEPT ![c] = clock]
        /\ plan' = plan /\ done' = done /\ expires' = expires /\ clock' = clock
        /\ pc'[c] = "wait" /\ \A d \in Calls \ {c} : pc'[d] = pc[d]
    BY <1>7, AtAListing, Goes DEF Follow, At, Places
  <2>2. \A d \in Calls : began'[d] <= clock'
    BY <2>1 DEF NobodyIsAhead, TypeOK
  <2>3. \A d \in Calls \ {c} : Fresh(d)'
    <3>1. \A d \in Calls \ {c} : waits'[d] = waits[d] /\ began'[d] = began[d]
      BY <2>1 DEF TypeOK
    <3> QED BY <2>1, <2>8, <3>1, StaysFresh
  <2>4. Fresh(c)'
    <3> DEFINE e == <<entries[Wanted(c)], Wanted(c)>>
    <3>1. waits'[c] = entries[Wanted(c)] /\ ~Expired(e) /\ e \in Calls \X Keys
      BY <2>1, KeptIsPart DEF TypeOK
    <3>2. e \in done => clock <= expires[e]
      <4>1. clock \in Int /\ expires[e] \in Int
        BY <3>1, NumbersAreNatural DEF TypeOK
      <4> QED BY <3>1, <4>1 DEF Expired
    <3>3. began'[c] = clock
      BY <2>1 DEF TypeOK
    <3> QED BY <2>1, <3>1, <3>2, <3>3 DEF Fresh, Wanted
  <2>5. NobodyIsAhead'
    BY <2>2 DEF NobodyIsAhead
  <2>6. NoStaleHits'
    BY <2>3, <2>4 DEF NoStaleHits, Fresh, At
  <2> QED BY <2>5, <2>6
<1>8. ASSUME NEW c \in Calls, Wake(c) PROVE (NobodyIsAhead /\ NoStaleHits)'
  <2>8. \A d \in Calls : Fresh(d)
    BY DEF NoStaleHits, Fresh, At
  <2>1. Moved(c) /\ pc[c] \in {"wait", "forget", "publish"}
    BY <1>8, TakesMove DEF Takes
  <2>2. done' = done /\ expires' = expires /\ clock' = clock
        /\ \A d \in Calls \ {c} : waits'[d] = waits[d]
    BY <1>8 DEF Wake, cacheVars, TypeOK
  <2>3. \A d \in Calls : began'[d] <= clock'
    <3>1. clock' = clock /\ clock \in Nat /\ \A d \in Calls : began[d] <= clock
      BY <2>2, NumbersAreNatural DEF NobodyIsAhead, TypeOK
    <3>2. began'[c] = 0 /\ \A d \in Calls \ {c} : began'[d] = began[d]
      BY <2>1 DEF Moved
    <3> QED BY <3>1, <3>2
  <2>4. \A d \in Calls : Fresh(d)'
    BY <2>1, <2>2, <2>8, StaysFresh DEF Moved
  <2>5. NobodyIsAhead'
    BY <2>3 DEF NobodyIsAhead
  <2>6. NoStaleHits'
    BY <2>4 DEF NoStaleHits, Fresh, At
  <2> QED BY <2>5, <2>6
<1>9. ASSUME NEW c \in Calls, LoadSucceeds(c) PROVE (NobodyIsAhead /\ NoStaleHits)'
  <2>8. \A d \in Calls : Fresh(d)
    BY DEF NoStaleHits, Fresh, At
  <2>2. done' = done /\ expires' = expires /\ clock' = clock
        /\ \A d \in Calls : pc'[d] = "wait" => /\ pc[d] = "wait" /\ waits'[d] = waits[d]
                                               /\ plan'[d] = plan[d] /\ began'[d] = began[d]
    BY <1>9 DEF LoadSucceeds, At, Goto, cacheVars, TypeOK
  <2>3. \A d \in Calls : began'[d] <= clock'
    BY <1>9, <2>2 DEF LoadSucceeds, NobodyIsAhead, TypeOK
  <2>4. \A d \in Calls : Fresh(d)'
    BY <2>2, <2>8, StaysFresh
  <2>5. NobodyIsAhead'
    BY <2>3 DEF NobodyIsAhead
  <2>6. NoStaleHits'
    BY <2>4 DEF NoStaleHits, Fresh, At
  <2> QED BY <2>5, <2>6
<1>10. ASSUME NEW c \in Calls, LoadFails(c) PROVE (NobodyIsAhead /\ NoStaleHits)'
  <2>8. \A d \in Calls : Fresh(d)
    BY DEF NoStaleHits, Fresh, At
  <2>2. done' = done /\ expires' = expires /\ clock' = clock
        /\ \A d \in Calls : pc'[d] = "wait" => /\ pc[d] = "wait" /\ waits'[d] = waits[d]
                                               /\ plan'[d] = plan[d] /\ began'[d] = began[d]
    BY <1>10 DEF LoadFails, At, Goto, cacheVars, TypeOK
  <2>3. \A d \in Calls : began'[d] <= clock'
    BY <1>10, <2>2 DEF LoadFails, NobodyIsAhead, TypeOK
  <2>4. \A d \in Calls : Fresh(d)'
    BY <2>2, <2>8, StaysFresh
  <2>5. NobodyIsAhead'
    BY <2>3 DEF NobodyIsAhead
  <2>6. NoStaleHits'
    BY <2>4 DEF NoStaleHits, Fresh, At
  <2> QED BY <2>5, <2>6
<1>11. ASSUME NEW c \in Calls, Observe(c) PROVE (NobodyIsAhead /\ NoStaleHits)'
  <2>8. \A d \in Calls : Fresh(d)
    BY DEF NoStaleHits, Fresh, At
  <2>2. done' = done /\ expires' = expires /\ clock' = clock
        /\ \A d \in Calls : pc'[d] = "wait" => /\ pc[d] = "wait" /\ waits'[d] = waits[d]
                                               /\ plan'[d] = plan[d] /\ began'[d] = began[d]
    BY <1>11 DEF Observe, At, Goto, cacheVars, TypeOK
  <2>3. \A d \in Calls : began'[d] <= clock'
    BY <1>11, <2>2 DEF Observe, NobodyIsAhead, TypeOK
  <2>4. \A d \in Calls : Fresh(d)'
    BY <2>2, <2>8, StaysFresh
  <2>5. NobodyIsAhead'
    BY <2>3 DEF NobodyIsAhead
  <2>6. NoStaleHits'
    BY <2>4 DEF NoStaleHits, Fresh, At
  <2> QED BY <2>5, <2>6
<1>12. ASSUME NEW c \in Calls, Publish(c) PROVE (NobodyIsAhead /\ NoStaleHits)'
  <2>8. \A d \in Calls : Fresh(d)
    BY DEF NoStaleHits, Fresh, At
  <2>1. /\ done' = done \cup {Own(c)} /\ expires' = [expires EXCEPT ![Own(c)] = clock + ttl]
        /\ waits' = waits /\ clock' = clock
        /\ pc[c] = "publish" /\ Own(c) \in Calls \X Keys
    BY <1>12, AtAListing DEF Publish, At
  <2>2. /\ pc'[c] # "wait" /\ (began'[c] = 0 \/ began'[c] = began[c])
        /\ \A d \in Calls \ {c} : pc'[d] = pc[d] /\ plan'[d] = plan[d] /\ began'[d] = began[d]
    <3>1. CASE got[c] = Failed
      BY <1>12, <3>1, Goes DEF Publish, Places
    <3>2. CASE got[c] # Failed
      BY <1>12, <3>2, TakesMove DEF Takes, Moved
    <3> QED BY <3>1, <3>2
  <2>3. \A d \in Calls : began'[d] <= clock'
    <3>1. clock' = clock /\ clock \in Nat /\ \A d \in Calls : began[d] <= clock
      BY <2>1, NumbersAreNatural DEF NobodyIsAhead, TypeOK
    <3> QED BY <2>2, <3>1
  <2>4. ASSUME NEW d \in Calls \ {c}, pc[d] = "wait", <<waits[d], Wanted(d)>> \in done'
        PROVE  began[d] <= expires'[<<waits[d], Wanted(d)>>]
    <3>1. CASE <<waits[d], Wanted(d)>> = Own(c)
      <4>1. expires'[Own(c)] = clock + ttl /\ began[d] <= clock
        BY <2>1 DEF TypeOK, NobodyIsAhead
      <4>2. began[d] \in Int /\ clock \in Int /\ ttl \in Nat
        BY NumbersAreNatural DEF TypeOK
      <4> QED BY <3>1, <4>1, <4>2
    <3>2. CASE <<waits[d], Wanted(d)>> # Own(c)
      <4>1. <<waits[d], Wanted(d)>> \in done
        BY <2>1, <2>4, <3>2
      <4>2. expires'[<<waits[d], Wanted(d)>>] = expires[<<waits[d], Wanted(d)>>]
        BY <2>1, <3>2, <4>1 DEF TypeOK
      <4> QED BY <2>4, <2>8, <4>1, <4>2 DEF Fresh
    <3> QED BY <3>1, <3>2
  <2>5. NobodyIsAhead'
    BY <2>3 DEF NobodyIsAhead
  <2>6. NoStaleHits'
    BY <2>1, <2>2, <2>4 DEF NoStaleHits, At, Wanted
  <2> QED BY <2>5, <2>6
<1>13. ASSUME NEW c \in Calls, Forget(c) PROVE (NobodyIsAhead /\ NoStaleHits)'
  <2>8. \A d \in Calls : Fresh(d)
    BY DEF NoStaleHits, Fresh, At
  <2>1. Moved(c) /\ pc[c] \in {"wait", "forget", "publish"}
    BY <1>13, TakesMove DEF Takes
  <2>2. done' = done /\ expires' = expires /\ clock' = clock
        /\ \A d \in Calls \ {c} : waits'[d] = waits[d]
    BY <1>13 DEF Forget, cacheVars, TypeOK
  <2>3. \A d \in Calls : began'[d] <= clock'
    <3>1. clock' = clock /\ clock \in Nat /\ \A d \in Calls : began[d] <= clock
      BY <2>2, NumbersAreNatural DEF NobodyIsAhead, TypeOK
    <3>2. began'[c] = 0 /\ \A d \in Calls \ {c} : began'[d] = began[d]
      BY <2>1 DEF Moved
    <3> QED BY <3>1, <3>2
  <2>4. \A d \in Calls : Fresh(d)'
    BY <2>1, <2>2, <2>8, StaysFresh DEF Moved
  <2>5. NobodyIsAhead'
    BY <2>3 DEF NobodyIsAhead
  <2>6. NoStaleHits'
    BY <2>4 DEF NoStaleHits, Fresh, At
  <2> QED BY <2>5, <2>6
<1>14. ASSUME NEW c \in Calls, ReturnDirect(c) PROVE (NobodyIsAhead /\ NoStaleHits)'
  <2>8. \A d \in Calls : Fresh(d)
    BY DEF NoStaleHits, Fresh, At
  <2>1. Moved(c) /\ pc[c] \in {"wait", "forget", "publish"}
    BY <1>14, TakesMove DEF Takes
  <2>2. done' = done /\ expires' = expires /\ clock' = clock
        /\ \A d \in Calls \ {c} : waits'[d] = waits[d]
    BY <1>14 DEF ReturnDirect, cacheVars, TypeOK
  <2>3. \A d \in Calls : began'[d] <= clock'
    <3>1. clock' = clock /\ clock \in Nat /\ \A d \in Calls : began[d] <= clock
      BY <2>2, NumbersAreNatural DEF NobodyIsAhead, TypeOK
    <3>2. began'[c] = 0 /\ \A d \in Calls \ {c} : began'[d] = began[d]
      BY <2>1 DEF Moved
    <3> QED BY <3>1, <3>2
  <2>4. \A d \in Calls : Fresh(d)'
    BY <2>1, <2>2, <2>8, StaysFresh DEF Moved
  <2>5. NobodyIsAhead'
    BY <2>3 DEF NobodyIsAhead
  <2>6. NoStaleHits'
    BY <2>4 DEF NoStaleHits, Fresh, At
  <2> QED BY <2>5, <2>6
<1>15. ASSUME NEW c \in Calls, Answer(c) PROVE (NobodyIsAhead /\ NoStaleHits)'
  <2>8. \A d \in Calls : Fresh(d)
    BY DEF NoStaleHits, Fresh, At
  <2>2. done' = done /\ expires' = expires /\ clock' = clock
        /\ \A d \in Calls : pc'[d] = "wait" => /\ pc[d] = "wait" /\ waits'[d] = waits[d]
                                               /\ plan'[d] = plan[d] /\ began'[d] = began[d]
    BY <1>15 DEF Answer, At, Goto, cacheVars, TypeOK
  <2>3. \A d \in Calls : began'[d] <= clock'
    BY <1>15, <2>2 DEF Answer, NobodyIsAhead, TypeOK
  <2>4. \A d \in Calls : Fresh(d)'
    BY <2>2, <2>8, StaysFresh
  <2>5. NobodyIsAhead'
    BY <2>3 DEF NobodyIsAhead
  <2>6. NoStaleHits'
    BY <2>4 DEF NoStaleHits, Fresh, At
  <2> QED BY <2>5, <2>6
<1>16. CASE UNCHANGED vars
  BY <1>16 DEF vars, NobodyIsAhead, NoStaleHits, At, Wanted
<1> QED BY <1>1, <1>2, <1>3, <1>4, <1>5, <1>6, <1>7, <1>8, <1>9, <1>10, <1>11, <1>12, <1>13, <1>14, <1>15, <1>16 DEF Next, Step, AllAnswered

LEMMA AnswersStep ==
    ASSUME TypeOK, ResultsAreReady, AnswersLeadHere, AnswersAgree, [Next]_vars
    PROVE  (AnswersLeadHere /\ AnswersAgree)'
<1> USE NoneIsNothing, NumbersAreNatural DEF Nothing
<1>1. CASE Edit
  BY <1>1 DEF Edit, cacheVars, trackerVars, callVars, AnswersLeadHere, AnswersAgree, Later
<1>2. CASE Tick
  BY <1>2 DEF Tick, cacheVars, trackerVars, callVars, AnswersLeadHere, AnswersAgree, Later
<1>3. CASE Restart
  <2>1. \A r \in answers : r.boot < restarts'
    BY <1>3 DEF Restart, AnswersLeadHere, TypeOK
  <2>2. \A r \in answers : r.boot \in Int
    BY DEF TypeOK
  <2>3. restarts' \in Int
    BY <1>3 DEF Restart, TypeOK
  <2>4. answers' = answers
    BY <1>3 DEF Restart
  <2>5. AnswersLeadHere'
    BY <2>1, <2>2, <2>3, <2>4 DEF AnswersLeadHere
  <2> QED BY <2>4, <2>5 DEF AnswersAgree
<1>4. ASSUME NEW c \in Calls, Begin(c) PROVE (AnswersLeadHere /\ AnswersAgree)'
  BY <1>4 DEF Begin, trackerVars, AnswersLeadHere, AnswersAgree
<1>5. ASSUME NEW c \in Calls, Direct(c) PROVE (AnswersLeadHere /\ AnswersAgree)'
  BY <1>5 DEF Direct, trackerVars, AnswersLeadHere, AnswersAgree
<1>6. ASSUME NEW c \in Calls, Lead(c) PROVE (AnswersLeadHere /\ AnswersAgree)'
  BY <1>6 DEF Lead, trackerVars, AnswersLeadHere, AnswersAgree
<1>7. ASSUME NEW c \in Calls, Follow(c) PROVE (AnswersLeadHere /\ AnswersAgree)'
  BY <1>7 DEF Follow, trackerVars, AnswersLeadHere, AnswersAgree
<1>8. ASSUME NEW c \in Calls, Wake(c) PROVE (AnswersLeadHere /\ AnswersAgree)'
  BY <1>8 DEF Wake, trackerVars, AnswersLeadHere, AnswersAgree
<1>9. ASSUME NEW c \in Calls, LoadSucceeds(c) PROVE (AnswersLeadHere /\ AnswersAgree)'
  BY <1>9 DEF LoadSucceeds, trackerVars, AnswersLeadHere, AnswersAgree
<1>10. ASSUME NEW c \in Calls, LoadFails(c) PROVE (AnswersLeadHere /\ AnswersAgree)'
  BY <1>10 DEF LoadFails, trackerVars, AnswersLeadHere, AnswersAgree
<1>11. ASSUME NEW c \in Calls, Observe(c) PROVE (AnswersLeadHere /\ AnswersAgree)'
  <2>1. answers' = answers /\ restarts' = restarts
        /\ seen' = [seen EXCEPT ![Wanted(c)] = got[c]]
    BY <1>11 DEF Observe
  <2>2. ASSUME NEW r \in answers
        PROVE  /\ r.boot <= restarts
               /\ r.boot = restarts =>
                      /\ r.bumps <= bumps'
                      /\ bumps' - r.bumps < IdRange - 1 => id' = Later(r.id, bumps' - r.bumps)
                      /\ r.bumps = bumps' => r.heard \in {None, seen'[r.key]}
    <3>1. r.bumps \in Nat /\ r.id \in 1..IdRange - 1 /\ r.key \in Keys /\ bumps \in Nat
      BY DEF TypeOK
    <3>2. CASE seen[Wanted(c)] \notin {None, got[c]}
      <4>1. id' = Bump(id) /\ bumps' = bumps + 1
        BY <1>11, <3>2 DEF Observe
      <4>2. id' = IF id + 1 = IdRange THEN 1 ELSE id + 1
        BY <4>1, BumpIsLater DEF TypeOK
      <4> QED BY <3>1, <4>1, <4>2 DEF AnswersLeadHere, Later
    <3>3. CASE seen[Wanted(c)] \in {None, got[c]}
      <4>1. id' = id /\ bumps' = bumps
        BY <1>11, <3>3 DEF Observe
      <4>2. seen[r.key] # None => seen'[r.key] = seen[r.key]
        BY <2>1, <3>1, <3>3 DEF TypeOK
      <4> QED BY <4>1, <4>2 DEF AnswersLeadHere
    <3> QED BY <3>2, <3>3
  <2>3. AnswersLeadHere'
    BY <2>1, <2>2 DEF AnswersLeadHere, Later
  <2> QED BY <2>1, <2>3 DEF AnswersAgree
<1>12. ASSUME NEW c \in Calls, Publish(c) PROVE (AnswersLeadHere /\ AnswersAgree)'
  BY <1>12 DEF Publish, trackerVars, AnswersLeadHere, AnswersAgree
<1>13. ASSUME NEW c \in Calls, Forget(c) PROVE (AnswersLeadHere /\ AnswersAgree)'
  BY <1>13 DEF Forget, trackerVars, AnswersLeadHere, AnswersAgree
<1>14. ASSUME NEW c \in Calls, ReturnDirect(c) PROVE (AnswersLeadHere /\ AnswersAgree)'
  BY <1>14 DEF ReturnDirect, trackerVars, AnswersLeadHere, AnswersAgree
<1>15. ASSUME NEW c \in Calls, Answer(c) PROVE (AnswersLeadHere /\ AnswersAgree)'
  <2> DEFINE New == {[boot |-> restarts, key |-> k, val |-> view[c][k], id |-> id,
                      heard |-> seen[k], bumps |-> bumps]
                         : k \in {j \in Watched : c \in Browses /\ view[c][j] # None}}
  <2>1. answers' = answers \cup New /\ UNCHANGED <<id, seen, bumps, restarts>>
    BY <1>15 DEF Answer, trackerVars
  <2>2. \A n \in New : /\ n.boot = restarts /\ n.id = id /\ n.bumps = bumps
                       /\ n.heard = seen[n.key]
    OBVIOUS
  <2>3. id \in 1..IdRange - 1 /\ bumps \in Nat /\ restarts \in Nat /\ Later(id, 0) = id
    BY DEF TypeOK, Later
  <2>4. \A r \in answers : r.id \in 1..IdRange - 1 /\ r.bumps \in Nat /\ r.boot \in Nat
    BY DEF TypeOK
  <2> HIDE DEF New
  <2>5. AnswersLeadHere'
    BY <2>1, <2>2, <2>3 DEF AnswersLeadHere, Later
  <2>6. ASSUME NEW r \in answers, NEW n \in New, r.boot = restarts
        PROVE  /\ r.bumps <= bumps
               /\ bumps - r.bumps < IdRange - 1 => id = Later(r.id, bumps - r.bumps)
               /\ r.bumps = bumps => r.id = id
               /\ r.bumps = bumps /\ r.key = n.key => r.heard = n.heard \/ r.heard = None
    BY <2>2, <2>3, <2>4, <2>6 DEF AnswersLeadHere, Later
  <2>7. ASSUME NEW r \in answers', NEW t \in answers', r.boot = t.boot, r.bumps <= t.bumps
        PROVE  /\ t.bumps - r.bumps < IdRange - 1 => t.id = Later(r.id, t.bumps - r.bumps)
               /\ r.bumps = t.bumps /\ r.key = t.key =>
                      r.heard = t.heard \/ None \in {r.heard, t.heard}
    <3>1. CASE r \in answers /\ t \in answers
      BY <2>7, <3>1 DEF AnswersAgree
    <3>2. CASE r \in answers /\ t \in New
      BY <2>2, <2>6, <2>7, <3>2
    <3>3. CASE r \in New /\ t \in answers
      <4>1. t.bumps = bumps /\ t.id = id /\ r.bumps = bumps /\ r.id = id
        BY <2>2, <2>3, <2>4, <2>6, <2>7, <3>3
      <4> QED BY <2>2, <2>3, <2>6, <2>7, <3>3, <4>1
    <3>4. CASE r \in New /\ t \in New
      BY <2>2, <2>3, <3>4
    <3> QED BY <2>1, <3>1, <3>2, <3>3, <3>4
  <2> QED BY <2>5, <2>7 DEF AnswersAgree, Later
<1>16. CASE UNCHANGED vars
  BY <1>16 DEF vars, cacheVars, trackerVars, callVars, AnswersLeadHere, AnswersAgree, Later
<1> QED BY <1>1, <1>2, <1>3, <1>4, <1>5, <1>6, <1>7, <1>8, <1>9, <1>10, <1>11, <1>12, <1>13, <1>14, <1>15, <1>16 DEF Next, Step, AllAnswered

LEMMA InitInd == Init => Ind
<1> SUFFICES ASSUME Init PROVE Ind
  OBVIOUS
<1> USE NoneIsNothing, NumbersAreNatural DEF Init, Nothing
<1>1. TypeOK
  <2>1. ttl \in TTLs /\ clock \in 0..MaxTime /\ id \in 1..IdRange - 1 /\ bumps \in Nat
        /\ restarts \in 0..MaxRestarts
    OBVIOUS
  <2>2. immich \in [Keys -> Versions] /\ val \in [Calls \X Keys -> Results \cup {None}]
        /\ expires \in [Calls \X Keys -> 0..MaxTime + ttl] /\ began \in [Calls -> 0..MaxTime]
    BY DEF Versions
  <2>3. /\ pc \in [Calls -> Places] /\ plan \in [Calls -> Seq(Keys)]
        /\ waits \in [Calls -> Calls \cup {None}]
        /\ \A c \in Calls : waits[c] # None <=> pc[c] = "wait"
    BY DEF Places
  <2> QED BY <2>1, <2>2, <2>3 DEF TypeOK
<1>2. PlansAhead /\ ResultsAreReady /\ LeadersOwn
  BY DEF PlansAhead, Ahead, ResultsAreReady, LeadersOwn
<1>3. FailuresAreForgotten /\ NobodyIsAhead /\ NoStaleHits /\ AnswersLeadHere /\ AnswersAgree
  BY DEF FailuresAreForgotten, NobodyIsAhead, NoStaleHits, At, AnswersLeadHere, AnswersAgree
<1> QED BY <1>1, <1>2, <1>3 DEF Ind

-----------------------------------------------------------------------------
(* Theorems. *)

\* Every reachable state satisfies the inductive invariant.
THEOREM ListingCacheInvariance == Spec => []Ind
<1>1. Ind /\ [Next]_vars => Ind'
  BY TypeStep, PlansStep, ReadyStep, OwnStep, FailuresStep, StaleStep, AnswersStep DEF Ind
<1> QED BY InitInd, <1>1, PTL DEF Spec

\* dlna/listcache.go, dlna/updateid.go: every variable keeps its type; the
\* UpdateID is never 0.
THEOREM ListingCacheTypeCorrect == Spec => []TypeOK
<1>1. Ind => TypeOK
  BY DEF Ind
<1> QED BY ListingCacheInvariance, <1>1, PTL

\* dlna/listcache.go:18-19: at most one call loads a listing at a time, while
\* the cache is on.
THEOREM LoadsAreShared == Spec => []OneLoadPerKey
<1>1. Ind => OneLoadPerKey
  BY DEF Ind, LeadersOwn, OneLoadPerKey, Loading
<1> QED BY ListingCacheInvariance, <1>1, PTL

\* dlna/listcache.go:19: an error is in the cache only until its leader's next
\* step.
THEOREM FailuresAreNotCached == Spec => []FailuresAreForgotten
<1>1. Ind => FailuresAreForgotten
  BY DEF Ind
<1> QED BY ListingCacheInvariance, <1>1, PTL

\* LISTING_CACHE_SECONDS: no listing is served more than one TTL after its
\* load ended.
THEOREM HitsAreFresh == Spec => []NoStaleHits
<1>1. Ind => NoStaleHits
  BY DEF Ind
<1> QED BY ListingCacheInvariance, <1>1, PTL

\* dlna/updateid.go:11-17: one UpdateID, one state of every watched listing,
\* up to a full turn of the id.
THEOREM UpdateIdsTellApart == Spec => []IdTellsListingsApart
<1>1. Ind => IdTellsListingsApart
  <2> SUFFICES ASSUME Ind, NEW r \in answers, NEW t \in answers,
                      r.boot = t.boot, r.key = t.key, r.id = t.id, r.heard # t.heard,
                      None \notin {r.heard, t.heard}
               PROVE  \/ r.bumps - t.bumps >= IdRange - 1
                      \/ t.bumps - r.bumps >= IdRange - 1
    BY DEF IdTellsListingsApart
  <2>1. /\ r.id \in 1..IdRange - 1 /\ r.bumps \in Nat /\ t.bumps \in Nat
        /\ IdRange \in Nat
    BY NumbersAreNatural DEF Ind, TypeOK
  <2>2. r.bumps # t.bumps
    BY <2>1 DEF Ind, AnswersAgree
  <2>3. CASE r.bumps < t.bumps
    BY <2>1, <2>3 DEF Ind, AnswersAgree, Later
  <2>4. CASE t.bumps < r.bumps
    BY <2>1, <2>4 DEF Ind, AnswersAgree, Later
  <2> QED BY <2>1, <2>2, <2>3, <2>4
<1> QED BY ListingCacheInvariance, <1>1, PTL
=============================================================================
