--------------------------- MODULE AnnouncerProofs ---------------------------
(***************************************************************************)
(* FarewellIsComplete holds for any number of search targets and searches. *)
(*                                                                         *)
(* Its second half is about what no one goroutine knows: notifyLoop may be *)
(* anywhere in a burst when the farewell begins, and may even have a tick  *)
(* to take.  LastBurst says why it cannot begin two bursts after that: a   *)
(* tick it has not taken is one it has not sent a burst for.               *)
(***************************************************************************)
EXTENDS Announcer, TLAPS

\* The ticker fires at most once in its period, in which a burst begins and ends.
TicksAreRare ==
    /\ due => fired
    /\ notify \in {"none", "sending"} => fired /\ ~due

\* Where the responder is tells what it has started and said.
FarewellInOrder ==
    /\ bye > 1 => responder \in {"farewell", "done"}
    /\ responder \in {"farewell", "done"} => signalled
    /\ notify = "none" <=> responder \in {"starting", "failed"}
    /\ responder = "done" => bye = Targets + 1
    /\ main \in {"closing", "ended"} => responder \in {"done", "failed"}

\* A target announced after its byebye has been announced by the last burst.
LastBurst ==
    \A t \in T :
        /\ after[t] \in {0, 1}
        /\ after[t] = 1 => /\ bye > t /\ signalled /\ fired /\ ~due
                           /\ notify = "sending" => burst > t

Ind == TypeOK /\ TicksAreRare /\ FarewellInOrder /\ LastBurst

-----------------------------------------------------------------------------
(* Type correctness. *)

LEMMA InitTyped == Init => TypeOK
<1> USE TargetsAssumption
<1> SUFFICES ASSUME Init PROVE TypeOK
  OBVIOUS
<1>1. burst \in T /\ bye \in 1..Targets + 1
  BY DEF T, Init
<1>2. reply \in [1..Searches -> [next : 0..Targets + 1, last : 0..Targets]]
  <2>1. [next |-> 0, last |-> 0] \in [next : 0..Targets + 1, last : 0..Targets]
    OBVIOUS
  <2>2. QED
    BY <2>1 DEF Init
<1>3. /\ told \in [T -> {"nothing", "alive", "byebye"}]
      /\ after \in [T -> Nat]
  BY DEF Init
<1>4. QED
  BY <1>1, <1>2, <1>3 DEF Init, TypeOK

\* Every variable keeps its type.
LEMMA NextTyped == TypeOK /\ [Next]_vars => TypeOK'
<1> SUFFICES ASSUME TypeOK, [Next]_vars PROVE TypeOK'
  OBVIOUS
<1> USE TargetsAssumption
<1>1. CASE Signal
  BY <1>1 DEF TypeOK, Signal, farewell, notifyVars, network
<1>2. CASE HttpListens
  BY <1>2 DEF TypeOK, HttpListens, farewell, notifyVars, network
<1>3. CASE HttpFails
  BY <1>3 DEF TypeOK, HttpFails, farewell, notifyVars, network
<1>4. CASE Main
  <2>1. CASE MainFails
    BY <2>1 DEF TypeOK, MainFails, farewell, notifyVars, network
  <2>2. CASE MainStops
    BY <2>2 DEF TypeOK, MainStops, farewell, notifyVars, network
  <2>3. CASE MainDrained
    BY <2>3 DEF TypeOK, MainDrained, farewell, notifyVars, network
  <2>4. CASE MainEnds
    BY <2>4 DEF TypeOK, MainEnds, farewell, notifyVars, network
  <2>5. QED
    BY <1>4, <2>1, <2>2, <2>3, <2>4 DEF Main
<1>5. CASE ResponderFails
  BY <1>5 DEF TypeOK, ResponderFails, notifyVars, network
<1>6. CASE ResponderStarts
  BY <1>6 DEF TypeOK, ResponderStarts, mainVars, network
<1>7. CASE ReadFails
  BY <1>7 DEF TypeOK, ReadFails, mainVars, notifyVars, network
<1>8. CASE SendByebye
  <2>1. bye \in T /\ bye + 1 \in 1..Targets + 1
    BY <1>8 DEF TypeOK, SendByebye, T
  <2>2. told' \in [T -> {"nothing", "alive", "byebye"}]
    BY <1>8, <2>1 DEF TypeOK, SendByebye
  <2>3. QED
    BY <1>8, <2>1, <2>2 DEF TypeOK, SendByebye, mainVars, notifyVars
<1>9. CASE ResponderEnds
  BY <1>9 DEF TypeOK, ResponderEnds, mainVars, notifyVars, network
<1>10. CASE SendAlive
  <2>1. burst' \in T /\ notify' \in {"none", "sending", "waiting", "ended"}
    BY <1>10 DEF TypeOK, SendAlive, T
  <2>2. told' \in [T -> {"nothing", "alive", "byebye"}]
    BY <1>10 DEF TypeOK, SendAlive, SayAlive
  <2>3. after' \in [T -> Nat]
    BY <1>10 DEF TypeOK, SendAlive
  <2>4. QED
    BY <1>10, <2>1, <2>2, <2>3 DEF TypeOK, SendAlive, mainVars, farewell
<1>11. CASE TickerFires
  BY <1>11 DEF TypeOK, TickerFires, mainVars, farewell, network
<1>12. CASE TimePasses
  BY <1>12 DEF TypeOK, TimePasses, mainVars, farewell, network
<1>13. CASE TakeTick
  BY <1>13 DEF TypeOK, TakeTick, mainVars, farewell, network
<1>14. CASE NotifyEnds
  BY <1>14 DEF TypeOK, NotifyEnds, mainVars, farewell, network
<1>15. ASSUME NEW i \in 1..Searches, ReadSearch(i) PROVE TypeOK'
  <2>1. PICK r \in {[next |-> t, last |-> t] : t \in T} \cup {[next |-> 1, last |-> Targets]} :
          reply' = [reply EXCEPT ![i] = r]
    BY <1>15 DEF ReadSearch
  <2>2. r \in [next : 0..Targets + 1, last : 0..Targets]
    BY DEF T
  <2>3. reply' \in [1..Searches -> [next : 0..Targets + 1, last : 0..Targets]]
    BY <2>1, <2>2 DEF TypeOK
  <2>4. QED
    BY <1>15, <2>3 DEF TypeOK, ReadSearch, mainVars, farewell, notifyVars, network
<1>16. ASSUME NEW i \in 1..Searches, Reply(i) PROVE TypeOK'
  <2> DEFINE Places == [next : 0..Targets + 1, last : 0..Targets]
  <2>1. reply[i] \in Places
    BY DEF TypeOK
  <2>2. reply[i].next + 1 \in 0..Targets + 1
    BY <1>16, <2>1 DEF Reply
  <2>3. [reply[i] EXCEPT !.next = reply[i].next + 1] \in Places
    BY <2>1, <2>2
  <2>4. reply' = [reply EXCEPT ![i] = [reply[i] EXCEPT !.next = reply[i].next + 1]]
    BY <1>16 DEF Reply
  <2>5. reply' \in [1..Searches -> Places]
    BY <2>3, <2>4 DEF TypeOK
  <2>6. told' \in [T -> {"nothing", "alive", "byebye"}]
    BY <1>16 DEF TypeOK, Reply, SayAlive
  <2>7. QED
    BY <1>16, <2>5, <2>6 DEF TypeOK, Reply, mainVars, farewell, notifyVars
<1>17. CASE UNCHANGED vars
  BY <1>17 DEF TypeOK, vars
<1>18. QED
  BY <1>1, <1>2, <1>3, <1>4, <1>5, <1>6, <1>7, <1>8, <1>9, <1>10, <1>11, <1>12, <1>13, <1>14,
     <1>15, <1>16, <1>17 DEF Next, Responder, Notify

\* Every variable of the announcer keeps its type: bursts and farewells name targets there are.
\* (searchTargets and the loops over it, ssdp.go:24-26, 155, 173.)
THEOREM AnnouncerTypeCorrect == Spec => []TypeOK
<1>1. QED
  BY InitTyped, NextTyped, PTL DEF Spec

-----------------------------------------------------------------------------
(* The invariant. *)

LEMMA InitInd == Init => Ind
<1> SUFFICES ASSUME Init PROVE Ind
  OBVIOUS
<1>1. TypeOK
  BY InitTyped
<1>2. TicksAreRare /\ FarewellInOrder /\ LastBurst
  BY DEF Init, TicksAreRare, FarewellInOrder, LastBurst
<1>3. QED
  BY <1>1, <1>2 DEF Ind

LEMMA TicksStayRare == Ind /\ [Next]_vars => TicksAreRare'
<1> SUFFICES ASSUME Ind, [Next]_vars PROVE TicksAreRare'
  OBVIOUS
<1> USE DEF Ind, TicksAreRare
<1>1. CASE Signal \/ HttpListens \/ HttpFails \/ Main
  BY <1>1 DEF Signal, HttpListens, HttpFails, Main, MainFails, MainStops, MainDrained, MainEnds, notifyVars
<1>2. CASE Responder
  <2>1. CASE ResponderStarts
    BY <2>1 DEF ResponderStarts, FarewellInOrder
  <2>2. CASE ResponderFails \/ ReadFails \/ SendByebye \/ ResponderEnds
    BY <2>2 DEF ResponderFails, ReadFails, SendByebye, ResponderEnds, notifyVars
  <2>3. QED
    BY <1>2, <2>1, <2>2 DEF Responder
<1>3. CASE Notify
  BY <1>3 DEF Notify, SendAlive, TickerFires, TimePasses, TakeTick, NotifyEnds, TypeOK
<1>4. ASSUME NEW i \in 1..Searches, ReadSearch(i) \/ Reply(i) PROVE TicksAreRare'
  BY <1>4 DEF ReadSearch, Reply, notifyVars
<1>5. CASE UNCHANGED vars
  BY <1>5 DEF vars
<1>6. QED
  BY <1>1, <1>2, <1>3, <1>4, <1>5 DEF Next

LEMMA FarewellStaysInOrder == Ind /\ [Next]_vars => FarewellInOrder'
<1> SUFFICES ASSUME Ind, [Next]_vars PROVE FarewellInOrder'
  OBVIOUS
<1> USE DEF Ind, FarewellInOrder
<1>1. CASE Signal \/ HttpListens \/ HttpFails
  BY <1>1 DEF Signal, HttpListens, HttpFails, farewell, notifyVars
<1>2. CASE Main
  BY <1>2 DEF Main, MainFails, MainStops, MainDrained, MainEnds, farewell, notifyVars
<1>3. CASE Responder
  <2>1. CASE ResponderFails \/ ResponderStarts \/ ReadFails
    BY <2>1 DEF ResponderFails, ResponderStarts, ReadFails, mainVars, notifyVars
  <2>2. CASE SendByebye
    BY <2>2 DEF SendByebye, mainVars, notifyVars, Running
  <2>3. CASE ResponderEnds
    BY <2>3, TargetsAssumption DEF ResponderEnds, TypeOK, mainVars, notifyVars
  <2>4. QED
    BY <1>3, <2>1, <2>2, <2>3 DEF Responder
<1>4. CASE Notify
  BY <1>4 DEF Notify, SendAlive, TickerFires, TimePasses, TakeTick, NotifyEnds, mainVars, farewell
<1>5. ASSUME NEW i \in 1..Searches, ReadSearch(i) \/ Reply(i) PROVE FarewellInOrder'
  BY <1>5 DEF ReadSearch, Reply, mainVars, farewell, notifyVars
<1>6. CASE UNCHANGED vars
  BY <1>6 DEF vars
<1>7. QED
  BY <1>1, <1>2, <1>3, <1>4, <1>5, <1>6 DEF Next

\* No burst but the one the farewell interrupts comes after a byebye.
LEMMA LastBurstIsLast == Ind /\ [Next]_vars => LastBurst'
<1> SUFFICES ASSUME Ind, [Next]_vars, NEW t \in T
             PROVE  /\ after'[t] \in {0, 1}
                    /\ after'[t] = 1 => /\ bye' > t /\ signalled' /\ fired' /\ ~due'
                                        /\ notify' = "sending" => burst' > t
  BY DEF LastBurst
<1> USE TargetsAssumption
<1>a. /\ after[t] \in {0, 1}
      /\ after[t] = 1 => /\ bye > t /\ signalled /\ fired /\ ~due
                         /\ notify = "sending" => burst > t
  BY DEF Ind, LastBurst
<1>b. t \in Nat /\ t >= 1 /\ bye \in Nat /\ burst \in T /\ burst \in Nat
  BY DEF Ind, TypeOK, T
<1>c. after[t] = 1 => responder \in {"farewell", "done"}
  BY <1>a, <1>b DEF Ind, FarewellInOrder
<1>1. CASE Signal \/ HttpListens \/ HttpFails \/ Main
  BY <1>1, <1>a DEF Signal, HttpListens, HttpFails, Main, MainFails, MainStops, MainDrained, MainEnds,
                    farewell, notifyVars, network
<1>2. CASE Responder
  <2>1. CASE ResponderFails \/ ReadFails \/ ResponderEnds
    BY <2>1, <1>a DEF ResponderFails, ReadFails, ResponderEnds, mainVars, notifyVars, network
  <2>2. CASE ResponderStarts
    BY <2>2, <1>a, <1>c DEF ResponderStarts, mainVars, network
  <2>3. CASE SendByebye
    BY <2>3, <1>a, <1>b DEF SendByebye, mainVars, notifyVars
  <2>4. QED
    BY <1>2, <2>1, <2>2, <2>3 DEF Responder
<1>3. CASE SendAlive
  <2>1. bye' = bye /\ signalled' = signalled /\ fired /\ ~due /\ fired' /\ ~due'
    BY <1>3 DEF SendAlive, Ind, TicksAreRare, mainVars, farewell
  <2>2. notify' = "sending" => burst' = burst + 1
    BY <1>3, <1>b DEF SendAlive, T
  <2>3. CASE after' = after
    BY <2>1, <2>2, <2>3, <1>3, <1>a, <1>b DEF SendAlive
  <2>4. CASE OutConnOpen /\ bye > burst /\ after' = [after EXCEPT ![burst] = @ + 1]
    <3>1. signalled
      BY <2>4, <1>b DEF Ind, FarewellInOrder, T
    <3>2. CASE t = burst
      <4>1. after[t] = 0
        BY <3>2, <1>3, <1>a, <1>b DEF SendAlive
      <4>2. after'[t] = 1
        BY <4>1, <3>2, <2>4 DEF Ind, TypeOK
      <4>3. QED
        BY <4>2, <3>1, <3>2, <2>1, <2>2, <2>4, <1>b
    <3>3. CASE t # burst
      <4>1. after'[t] = after[t]
        BY <3>3, <2>4 DEF Ind, TypeOK
      <4>2. QED
        BY <4>1, <2>1, <2>2, <1>3, <1>a, <1>b DEF SendAlive
    <3>4. QED
      BY <3>2, <3>3
  <2>5. QED
    BY <2>3, <2>4, <1>3 DEF SendAlive
<1>4. CASE TickerFires \/ TakeTick
  BY <1>4, <1>a DEF TickerFires, TakeTick, mainVars, farewell, network
<1>5. CASE TimePasses
  BY <1>5, <1>a DEF TimePasses, mainVars, farewell, network
<1>6. CASE NotifyEnds
  BY <1>6, <1>a DEF NotifyEnds, mainVars, farewell, network
<1>7. ASSUME NEW i \in 1..Searches, ReadSearch(i) \/ Reply(i)
      PROVE  UNCHANGED <<after, bye, signalled, fired, due, notify, burst>>
  BY <1>7 DEF ReadSearch, Reply, mainVars, farewell, notifyVars, network
<1>8. CASE UNCHANGED vars
  BY <1>8, <1>a DEF vars
<1>9. QED
  BY <1>1, <1>2, <1>3, <1>4, <1>5, <1>6, <1>7, <1>8, <1>a DEF Next, Notify

\* What the farewell rests on, at every moment.
THEOREM AnnouncerInvariance == Spec => []Ind
<1>1. Ind /\ [Next]_vars => Ind'
  BY NextTyped, TicksStayRare, FarewellStaysInOrder, LastBurstIsLast DEF Ind
<1>2. QED
  BY InitInd, <1>1, PTL DEF Spec

\* A process that a signal has ended has said byebye of every target, unless its responder failed
\* to start; and notifyLoop announces no target more than once after its byebye. (main.go:121,
\* ssdp.go:81-84, 139-150.)
THEOREM FarewellIsAlwaysComplete == Spec => []FarewellIsComplete
<1>1. Ind => FarewellIsComplete
  <2> SUFFICES ASSUME Ind PROVE FarewellIsComplete
    OBVIOUS
  <2>1. main = "ended" => responder = "failed" \/ bye = Targets + 1
    BY DEF Ind, FarewellInOrder
  <2>2. \A t \in T : after[t] <= 1
    BY DEF Ind, LastBurst
  <2>3. QED
    BY <2>1, <2>2 DEF FarewellIsComplete
<1>2. QED
  BY AnnouncerInvariance, <1>1, PTL
=============================================================================
