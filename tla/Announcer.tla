----------------------------- MODULE Announcer ------------------------------
(***************************************************************************)
(* The life of the process (main.go) and its announcements (dlna/ssdp.go): *)
(* the HTTP server, the SSDP responder, notifyLoop and one goroutine per   *)
(* answered M-SEARCH run side by side; main waits for a failure of the     *)
(* first two or for a signal, and after a signal for the responder's       *)
(* farewell.  Targets are numbered in the order of searchTargets.          *)
(***************************************************************************)
EXTENDS Integers

CONSTANTS
    Targets,    \* how many search targets there are: 6
    Searches    \* bound on the matching M-SEARCHes that are read

ASSUME TargetsAssumption == Targets \in Nat \ {0} /\ Searches \in Nat

VARIABLES
    signalled,  \* ctx is cancelled
    main,       \* where main is; "ended" and "fatal" end the process
    errc,       \* the goroutines whose error is in errc
    http,       \* "starting", "listening", "failed" or "closed"
    responder,  \* where RunSSDP is
    bye,        \* the next target of its farewell
    notify,     \* where notifyLoop is
    burst,      \* the next target of its burst
    due,        \* ticker.C holds a tick
    fired,      \* the ticker has fired, or been made, less than its period ago
    reply,      \* per M-SEARCH, the next and the last target it is answered for; 0 before it is read
    told,       \* history: the last thing said of each target on the network
    after       \* history: how often notifyLoop has announced a target after its byebye

vars == <<signalled, main, errc, http, responder, bye, notify, burst, due, fired, reply, told, after>>

mainVars   == <<signalled, main, errc, http>>
farewell   == <<responder, bye>>
notifyVars == <<notify, burst, due, fired>>
network    == <<told, after>>

T == 1..Targets

\* The goroutines run until main returns or log.Fatal is called.
Running == main \notin {"ended", "fatal"}

\* RunSSDP closes its outgoing socket when it returns.
OutConnOpen == responder \in {"reading", "farewell"}

TypeOK ==
    /\ signalled \in BOOLEAN
    /\ main \in {"select", "draining", "closing", "ended", "fatal"}
    /\ errc \subseteq {"http", "ssdp"}
    /\ http \in {"starting", "listening", "failed", "closed"}
    /\ responder \in {"starting", "reading", "farewell", "done", "failed"}
    /\ bye \in 1..Targets + 1
    /\ notify \in {"none", "sending", "waiting", "ended"}
    /\ burst \in T
    /\ due \in BOOLEAN /\ fired \in BOOLEAN
    /\ reply \in [1..Searches -> [next : 0..Targets + 1, last : 0..Targets]]
    /\ told \in [T -> {"nothing", "alive", "byebye"}]
    /\ after \in [T -> Nat]

Init ==
    /\ signalled = FALSE
    /\ main = "select"
    /\ errc = {}
    /\ http = "starting"
    /\ responder = "starting" /\ bye = 1
    /\ notify = "none" /\ burst = 1 /\ due = FALSE /\ fired = TRUE
    /\ reply = [i \in 1..Searches |-> [next |-> 0, last |-> 0]]
    /\ told = [t \in T |-> "nothing"]
    /\ after = [t \in T |-> 0]

-----------------------------------------------------------------------------
(* The network.  A write to a closed socket fails and is only logged. *)

SayAlive(t) ==
    IF OutConnOpen
    THEN told' = [told EXCEPT ![t] = "alive"]
    ELSE UNCHANGED told

-----------------------------------------------------------------------------
(* main. *)

\* SIGINT or SIGTERM; a second one changes nothing.
Signal ==
    /\ Running /\ ~signalled
    /\ signalled' = TRUE
    /\ UNCHANGED <<main, errc, http, farewell, notifyVars, reply, network>>

MainFails ==
    /\ main = "select" /\ errc # {}
    /\ main' = "fatal"
    /\ UNCHANGED <<signalled, errc, http, farewell, notifyVars, reply, network>>

MainStops ==
    /\ main = "select" /\ signalled
    /\ main' = "draining"
    /\ UNCHANGED <<signalled, errc, http, farewell, notifyVars, reply, network>>

\* A mutant: ssdpDone is not waited for.
MainDrainsAtOnce ==
    /\ main = "draining"
    /\ main' = "closing"
    /\ UNCHANGED <<signalled, errc, http, farewell, notifyVars, reply, network>>

\* ssdpDone is closed; httpServer.Shutdown stops the listeners.
MainDrained ==
    /\ main = "draining" /\ responder \in {"done", "failed"}
    /\ main' = "closing"
    /\ http' = IF http = "failed" THEN http ELSE "closed"
    /\ UNCHANGED <<signalled, errc, farewell, notifyVars, reply, network>>

\* Shutdown returns, when the requests in flight are over or after five seconds.
MainEnds ==
    /\ main = "closing"
    /\ main' = "ended"
    /\ UNCHANGED <<signalled, errc, http, farewell, notifyVars, reply, network>>

-----------------------------------------------------------------------------
(* The HTTP server. *)

HttpListens ==
    /\ Running /\ http = "starting"
    /\ http' = "listening"
    /\ UNCHANGED <<signalled, main, errc, farewell, notifyVars, reply, network>>

HttpFails ==
    /\ Running /\ http \in {"starting", "listening"}
    /\ http' = "failed"
    /\ errc' = errc \cup {"http"}
    /\ UNCHANGED <<signalled, main, farewell, notifyVars, reply, network>>

-----------------------------------------------------------------------------
(* RunSSDP. *)

\* No address, interface or socket.
ResponderFails ==
    /\ Running /\ responder = "starting"
    /\ responder' = "failed"
    /\ errc' = errc \cup {"ssdp"}
    /\ UNCHANGED <<signalled, main, http, bye, notifyVars, reply, network>>

\* The sockets are open and notifyLoop is started, also after a signal.
ResponderStarts ==
    /\ Running /\ responder = "starting"
    /\ responder' = "reading"
    /\ notify' = "sending"
    /\ UNCHANGED <<mainVars, bye, burst, due, fired, reply, network>>

\* An M-SEARCH for one target, or for ssdp:all.  Others are skipped.
ReadSearch(i) ==
    /\ Running /\ responder = "reading" /\ reply[i].next = 0
    /\ \E r \in {[next |-> t, last |-> t] : t \in T} \cup {[next |-> 1, last |-> Targets]} :
         reply' = [reply EXCEPT ![i] = r]
    /\ UNCHANGED <<mainVars, farewell, notifyVars, network>>

\* A mutant: after any error the next datagram is read.
ReadFailsAgain ==
    /\ Running /\ responder = "reading" /\ signalled
    /\ UNCHANGED vars

\* ReadFromUDP fails after the signal, which closes the listening socket.  An error before it
\* changes nothing.
ReadFails ==
    /\ Running /\ responder = "reading" /\ signalled
    /\ responder' = "farewell"
    /\ UNCHANGED <<mainVars, bye, notifyVars, reply, network>>

\* sendByebye, one target.
SendByebye ==
    /\ Running /\ responder = "farewell" /\ bye <= Targets
    /\ told' = [told EXCEPT ![bye] = "byebye"]
    /\ bye' = bye + 1
    /\ UNCHANGED <<mainVars, responder, notifyVars, reply, after>>

\* RunSSDP returns: the sockets are closed, and then ssdpDone.
ResponderEnds ==
    /\ Running /\ responder = "farewell" /\ bye > Targets
    /\ responder' = "done"
    /\ UNCHANGED <<mainVars, bye, notifyVars, reply, network>>

-----------------------------------------------------------------------------
(* respondMSearch, one reply. *)

Reply(i) ==
    /\ Running /\ reply[i].next # 0 /\ reply[i].next <= reply[i].last
    /\ SayAlive(reply[i].next)
    /\ reply' = [reply EXCEPT ![i].next = @ + 1]
    /\ UNCHANGED <<mainVars, farewell, notifyVars, after>>

-----------------------------------------------------------------------------
(* notifyLoop. *)

\* A mutant: the next burst goes on where this one ended.
SendAliveOn ==
    /\ Running /\ notify = "sending"
    /\ SayAlive(burst)
    /\ burst' = burst + 1
    /\ UNCHANGED after
    /\ notify' = IF burst >= Targets THEN "waiting" ELSE notify
    /\ UNCHANGED <<mainVars, farewell, due, fired, reply>>

\* sendAlive, one target; then to the select.
SendAlive ==
    /\ Running /\ notify = "sending"
    /\ SayAlive(burst)
    /\ after' = IF OutConnOpen /\ bye > burst THEN [after EXCEPT ![burst] = @ + 1] ELSE after
    /\ burst' = IF burst = Targets THEN 1 ELSE burst + 1
    /\ notify' = IF burst = Targets THEN "waiting" ELSE notify
    /\ UNCHANGED <<mainVars, farewell, due, fired, reply>>

TickerFires ==
    /\ Running /\ notify \in {"sending", "waiting"} /\ ~fired
    /\ due' = TRUE /\ fired' = TRUE
    /\ UNCHANGED <<mainVars, farewell, notify, burst, reply, network>>

\* The ticker's 15 minutes pass, which no burst and no shutdown takes.
TimePasses ==
    /\ Running /\ ~signalled /\ notify = "waiting" /\ ~due
    /\ fired' = FALSE
    /\ UNCHANGED <<mainVars, farewell, notify, burst, due, reply, network>>

\* The select: whichever is ready, and either if both are.
TakeTick ==
    /\ Running /\ notify = "waiting" /\ due
    /\ due' = FALSE
    /\ notify' = "sending"
    /\ UNCHANGED <<mainVars, farewell, burst, fired, reply, network>>

NotifyEnds ==
    /\ Running /\ notify = "waiting" /\ signalled
    /\ notify' = "ended"
    /\ UNCHANGED <<mainVars, farewell, burst, due, fired, reply, network>>

-----------------------------------------------------------------------------

Main      == MainFails \/ MainStops \/ MainDrained \/ MainEnds
Responder == ResponderFails \/ ResponderStarts \/ ReadFails \/ SendByebye \/ ResponderEnds
Notify    == SendAlive \/ TickerFires \/ TimePasses \/ TakeTick \/ NotifyEnds

Next ==
    \/ Signal \/ HttpListens \/ HttpFails
    \/ Main \/ Responder \/ Notify
    \/ \E i \in 1..Searches : ReadSearch(i) \/ Reply(i)

Spec == Init /\ [][Next]_vars

\* main and RunSSDP are goroutines that run; a write to a UDP socket does not block for ever.
FairSpec == Spec /\ WF_vars(Main) /\ WF_vars(Responder)

-----------------------------------------------------------------------------
(* Properties. *)

\* A process that a signal has ended has said byebye of every target, unless its responder never
\* got to announce any; and though notifyLoop writes to the same socket meanwhile, it says of no
\* target more than once that it is there after its byebye: the rest of one burst.  (main waits
\* for ssdpDone, main.go:122; sendByebye against notifyLoop, ssdp.go:81-84 and 139-150.)
FarewellIsComplete ==
    /\ main = "ended" => responder = "failed" \/ bye = Targets + 1
    /\ \A t \in T : after[t] <= 1

\* After a signal, or the failure of the HTTP server or the responder, the process ends.
\* (main's select and its wait for ssdpDone, main.go:115-127.)
Stops == signalled \/ errc # {} ~> ~Running

\* What ssdp.go:30-34 says of the farewell: clients drop the server right away, rather than
\* list it until the last announcement runs out.
ByebyeIsLast == main = "ended" /\ responder = "done" => \A t \in T : told[t] = "byebye"
=============================================================================
