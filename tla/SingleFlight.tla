---------------------------- MODULE SingleFlight ----------------------------
(***************************************************************************)
(* What the flights of Server.serveMedia promise (comments at              *)
(* dlna/server.go:51-55 and 478-480), without saying how: per key at most  *)
(* one caller fills the cache at a time; others may wait for it; a filler  *)
(* leaves the table before it is announced as landed; and a waiter leaves  *)
(* only because the very filler it waits for has landed, because that one  *)
(* turned out to stream, or because it gave up itself.                     *)
(***************************************************************************)
CONSTANTS
    Keys,
    PromptKeys,  \* keys whose fill waits for nobody but Immich and the disk
    Callers,
    None

VARIABLES
    filling,    \* per key, the caller that fills it
    phase,      \* per caller, how far its own fill has come
    streaming,  \* fillers that told their waiters not to wait for the end
    waits,      \* per caller, the filler it waits for
    impatient   \* callers free to stop waiting

vars == <<filling, phase, streaming, waits, impatient>>

Init ==
    /\ filling = [k \in Keys |-> None]
    /\ phase = [c \in Callers |-> "none"]
    /\ streaming = {}
    /\ waits = [c \in Callers |-> None]
    /\ impatient = {}

SetPhase(c, from, to) == phase[c] = from /\ phase' = [phase EXCEPT ![c] = to]

\* A caller begins at most one fill, of a key nobody is filling.
Begin(c, k) ==
    /\ filling[k] = None
    /\ filling' = [filling EXCEPT ![k] = c]
    /\ waits[c] = None
    /\ SetPhase(c, "none", "filling")
    /\ UNCHANGED <<streaming, waits, impatient>>

Follow(c, k) ==
    /\ filling[k] # None
    /\ phase[c] = "none"
    /\ waits[c] = None
    /\ waits' = [waits EXCEPT ![c] = filling[k]]
    /\ UNCHANGED <<filling, phase, streaming, impatient>>

Stream(c) ==
    /\ phase[c] = "filling"
    /\ c \notin streaming
    /\ streaming' = streaming \cup {c}
    /\ UNCHANGED <<filling, phase, waits, impatient>>

Land(c, k) ==
    /\ filling[k] = c
    /\ filling' = [filling EXCEPT ![k] = None]
    /\ SetPhase(c, "filling", "landed")
    /\ UNCHANGED <<streaming, waits, impatient>>

Announce(c) ==
    /\ SetPhase(c, "landed", "announced")
    /\ UNCHANGED <<filling, streaming, waits, impatient>>

Release(c) ==
    /\ waits[c] # None
    /\ phase[waits[c]] = "announced" \/ waits[c] \in streaming \/ c \in impatient
    /\ waits' = [waits EXCEPT ![c] = None]
    /\ UNCHANGED <<filling, phase, streaming, impatient>>

GiveUp(c) ==
    /\ impatient' = impatient \cup {c}
    /\ UNCHANGED <<filling, phase, streaming, waits>>

Next ==
    \E c \in Callers :
        \/ \E k \in Keys : Begin(c, k) \/ Follow(c, k) \/ Land(c, k)
        \/ Stream(c) \/ Announce(c) \/ Release(c) \/ GiveUp(c)

Spec == Init /\ [][Next]_vars

\* Every prompt fill lands, every landing is announced, and every waiter that
\* may go goes.
FairSpec ==
    /\ Spec
    /\ \A c \in Callers : /\ WF_vars(\E k \in PromptKeys : Land(c, k))
                          /\ WF_vars(Announce(c))
                          /\ WF_vars(Release(c))
=============================================================================
