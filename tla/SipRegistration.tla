---- MODULE SipRegistration ----
(***************************************************************************)
(* What SipClient promises of its registration, without its threads: one   *)
(* context at a time, released by whoever ends it, unless a start finds    *)
(* the client open and overwrites it, after which no start succeeds; a     *)
(* start that fails says nothing to the registrar; the registrar is asked  *)
(* again and again while the client is open; and a client that closes      *)
(* takes its last word back, unless that word is still unanswered, before  *)
(* its context is released.                                                *)
(***************************************************************************)
CONSTANT Sessions

VARIABLES
    life,   \* the context of each start: "none", "live", "quit" or "lost"
    client, \* "closed", "starting", "failing", "open" or "closing"
    asked,  \* the registrar was asked for "nothing"; for a binding: "pending"
            \* or "answered"; to drop it: "drop" or "dropped"; or a pending
            \* request was "left" behind
    bound,  \* the registrar has a binding
    stray   \* a lost context's request is pending

vars == <<life, client, asked, bound, stray>>

Init ==
    /\ life = [s \in Sessions |-> "none"]
    /\ client = "closed"
    /\ asked = "nothing"
    /\ bound = FALSE
    /\ stray = FALSE

----
Begin(s) ==
    /\ client = "closed"
    /\ life[s] = "none"
    /\ life' = [life EXCEPT ![s] = "live"]
    /\ client' = "starting"
    /\ UNCHANGED <<asked, bound, stray>>

\* The start of a client that is open forgets the context it has.
Overwrite(r, s) ==
    /\ client = "open"
    /\ life[r] = "live"
    /\ life[s] = "none"
    /\ life' = [life EXCEPT ![r] = "lost", ![s] = "live"]
    /\ client' = "starting"
    /\ asked' = "nothing"
    /\ stray' = (stray \/ asked = "pending")
    /\ UNCHANGED bound

Fail ==
    /\ client = "starting"
    /\ client' = "failing"
    /\ UNCHANGED <<life, asked, bound, stray>>

\* A lost context keeps the port.
Open ==
    /\ client = "starting"
    /\ \A s \in Sessions : life[s] # "lost"
    /\ client' = "open"
    /\ asked' = "pending"
    /\ UNCHANGED <<life, bound, stray>>

Close ==
    /\ client = "open"
    /\ client' = "closing"
    /\ UNCHANGED <<life, asked, bound, stray>>

\* The last word of a client that closes.
TakeBack ==
    /\ client = "closing"
    /\ \/ asked = "answered" /\ asked' = "drop"
       \/ asked = "pending" /\ asked' = "left"
    /\ UNCHANGED <<life, client, bound, stray>>

\* The context of a failed start is released; nothing was asked.
EndFailed(s) ==
    /\ client = "failing"
    /\ life[s] = "live"
    /\ asked = "nothing"
    /\ life' = [life EXCEPT ![s] = "quit"]
    /\ client' = "closed"
    /\ UNCHANGED <<asked, bound, stray>>

\* The context of a client that has taken its word back is released; what is
\* under way may arrive or not.
End(s) ==
    /\ client = "closing"
    /\ life[s] = "live"
    /\ \/ UNCHANGED bound
       \/ asked = "drop" /\ bound' = FALSE
       \/ asked = "left" /\ bound' = TRUE
    /\ asked \in {"drop", "dropped", "left"}
    /\ asked' = "nothing"
    /\ life' = [life EXCEPT ![s] = "quit"]
    /\ client' = "closed"
    /\ UNCHANGED stray

----
Register ==
    /\ client \in {"open", "closing"}
    /\ asked = "answered"
    /\ asked' = "pending"
    /\ UNCHANGED <<life, client, bound, stray>>

\* An answer to the request, or none in time.
Answer ==
    /\ client \in {"open", "closing"}
    /\ asked = "pending"
    /\ asked' = "answered"
    /\ bound' \in {bound, TRUE}
    /\ UNCHANGED <<life, client, stray>>

\* The last word of a client that closes reaches the registrar.
Arrive ==
    /\ client = "closing"
    /\ \/ asked = "drop" /\ asked' = "dropped" /\ bound' = FALSE
       \/ asked = "left" /\ UNCHANGED asked /\ bound' = TRUE
    /\ UNCHANGED <<life, client, stray>>

\* The request of a lost context reaches the registrar or does not.
StrayAnswered ==
    /\ stray
    /\ stray' = FALSE
    /\ bound' \in {bound, TRUE}
    /\ UNCHANGED <<life, client, asked>>

Next ==
    \/ \E s \in Sessions : Begin(s) \/ EndFailed(s) \/ End(s)
    \/ \E r, s \in Sessions : Overwrite(r, s)
    \/ Fail \/ Open \/ Close \/ TakeBack
    \/ Register \/ Answer \/ Arrive \/ StrayAnswered

Spec == Init /\ [][Next]_vars
====
