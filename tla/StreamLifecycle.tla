---- MODULE StreamLifecycle ----
(***************************************************************************)
(* What GB28181Device promises of its RtpClients: each is started once,    *)
(* stopped by one thread once and never used again, and when close() has   *)
(* returned no stream is left that nobody is stopping.                     *)
(***************************************************************************)
CONSTANT Clients

VARIABLES
    life,   \* of each client: "new", "owned", "stopping" or "closed"
    device  \* "open" until close() has returned

vars == <<life, device>>

Init ==
    /\ life = [r \in Clients |-> "new"]
    /\ device = "open"

Start(r) ==
    /\ device = "open"
    /\ life[r] = "new"
    /\ life' = [life EXCEPT ![r] = "owned"]
    /\ UNCHANGED device

\* A thread takes the client over to stop it.
Claim(r) ==
    /\ device = "open"
    /\ life[r] = "owned"
    /\ life' = [life EXCEPT ![r] = "stopping"]
    /\ UNCHANGED device

\* The stream's thread is joined and its descriptor closed.
Close(r) ==
    /\ life[r] = "stopping"
    /\ life' = [life EXCEPT ![r] = "closed"]
    /\ UNCHANGED device

Shut ==
    /\ device = "open"
    /\ \A r \in Clients : life[r] # "owned"
    /\ device' = "shut"
    /\ UNCHANGED life

Next ==
    \/ \E r \in Clients : Start(r) \/ Claim(r) \/ Close(r)
    \/ Shut

Spec == Init /\ [][Next]_vars
====
