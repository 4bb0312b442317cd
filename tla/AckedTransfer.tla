----------------------------- MODULE AckedTransfer -----------------------------
(***************************************************************************)
(* What the client/server demo promises, with no endpoints, requests or    *)
(* callbacks: the server takes one client at a time, completes its n       *)
(* receives in that client's session, and only then lets go of it; a       *)
(* client reports success only when all n were completed.  The server may  *)
(* stop at any time and any client may fail.                               *)
(***************************************************************************)
EXTENDS Naturals

CONSTANTS Clients, NoClient, Counts

VARIABLES
    n,          \* messages per session
    up,         \* the server has not ended
    serving,    \* the client whose session is open, or NoClient
    served,     \* clients that ever had a session
    delivered,  \* receives completed in each client's session
    verdict     \* what each client reported

avars == <<n, up, serving, served, delivered, verdict>>

AInit ==
    /\ n \in Counts
    /\ up = TRUE
    /\ serving = NoClient
    /\ served = {}
    /\ delivered = [c \in Clients |-> 0]
    /\ verdict = [c \in Clients |-> "none"]

\* A client has at most one session.
Begin(c) ==
    /\ up /\ serving = NoClient /\ c \notin served
    /\ serving' = c
    /\ served' = served \cup {c}
    /\ UNCHANGED <<n, up, delivered, verdict>>

Deliver ==
    /\ up /\ serving # NoClient
    /\ delivered[serving] < n
    /\ delivered' = [delivered EXCEPT ![serving] = @ + 1]
    /\ UNCHANGED <<n, up, serving, served, verdict>>

End ==
    /\ up /\ serving # NoClient
    /\ delivered[serving] = n
    /\ serving' = NoClient
    /\ UNCHANGED <<n, up, served, delivered, verdict>>

Stop ==
    /\ up
    /\ up' = FALSE
    /\ serving' = NoClient
    /\ UNCHANGED <<n, served, delivered, verdict>>

Ack(c) ==
    /\ verdict[c] = "none" /\ c \in served /\ delivered[c] = n
    /\ verdict' = [verdict EXCEPT ![c] = "ok"]
    /\ UNCHANGED <<n, up, serving, served, delivered>>

Fail(c) ==
    /\ verdict[c] = "none"
    /\ verdict' = [verdict EXCEPT ![c] = "err"]
    /\ UNCHANGED <<n, up, serving, served, delivered>>

ANext ==
    \/ Deliver \/ End \/ Stop
    \/ \E c \in Clients : Begin(c) \/ Ack(c) \/ Fail(c)

ASpec == AInit /\ [][ANext]_avars

================================================================================
