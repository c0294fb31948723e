--------------------------- MODULE MeteredRequest ---------------------------
(***************************************************************************)
(* What the gateway promises of every logical request, whatever the        *)
(* database, the client and the provider do: it is opened in the ledger    *)
(* before any provider call, closed at most once and never changed again,  *)
(* no provider is called after the caller has seen output or after the     *)
(* request is closed, a buffered answer is given only for a request that   *)
(* is recorded as succeeded, and nobody gets both output and an error.     *)
(***************************************************************************)
EXTENDS Naturals

CONSTANTS Requests, Streaming, MaxCalls

VARIABLES
    ledger,     \* [Requests -> {"absent", "open"} \cup Closed]
    calls,      \* [Requests -> 0 .. MaxCalls]: provider calls recorded
    delivered,  \* [Requests -> {"nothing", "part", "all"}]
    refused     \* [Requests -> BOOLEAN]: answered with an error

mvars == <<ledger, calls, delivered, refused>>

Closed == {"succeeded", "failed", "blocked", "cancelled"}

MInit ==
    /\ ledger = [r \in Requests |-> "absent"]
    /\ calls = [r \in Requests |-> 0]
    /\ delivered = [r \in Requests |-> "nothing"]
    /\ refused = [r \in Requests |-> FALSE]

Open(r) ==
    /\ ledger[r] = "absent" /\ ~refused[r]
    /\ ledger' = [ledger EXCEPT ![r] = "open"]
    /\ \/ UNCHANGED refused
       \/ refused' = [refused EXCEPT ![r] = TRUE]
    /\ UNCHANGED <<calls, delivered>>

CallProvider(r) ==
    /\ ledger[r] = "open" /\ delivered[r] = "nothing" /\ ~refused[r]
    /\ calls[r] < MaxCalls
    /\ calls' = [calls EXCEPT ![r] = @ + 1]
    /\ UNCHANGED <<ledger, delivered, refused>>

\* A stream is delivered while the request is open.
Emit(r) ==
    /\ r \in Streaming
    /\ ledger[r] = "open" /\ calls[r] > 0 /\ ~refused[r]
    /\ \/ delivered[r] = "nothing" /\ delivered' = [delivered EXCEPT ![r] = "part"]
       \/ delivered[r] # "all" /\ delivered' = [delivered EXCEPT ![r] = "all"]
    /\ UNCHANGED <<ledger, calls, refused>>

\* Only a request with a provider call, and a stream only when it is
\* complete, is recorded as succeeded.
CloseRequest(r) ==
    /\ ledger[r] = "open"
    /\ \E s \in Closed :
        /\ s = "succeeded" => calls[r] > 0 /\ (r \in Streaming => delivered[r] = "all")
        /\ ledger' = [ledger EXCEPT ![r] = s]
    /\ \/ UNCHANGED refused
       \/ delivered[r] = "nothing" /\ refused' = [refused EXCEPT ![r] = TRUE]
    /\ UNCHANGED <<calls, delivered>>

Answer(r) ==
    /\ r \notin Streaming
    /\ ledger[r] = "succeeded" /\ delivered[r] = "nothing" /\ ~refused[r]
    /\ delivered' = [delivered EXCEPT ![r] = "all"]
    /\ UNCHANGED <<ledger, calls, refused>>

Refuse(r) ==
    /\ delivered[r] = "nothing" /\ ~refused[r]
    /\ refused' = [refused EXCEPT ![r] = TRUE]
    /\ UNCHANGED <<ledger, calls, delivered>>

MNext == \E r \in Requests :
    \/ Open(r) \/ CallProvider(r) \/ Emit(r)
    \/ CloseRequest(r) \/ Answer(r) \/ Refuse(r)

MSpec == MInit /\ [][MNext]_mvars
============================================================================
