------------------------------ MODULE LiteRetry ------------------------------
(***************************************************************************)
(* pkg/rewards/service: how a lookup gets to a lite server that still has  *)
(* the state it needs.  RoundRobinClient holds a connection to each server *)
(* and picks the next healthy one; retry asks up to retryAttempts times; a *)
(* server that answers "state already gc'd" is put on the exclude list     *)
(* that travels in the context; Service.currentClient replaces the client  *)
(* once its time to live is over.  Requests share the counter of a client. *)
(*                                                                         *)
(*   Direct  the fallback of lookupMasterchainBlock(ByUtime);              *)
(*   Loaded  the same lookups through the dataloaders of WithLoaders, made *)
(*           once for all requests with the client of the first of them;   *)
(*   Pinned  GetConfigParams, on the copy of a client WithBlock makes.     *)
(***************************************************************************)
EXTENDS Naturals, FiniteSets

CONSTANTS
    NumServers,    \* entries of the client
    Archive,       \* servers that have the state, the others have gc'd it
    Direct, Loaded, Pinned,
    RetryAttempts, \* retryAttempts: 30, fewer for TLC
    Cycle,         \* bound: counters are kept modulo a multiple of 1..NumServers
    Used,          \* bound: attempts made before, with the first client
    MaxExpires,    \* bound: how often the client's time to live ends
    MaxFlips,      \* bound: connections lost or regained
    None

Server  == 0..NumServers-1
Request == Direct \cup Loaded \cup Pinned
Client  == 0..MaxExpires    \* the clients made, in order

ASSUME LiteRetryAssumption ==
    /\ NumServers \in Nat \ {0}
    /\ Archive \in SUBSET Server
    /\ Direct \cap Loaded = {} /\ Pinned \cap (Direct \cup Loaded) = {}
    /\ RetryAttempts \in Nat \ {0}
    /\ Cycle \in Nat \ {0} /\ \A n \in 1..NumServers : Cycle % n = 0
    /\ Used \subseteq 0..Cycle-1
    /\ MaxExpires \in Nat /\ MaxFlips \in Nat
    /\ None \notin Client \cup Server

VARIABLES
    connected, \* servers hasConnections holds for
    client,    \* Service.client
    expired,   \* time.Since(clientInitAt) >= cacheTTL
    loader,    \* client of globalLoaders, None before the first WithLoaders
    counter,   \* counter[k] of the client k
    own,       \* own[r]: counter of the copy a Pinned request made
    req,       \* req[r]: control point, client, attempts, server at hand
    healthy,   \* healthy[r]: candidates nextClient found
    excluded,  \* excluded[r]: RetryExclude.Excluded
    lastUsed,  \* lastUsed[r]: RetryExclude.LastUsed
    expires, flips,  \* bound counters; expires is also a history of them
    refused,   \* history: servers that told r the state was gc'd
    calm       \* history: r could be served all along, no connection changed

clientVars == <<client, expired, loader, expires>>
retryVars  == <<healthy, excluded, lastUsed>>
vars == <<connected, clientVars, counter, own, req, retryVars, flips, refused,
          calm>>

\* Any number of requests may have used the first client before.
Init ==
    /\ connected = Server
    /\ client = 0 /\ expired = FALSE /\ loader = None
    /\ \E n \in Used : counter = [k \in Client |-> IF k = 0 THEN n ELSE 0]
    /\ own = [r \in Request |-> 0]
    /\ req = [r \in Request |->
                 [pc |-> "idle", client |-> None, tries |-> 0, server |-> None]]
    /\ healthy = [r \in Request |-> {}]
    /\ excluded = [r \in Request |-> {}]
    /\ lastUsed = [r \in Request |-> 0]
    /\ expires = 0 /\ flips = 0
    /\ refused = [r \in Request |-> {}]
    /\ calm = [r \in Request |-> FALSE]

-----------------------------------------------------------------------------
(* Service.currentClient and WithLoaders. *)

\* Request r goes on with the client k; the loaders keep the first they got.
Start(r, k) ==
    LET l == IF loader = None THEN k ELSE loader
        used == IF r \in Loaded THEN l ELSE k
    IN /\ loader' = IF r \in Loaded THEN l ELSE loader
       /\ req' = [req EXCEPT ![r].pc = "pick", ![r].client = used]
       /\ own' = IF r \in Pinned THEN [own EXCEPT ![r] = counter[used]] ELSE own
       /\ calm' = [calm EXCEPT ![r] = connected \cap Archive # {}]

\* Under the read lock: the client, and whether it has to be replaced.
Begin(r) ==
    /\ req[r].pc = "idle"
    /\ IF expired THEN /\ req' = [req EXCEPT ![r].pc = "refresh"]
                       /\ UNCHANGED <<loader, own, calm>>
                  ELSE Start(r, client)
    /\ UNCHANGED <<connected, client, expired, expires, counter, retryVars,
                   flips, refused>>

\* Mutant: the condition is not looked at again.
RefreshUnchecked(r) ==
    /\ req[r].pc = "refresh"
    /\ client' = client + 1 /\ expired' = FALSE
    /\ Start(r, client)
    /\ UNCHANGED <<connected, expires, counter, retryVars, flips, refused>>

\* Under the write lock: another goroutine may have replaced it meanwhile; a
\* client that cannot be made leaves the old one in place.
Refresh(r) ==
    /\ req[r].pc = "refresh"
    /\ \/ /\ expired
          /\ client' = client + 1 /\ expired' = FALSE
          /\ Start(r, client + 1)
       \/ Start(r, client) /\ UNCHANGED <<client, expired>>
    /\ UNCHANGED <<connected, expires, counter, retryVars, flips, refused>>

-----------------------------------------------------------------------------
(* RoundRobinClient.clientForRequest. *)

\* Only the fallback hands the context with the exclude list to the client.
Sees(r) == IF r \in Direct THEN excluded[r] ELSE {}

\* The candidates; an empty list means that any server will do.
FindHealthy(r) ==
    /\ req[r].pc = "pick"
    /\ healthy' = [healthy EXCEPT ![r] = connected \ Sees(r)]
    /\ req' = [req EXCEPT ![r].pc = "choose"]
    /\ UNCHANGED <<connected, clientVars, counter, own, excluded, lastUsed,
                   flips, refused, calm>>

\* The candidate the counter n points to, in the order of the entries.
RoundRobin(S, n) ==
    CHOOSE s \in S : Cardinality({t \in S : t < s}) = n % Cardinality(S)

\* Mutant: the counter does not move.
ChooseSame(r) ==
    LET n == IF r \in Pinned THEN own[r] + 1 ELSE counter[req[r].client] + 1
        candidates == IF healthy[r] = {} THEN Server ELSE healthy[r]
        s == RoundRobin(candidates, n)
    IN /\ req[r].pc = "choose"
       /\ lastUsed' = IF r \in Direct THEN [lastUsed EXCEPT ![r] = s] ELSE lastUsed
       /\ req' = [req EXCEPT ![r].pc = "ask", ![r].server = s]
       /\ UNCHANGED <<connected, clientVars, counter, own, healthy, excluded,
                      flips, refused, calm>>

\* The counter is increased atomically, after the list was made.
Choose(r) ==
    LET n == IF r \in Pinned THEN own[r] + 1 ELSE counter[req[r].client] + 1
        candidates == IF healthy[r] = {} THEN Server ELSE healthy[r]
        s == RoundRobin(candidates, n)
    IN /\ req[r].pc = "choose"
       /\ IF r \in Pinned
          THEN own' = [own EXCEPT ![r] = n % Cycle] /\ UNCHANGED counter
          ELSE counter' = [counter EXCEPT ![req[r].client] = n % Cycle]
               /\ UNCHANGED own
       /\ lastUsed' = IF r \in Direct THEN [lastUsed EXCEPT ![r] = s] ELSE lastUsed
       /\ req' = [req EXCEPT ![r].pc = "ask", ![r].server = s]
       /\ UNCHANGED <<connected, clientVars, healthy, excluded, flips, refused,
                      calm>>

-----------------------------------------------------------------------------
(* retryWithContext. *)

Serves(s) == s \in connected \cap Archive

\* The attempt is over, and what it picked forgotten.
Goto(r, label, tries) ==
    /\ req' = [req EXCEPT ![r].pc = label, ![r].tries = tries, ![r].server = None]
    /\ healthy' = [healthy EXCEPT ![r] = {}]

Succeed(r) ==
    /\ req[r].pc = "ask" /\ Serves(req[r].server)
    /\ Goto(r, "served", req[r].tries)
    /\ UNCHANGED <<connected, clientVars, counter, own, excluded, lastUsed,
                   flips, refused, calm>>

\* One more attempt, or none is left.
Again(r) ==
    LET tries == req[r].tries + 1
    IN Goto(r, IF tries < RetryAttempts THEN "pick" ELSE "failed", tries)

\* "state already gc'd": LastUsed is excluded, whichever server that is.
Refused(r) ==
    /\ req[r].pc = "ask" /\ req[r].server \in connected \ Archive
    /\ excluded' = [excluded EXCEPT ![r] = @ \cup {lastUsed[r]}]
    /\ refused' = [refused EXCEPT ![r] = @ \cup {req[r].server}]
    /\ Again(r)
    /\ UNCHANGED <<connected, clientVars, counter, own, lastUsed, flips, calm>>

\* A server that is not connected: some other error, or "no connections
\* available", which ends the retries.
Unreachable(r) ==
    /\ req[r].pc = "ask" /\ req[r].server \notin connected
    /\ \/ Again(r)
       \/ Goto(r, "failed", req[r].tries)
    /\ UNCHANGED <<connected, clientVars, counter, own, excluded, lastUsed,
                   flips, refused, calm>>

-----------------------------------------------------------------------------
(* The environment. *)

Expire ==
    /\ ~expired /\ expires < MaxExpires
    /\ expired' = TRUE /\ expires' = expires + 1
    /\ UNCHANGED <<connected, client, loader, counter, own, req, retryVars,
                   flips, refused, calm>>

\* A connection is lost or comes back.
Flip(s) ==
    /\ flips < MaxFlips /\ flips' = flips + 1
    /\ connected' = IF s \in connected THEN connected \ {s} ELSE connected \cup {s}
    /\ calm' = [r \in Request |-> FALSE]
    /\ UNCHANGED <<clientVars, counter, own, req, retryVars, refused>>

-----------------------------------------------------------------------------
Step(r) ==
    \/ Begin(r) \/ Refresh(r) \/ FindHealthy(r) \/ Choose(r)
    \/ Succeed(r) \/ Refused(r) \/ Unreachable(r)

Next ==
    \/ \E r \in Request : Step(r)
    \/ Expire
    \/ \E s \in Server : Flip(s)

Spec == Init /\ [][Next]_vars

-----------------------------------------------------------------------------
(* Properties *)

RequestState ==
    [pc : {"idle", "refresh", "pick", "choose", "ask", "served", "failed"},
     client : Client \cup {None}, tries : 0..RetryAttempts,
     server : Server \cup {None}]

TypeOK ==
    /\ connected \in SUBSET Server
    /\ client \in Client
    /\ expired \in BOOLEAN
    /\ loader \in Client \cup {None}
    /\ counter \in [Client -> 0..Cycle-1]
    /\ own \in [Request -> 0..Cycle-1]
    /\ req \in [Request -> RequestState]
    /\ healthy \in [Request -> SUBSET Server]
    /\ excluded \in [Request -> SUBSET Server]
    /\ lastUsed \in [Request -> Server]
    /\ expires \in 0..MaxExpires /\ flips \in 0..MaxFlips
    /\ refused \in [Request -> SUBSET Server]
    /\ calm \in [Request -> BOOLEAN]

\* The time to live of a client ends, and any number of requests find it so: one
\* of them makes the next client.
RefreshedOnce == client <= expires /\ (client = expires => ~expired)

\* A request is not lost while a server that has its state is connected: the
\* fallback excludes one server after the other, and the copy WithBlock makes has
\* a counter no other request moves, so it gets round all of them.
ServedIfServable ==
    \A r \in Direct \cup Pinned :
        calm[r] /\ RetryAttempts >= NumServers => req[r].pc # "failed"

\* Asking the server s once it has told r that the state is gone, although
\* others were there to be asked.
AskedAgain(r) ==
    /\ req[r].pc = "ask" /\ req[r].server \in refused[r]
    /\ healthy[r] \ refused[r] # {}

(***************************************************************************)
(* "When the client returns 'state already gc'd', the failing server is    *)
(* added to the exclude list and retry continues with other servers"       *)
(* (retry.go:54), of every lookup retryWithExclude makes.                  *)
(***************************************************************************)
RetryAsksOthers == \A r \in Direct \cup Loaded : ~AskedAgain(r)
=============================================================================
