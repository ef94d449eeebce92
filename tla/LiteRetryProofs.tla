--------------------------- MODULE LiteRetryProofs ---------------------------
(***************************************************************************)
(* Proofs of two things, for any number of servers and of requests.        *)
(*                                                                         *)
(* currentClient replaces the client once for each end of its time to      *)
(* live: whoever gets the write lock after the first sees a client that is *)
(* new.  A client that cannot be made leaves the old one, and the next     *)
(* request tries again, so there may be fewer clients than ends, but never *)
(* more.                                                                   *)
(*                                                                         *)
(* A lookup is served if it can be.  On the fallback the servers that      *)
(* refused are as many as the attempts, and the archive is none of them,   *)
(* wherever the shared counter jumps.  A copy of a client excludes nobody  *)
(* but has a counter of its own: before as many steps as there are servers *)
(* it points to the archive.                                               *)
(***************************************************************************)
EXTENDS LiteRetry, Integers, FunctionTheorems, FiniteSetTheorems, TLAPS

Started(r) == req[r].pc \notin {"idle", "refresh"}

\* What a request has before it has a client and while it goes on.
RequestsInv ==
    \A r \in Request :
        /\ ~Started(r) => /\ req[r].tries = 0 /\ excluded[r] = {}
                          /\ ~calm[r]
        /\ req[r].pc \in {"pick", "choose", "ask"} =>
              req[r].client \in Client /\ req[r].tries < RetryAttempts
        /\ req[r].pc = "ask" => req[r].server \in Server

TypeInv == TypeOK /\ RefreshedOnce /\ RequestsInv

\* The fallback: every attempt was refused by another server without the state.
DirectInv(r) ==
    calm[r] =>
        /\ connected \cap Archive # {} /\ req[r].pc # "failed"
        /\ excluded[r] \subseteq connected \ Archive
        /\ Cardinality(excluded[r]) = req[r].tries
        /\ req[r].pc \in {"choose", "ask"} => healthy[r] = connected \ excluded[r]
        /\ req[r].pc = "ask" =>
              req[r].server \in healthy[r] /\ lastUsed[r] = req[r].server

\* The copy of a client comes to a server with the state, its counter at n, while
\* one of the servers is left that it has not asked.
Comes(r, n) ==
    \E d \in 0..Cardinality(connected) - 1 - req[r].tries :
        RoundRobin(connected, n + d) \in Archive

PinnedInv(r) ==
    calm[r] =>
        /\ connected \cap Archive # {} /\ req[r].pc # "failed"
        /\ req[r].pc \in {"choose", "ask"} => healthy[r] = connected
        /\ req[r].pc \in {"pick", "choose"} => Comes(r, own[r] + 1)
        /\ req[r].pc = "ask" =>
              /\ req[r].server = RoundRobin(connected, own[r])
              /\ Comes(r, own[r])

RetryInv ==
    /\ TypeInv
    /\ RetryAttempts >= NumServers =>
          (\A r \in Direct : DirectInv(r)) /\ (\A r \in Pinned : PinnedInv(r))

-----------------------------------------------------------------------------
(* Remainders. *)

LEMMA ModDef ==
    ASSUME NEW a \in Nat, NEW N \in Nat \ {0}
    PROVE  /\ a = N * (a \div N) + (a % N)
           /\ (a % N) \in 0..N-1
           /\ (a \div N) \in Nat
<1>1. a = N * (a \div N) + (a % N)
    OBVIOUS
<1>2. (a % N) \in 0..N-1
    OBVIOUS
<1>3. (a \div N) \in Nat
    OBVIOUS
<1> QED
    BY <1>1, <1>2, <1>3

LEMMA ModUnique ==
    ASSUME NEW N \in Nat \ {0}, NEW q \in Nat, NEW m \in 0..N-1
    PROVE  (N * q + m) % N = m
OBVIOUS

LEMMA Products ==
    /\ \A i, j \in Nat : i * j \in Nat
    /\ \A x, y, z \in Nat : (x * y) * z = x * (y * z)
    /\ \A x, y, z \in Nat : x * (y + z) = x * y + x * z
<1>1. \A i, j \in Nat : i * j \in Nat
    OBVIOUS
<1>2. \A x, y, z \in Nat : (x * y) * z = x * (y * z)
    OBVIOUS
<1>3. \A x, y, z \in Nat : x * (y + z) = x * y + x * z
    OBVIOUS
<1> QED
    BY <1>1, <1>2, <1>3

\* Counting modulo a multiple of N is as good as counting.
LEMMA ModMod ==
    ASSUME NEW N \in Nat \ {0}, NEW c \in Nat \ {0}, c % N = 0,
           NEW a \in Nat, NEW d \in Nat
    PROVE  ((a % c) + d) % N = (a + d) % N
<1>1. PICK q \in Nat, m \in 0..c-1 : a = c * q + m /\ a % c = m
    BY ModDef
<1>2. PICK p \in Nat : c = N * p
    <2>1. PICK p \in Nat, k \in 0..N-1 : c = N * p + k /\ c % N = k
        BY ModDef
    <2> QED
        BY <2>1
<1>3. PICK s \in Nat, k \in 0..N-1 : m + d = N * s + k
    <2>1. PICK e \in Nat : e = m + d
        OBVIOUS
    <2>2. /\ e = N * (e \div N) + (e % N)
          /\ (e % N) \in 0..N-1
          /\ (e \div N) \in Nat
        BY ModDef
    <2> QED
        BY <2>1, <2>2
<1>4. p * q \in Nat /\ p * q + s \in Nat
    BY Products
<1>5. N * (p * q + s) = c * q + N * s
    <2>1. N * (p * q + s) = N * (p * q) + N * s
        BY <1>4, Products
    <2>2. N * (p * q) = c * q
        BY <1>2, Products
    <2> QED
        BY <2>1, <2>2
<1>6. a + d = N * (p * q + s) + k
    <2>1. c * q \in Nat /\ N * s \in Nat
        BY Products
    <2> QED
        BY <1>1, <1>3, <1>5, <2>1
<1>7. (N * (p * q + s) + k) % N = k /\ (N * s + k) % N = k
    BY <1>4, ModUnique
<1> QED
    BY <1>1, <1>3, <1>6, <1>7

\* N numbers in a row have every remainder.
LEMMA EveryRemainder ==
    ASSUME NEW N \in Nat \ {0}, NEW k \in 0..N-1, NEW a \in Nat
    PROVE  \E d \in 0..N-1 : (a + d) % N = k
<1>1. PICK q \in Nat, m \in 0..N-1 : a = N * q + m
    BY ModDef
<1>2. CASE m <= k
    <2>1. k - m \in 0..N-1 /\ a + (k - m) = N * q + k
        BY <1>1, <1>2
    <2>2. (N * q + k) % N = k
        BY ModUnique
    <2> QED
        BY <2>1, <2>2
<1>3. CASE m > k
    <2>1. N + k - m \in 0..N-1 /\ q + 1 \in Nat
        BY <1>1, <1>3
    <2>2. a + (N + k - m) = N * (q + 1) + k
        BY <1>1
    <2>3. (N * (q + 1) + k) % N = k
        BY <2>1, ModUnique
    <2> QED
        BY <2>1, <2>2, <2>3
<1> QED
    BY <1>2, <1>3

-----------------------------------------------------------------------------
(* The servers a counter points to. *)

\* Sets of servers are finite, and NumServers is the most there are.
LEMMA Servers ==
    ASSUME NEW S \in SUBSET Server
    PROVE  /\ IsFiniteSet(S) /\ Cardinality(S) \in Nat
           /\ Cardinality(S) <= NumServers
           /\ Cardinality(S) = 0 <=> S = {}
           /\ S # Server => Cardinality(S) < NumServers
<1>1. 0 \in Int /\ NumServers - 1 \in Int /\ NumServers \in Nat /\ NumServers > 0
    BY LiteRetryAssumption
<1>2. IsFiniteSet(Server) /\ Cardinality(Server) = NumServers
    <2>1. /\ IsFiniteSet(0..NumServers-1)
          /\ Cardinality(0..NumServers-1)
                = IF 0 > NumServers - 1 THEN 0 ELSE NumServers - 1 - 0 + 1
        BY <1>1, FS_Interval
    <2>2. (IF 0 > NumServers - 1 THEN 0 ELSE NumServers - 1 - 0 + 1) = NumServers
        BY <1>1
    <2> QED
        BY <2>1, <2>2 DEF Server
<1>3. /\ IsFiniteSet(S) /\ Cardinality(S) <= NumServers
      /\ Cardinality(S) = NumServers => S = Server
    BY <1>2, FS_Subset
<1>4. Cardinality(S) \in Nat
    BY <1>3, FS_CardinalityType
<1>5. Cardinality(S) = 0 <=> S = {}
    BY <1>3, FS_EmptySet
<1> QED
    BY <1>1, <1>3, <1>4, <1>5

\* How many servers of S come before s.
Rank(S, s) == Cardinality({t \in S : t < s})

LEMMA Ranks ==
    ASSUME NEW S \in SUBSET Server, S # {}
    PROVE  /\ \A s \in S : Rank(S, s) \in 0..Cardinality(S)-1
           /\ \A s, u \in S : Rank(S, s) = Rank(S, u) => s = u
           /\ \A k \in 0..Cardinality(S)-1 : \E s \in S : Rank(S, s) = k
<1> PICK n : n = Cardinality(S)
    OBVIOUS
<1>1. n \in Nat \ {0}
    BY Servers
<1>2. S \subseteq Int
    BY LiteRetryAssumption DEF Server
<1>3. ASSUME NEW s \in S PROVE Rank(S, s) \in 0..n-1
    <2>1. {t \in S : t < s} \in SUBSET S /\ s \notin {t \in S : t < s}
        BY <1>2
    <2>2. IsFiniteSet(S) /\ {t \in S : t < s} # S
        BY <2>1, Servers
    <2>3. /\ Rank(S, s) <= n
          /\ Rank(S, s) # n
        BY <2>1, <2>2, FS_Subset DEF Rank
    <2>4. Rank(S, s) \in Nat
        BY <2>1, Servers DEF Rank
    <2> QED
        BY <1>1, <2>3, <2>4
<1>4. ASSUME NEW s \in S, NEW u \in S, s < u PROVE Rank(S, s) # Rank(S, u)
    <2> PICK T : T = {t \in S : t < s}
        OBVIOUS
    <2> PICK U : U = {t \in S : t < u}
        OBVIOUS
    <2>1. T \in SUBSET U
        <3>1. \A t \in S : t < s => t < u
            BY <1>2, <1>4
        <3> QED
            BY <3>1
    <2>2. s \in U /\ s \notin T
        BY <1>2, <1>4
    <2>3. IsFiniteSet(U)
        BY Servers
    <2>4. Cardinality(U) # Cardinality(T)
        BY <2>1, <2>2, <2>3, FS_Subset
    <2> QED
        BY <2>4 DEF Rank
<1>5. \A s, u \in S : Rank(S, s) = Rank(S, u) => s = u
    <2>1. \A s, u \in S : s < u \/ u < s \/ s = u
        BY <1>2
    <2> QED
        BY <1>4, <2>1
<1>6. \A k \in 0..n-1 : \E s \in S : Rank(S, s) = k
    <2> DEFINE f == [s \in S |-> Rank(S, s)]
    <2>1. f \in [S -> 0..n-1] /\ \A s, u \in S : f[s] = f[u] => s = u
        BY <1>3, <1>5
    <2>2. \A s \in S : f[s] = Rank(S, s)
        OBVIOUS
    <2> HIDE DEF f
    <2>3. f \in Injection(S, 0..n-1)
        BY <2>1, Fun_IsInj
    <2>4. IsFiniteSet(0..n-1) /\ Cardinality(0..n-1) = n
        <3>1. 0 \in Int /\ n - 1 \in Int
            BY <1>1
        <3>2. /\ IsFiniteSet(0..n-1)
              /\ Cardinality(0..n-1) = IF 0 > n - 1 THEN 0 ELSE n - 1 - 0 + 1
            BY <3>1, FS_Interval
        <3>3. (IF 0 > n - 1 THEN 0 ELSE n - 1 - 0 + 1) = n
            BY <1>1
        <3> QED
            BY <3>2, <3>3
    <2>5. f \in Surjection(S, 0..n-1)
        BY <2>3, <2>4, FS_Injection
    <2>6. \A k \in 0..n-1 : \E s \in S : f[s] = k
        BY <2>5, Fun_SurjectionProperties
    <2> QED
        BY <2>2, <2>6
<1> QED
    BY <1>3, <1>5, <1>6

LEMMA RoundRobinIs ==
    ASSUME NEW S \in SUBSET Server, S # {}, NEW n \in Nat
    PROVE  /\ RoundRobin(S, n) \in S
           /\ Rank(S, RoundRobin(S, n)) = n % Cardinality(S)
<1>1. (n % Cardinality(S)) \in 0..Cardinality(S)-1
    <2>1. Cardinality(S) \in Nat \ {0}
        BY Servers
    <2> QED
        BY <2>1, ModDef
<1>2. \E s \in S : Rank(S, s) = n % Cardinality(S)
    BY <1>1, Ranks
<1>3. RoundRobin(S, n) = CHOOSE s \in S : Rank(S, s) = n % Cardinality(S)
    BY DEF RoundRobin, Rank
<1> QED
    BY <1>2, <1>3

\* As many steps of the counter as there are servers reach each of them.
LEMMA RoundRobinReaches ==
    ASSUME NEW S \in SUBSET Server, NEW s \in S, NEW n \in Nat
    PROVE  \E d \in 0..Cardinality(S)-1 : RoundRobin(S, n + d) = s
<1> PICK N : N = Cardinality(S)
    OBVIOUS
<1>1. N \in Nat \ {0} /\ Rank(S, s) \in 0..N-1
    BY Servers, Ranks
<1>2. PICK d \in 0..N-1 : (n + d) % N = Rank(S, s)
    BY <1>1, EveryRemainder
<1>3. n + d \in Nat
    BY <1>1
<1>4. RoundRobin(S, n + d) \in S /\ Rank(S, RoundRobin(S, n + d)) = Rank(S, s)
    BY <1>2, <1>3, RoundRobinIs
<1>5. RoundRobin(S, n + d) = s
    BY <1>4, Ranks
<1> QED
    BY <1>5

LEMMA RoundRobinCycles ==
    ASSUME NEW S \in SUBSET Server, S # {}, NEW n \in Nat, NEW d \in Nat
    PROVE  RoundRobin(S, (n % Cycle) + d) = RoundRobin(S, n + d)
<1> PICK N : N = Cardinality(S)
    OBVIOUS
<1>1. N \in 1..NumServers /\ N \in Nat \ {0}
    BY Servers, LiteRetryAssumption
<1>2. Cycle \in Nat \ {0} /\ Cycle % N = 0
    BY <1>1, LiteRetryAssumption
<1>3. \A a, e \in Nat : ((a % Cycle) + e) % N = (a + e) % N
    BY <1>1, <1>2, ModMod
<1>4. ((n % Cycle) + d) % N = (n + d) % N
    BY <1>3
<1> QED
    BY <1>4 DEF RoundRobin

-----------------------------------------------------------------------------
(* Types. *)

\* A step of one request leaves what belongs to the others alone.
LEMMA OthersStay ==
    ASSUME TypeInv, NEW q \in Request, Step(q), NEW r \in Request, r # q
    PROVE  /\ connected' = connected /\ req'[r] = req[r] /\ own'[r] = own[r]
           /\ healthy'[r] = healthy[r] /\ excluded'[r] = excluded[r]
           /\ lastUsed'[r] = lastUsed[r] /\ calm'[r] = calm[r]
<1>1. /\ DOMAIN req = Request /\ DOMAIN own = Request /\ DOMAIN healthy = Request
      /\ DOMAIN excluded = Request /\ DOMAIN lastUsed = Request
      /\ DOMAIN calm = Request
    BY DEF TypeInv, TypeOK
<1>2. CASE Begin(q)
    BY <1>1, <1>2 DEF Begin, Start, retryVars
<1>3. CASE Refresh(q)
    BY <1>1, <1>3 DEF Refresh, Start, retryVars
<1>4. CASE FindHealthy(q)
    BY <1>1, <1>4 DEF FindHealthy
<1>5. CASE Choose(q)
    BY <1>1, <1>5 DEF Choose
<1>6. CASE Succeed(q)
    BY <1>1, <1>6 DEF Succeed, Goto
<1>7. CASE Refused(q)
    BY <1>1, <1>7 DEF Refused, Again, Goto
<1>8. CASE Unreachable(q)
    BY <1>1, <1>8 DEF Unreachable, Again, Goto
<1> QED
    BY <1>2, <1>3, <1>4, <1>5, <1>6, <1>7, <1>8 DEF Step

LEMMA Clients ==
    ASSUME TypeInv
    PROVE  /\ MaxExpires \in Nat /\ expires \in 0..MaxExpires
           /\ client \in Client /\ (expired => client + 1 \in Client)
           /\ (expired => client + 1 <= expires)
           /\ 0 \in Server /\ RetryAttempts \in Nat \ {0}
<1>1. MaxExpires \in Nat /\ NumServers \in Nat \ {0} /\ RetryAttempts \in Nat \ {0}
    BY LiteRetryAssumption
<1>2. /\ client \in Client /\ expires \in 0..MaxExpires /\ client <= expires
      /\ (client = expires => ~expired)
    BY DEF TypeInv, TypeOK, RefreshedOnce
<1> QED
    BY <1>1, <1>2 DEF Client, Server

\* The state of a request, field by field.
LEMMA StateOf ==
    ASSUME TypeInv, NEW r \in Request
    PROVE  /\ req[r] \in RequestState
           /\ req[r] = [pc |-> req[r].pc, client |-> req[r].client,
                        tries |-> req[r].tries, server |-> req[r].server]
           /\ req[r].tries \in 0..RetryAttempts
           /\ req[r].client \in Client \cup {None}
           /\ req[r].server \in Server \cup {None}
BY DEF TypeInv, TypeOK, RequestState

\* What the steps make of the state of a request.
Label == {"idle", "refresh", "pick", "choose", "ask", "served", "failed"}

LEMMA ClientUpdated ==
    ASSUME NEW f \in [Request -> RequestState], NEW r \in Request,
           NEW p \in Label, NEW c \in Client \cup {None}
    PROVE  [f EXCEPT ![r].pc = p, ![r].client = c] \in [Request -> RequestState]
BY DEF RequestState, Label

LEMMA ServerUpdated ==
    ASSUME NEW f \in [Request -> RequestState], NEW r \in Request,
           NEW p \in Label, NEW s \in Server \cup {None}
    PROVE  [f EXCEPT ![r].pc = p, ![r].server = s] \in [Request -> RequestState]
BY DEF RequestState, Label

LEMMA TriesUpdated ==
    ASSUME NEW f \in [Request -> RequestState], NEW r \in Request,
           NEW p \in Label, NEW n \in 0..RetryAttempts,
           NEW s \in Server \cup {None}
    PROVE  [f EXCEPT ![r].pc = p, ![r].tries = n, ![r].server = s]
              \in [Request -> RequestState]
<1>1. \A g \in [Request -> RequestState] :
          [g EXCEPT ![r].tries = n] \in [Request -> RequestState]
    BY DEF RequestState
<1>2. [f EXCEPT ![r].pc = p, ![r].tries = n, ![r].server = s]
          = [[f EXCEPT ![r].pc = p, ![r].server = s] EXCEPT ![r].tries = n]
    BY DEF RequestState
<1> QED
    BY <1>1, <1>2, ServerUpdated

\* What a request gets with its client.
LEMMA Starts ==
    ASSUME TypeInv, NEW r \in Request, NEW k \in Client, Start(r, k), ~Started(r)
    PROVE  /\ loader' \in Client \cup {None}
           /\ req' \in [Request -> RequestState]
           /\ req'[r].pc = "pick" /\ req'[r].client \in Client
           /\ req'[r].tries = 0
           /\ own' \in [Request -> 0..Cycle-1]
           /\ calm' \in [Request -> BOOLEAN]
           /\ calm'[r] = (connected \cap Archive # {})
<1> PICK used : used = IF r \in Loaded
                       THEN (IF loader = None THEN k ELSE loader) ELSE k
    OBVIOUS
<1>1. used \in Client /\ loader' \in Client \cup {None}
    BY DEF TypeInv, TypeOK, Start
<1>2. /\ req' = [req EXCEPT ![r].pc = "pick", ![r].client = used]
      /\ own' = IF r \in Pinned THEN [own EXCEPT ![r] = counter[used]] ELSE own
      /\ calm' = [calm EXCEPT ![r] = connected \cap Archive # {}]
    BY DEF Start
<1>3. req[r].tries = 0 /\ req \in [Request -> RequestState]
    BY DEF TypeInv, TypeOK, RequestsInv
<1>4. req' \in [Request -> RequestState]
    BY <1>1, <1>2, <1>3, ClientUpdated DEF Label
<1>5. req'[r].pc = "pick" /\ req'[r].client = used /\ req'[r].tries = req[r].tries
    BY <1>1, <1>2, <1>3 DEF RequestState
<1>6. /\ req' \in [Request -> RequestState]
      /\ req'[r].pc = "pick" /\ req'[r].client \in Client
      /\ req'[r].tries = 0
    BY <1>1, <1>3, <1>4, <1>5
<1>7. own' \in [Request -> 0..Cycle-1]
    BY <1>1, <1>2 DEF TypeInv, TypeOK
<1>8. calm' \in [Request -> BOOLEAN] /\ calm'[r] = (connected \cap Archive # {})
    BY <1>2 DEF TypeInv, TypeOK
<1> QED
    BY <1>1, <1>6, <1>7, <1>8

\* The candidates are servers, and so is the one that is picked.
LEMMA Chosen ==
    ASSUME TypeInv, NEW r \in Request, NEW n \in Nat
    PROVE  RoundRobin(IF healthy[r] = {} THEN Server ELSE healthy[r], n) \in Server
<1> PICK S : S = IF healthy[r] = {} THEN Server ELSE healthy[r]
    OBVIOUS
<1>1. S \in SUBSET Server /\ S # {}
    BY Clients DEF TypeInv, TypeOK
<1>2. RoundRobin(S, n) \in S
    BY <1>1, RoundRobinIs
<1> QED
    BY <1>1, <1>2

\* How an attempt ends.
LEMMA Ends ==
    ASSUME TypeInv, NEW r \in Request, NEW n \in 0..RetryAttempts,
           NEW label \in {"pick", "served", "failed"}, Goto(r, label, n)
    PROVE  /\ req' \in [Request -> RequestState]
           /\ req'[r].pc = label /\ req'[r].tries = n
           /\ req'[r].client = req[r].client
           /\ healthy' \in [Request -> SUBSET Server]
<1>1. req \in [Request -> RequestState] /\ healthy \in [Request -> SUBSET Server]
    BY DEF TypeInv, TypeOK
<1>2. /\ req' = [req EXCEPT ![r].pc = label, ![r].tries = n, ![r].server = None]
      /\ healthy' = [healthy EXCEPT ![r] = {}]
    BY DEF Goto
<1>3. req' \in [Request -> RequestState]
    <2>1. None \in Server \cup {None} /\ label \in Label
        BY DEF Label
    <2> QED
        BY <1>1, <1>2, <2>1, TriesUpdated
<1>4. req'[r].pc = label /\ req'[r].tries = n /\ req'[r].client = req[r].client
    BY <1>1, <1>2 DEF RequestState
<1> QED
    BY <1>1, <1>2, <1>3, <1>4

\* It is enough to look at the request that made the step.
LEMMA RequestsStay ==
    ASSUME TypeInv, NEW r \in Request, Step(r),
           req'[r].pc \notin {"idle", "refresh"} \/
              (req'[r].tries = 0 /\ excluded'[r] = {} /\ ~calm'[r]),
           req'[r].pc \in {"pick", "choose", "ask"} =>
              req'[r].client \in Client /\ req'[r].tries < RetryAttempts,
           req'[r].pc = "ask" => req'[r].server \in Server
    PROVE  RequestsInv'
<1> SUFFICES ASSUME NEW q \in Request
             PROVE  (/\ ~Started(q) => /\ req[q].tries = 0 /\ excluded[q] = {}
                                       /\ ~calm[q]
                     /\ req[q].pc \in {"pick", "choose", "ask"} =>
                          req[q].client \in Client /\ req[q].tries < RetryAttempts
                     /\ req[q].pc = "ask" => req[q].server \in Server)'
    BY DEF RequestsInv
<1>1. CASE q = r
    BY <1>1 DEF Started
<1>2. CASE q # r
    <2>1. /\ req'[q] = req[q] /\ excluded'[q] = excluded[q] /\ calm'[q] = calm[q]
        BY <1>2, OthersStay
    <2> QED
        BY <2>1 DEF Started, TypeInv, RequestsInv
<1> QED
    BY <1>1, <1>2

LEMMA BeginTypes == ASSUME TypeInv, NEW r \in Request, Begin(r) PROVE TypeInv'
<1>1. Step(r) /\ req[r].pc = "idle" /\ ~Started(r)
    BY DEF Step, Begin, Started
<1>2. /\ UNCHANGED <<connected, client, expired, expires, counter, healthy,
                     excluded, lastUsed, flips, refused>>
    BY DEF Begin, retryVars
<1>3. CASE expired
    <2>1. /\ req' = [req EXCEPT ![r].pc = "refresh"]
          /\ UNCHANGED <<loader, own, calm>>
        BY <1>3 DEF Begin
    <2>2. req' \in [Request -> RequestState] /\ req'[r].pc = "refresh"
          /\ req'[r].tries = req[r].tries
        BY <2>1, StateOf DEF TypeInv, TypeOK, RequestState
    <2>3. TypeOK'
        BY <1>2, <2>1, <2>2 DEF TypeInv, TypeOK
    <2>4. req'[r].tries = 0 /\ excluded'[r] = {} /\ ~calm'[r]
        BY <1>1, <1>2, <2>1, <2>2 DEF TypeInv, RequestsInv
    <2>5. RequestsInv'
        BY <1>1, <2>2, <2>4, RequestsStay
    <2>6. RefreshedOnce'
        BY <1>2 DEF TypeInv, RefreshedOnce
    <2> QED
        BY <2>3, <2>5, <2>6 DEF TypeInv
<1>4. CASE ~expired
    <2>1. Start(r, client) /\ client \in Client
        BY <1>4, Clients DEF Begin
    <2>2. TypeOK'
        BY <1>1, <1>2, <2>1, Starts DEF TypeInv, TypeOK
    <2>3. RequestsInv'
        BY <1>1, <2>1, Starts, Clients, RequestsStay
    <2>4. RefreshedOnce'
        BY <1>2 DEF TypeInv, RefreshedOnce
    <2> QED
        BY <2>2, <2>3, <2>4 DEF TypeInv
<1> QED
    BY <1>3, <1>4

LEMMA RefreshTypes == ASSUME TypeInv, NEW r \in Request, Refresh(r) PROVE TypeInv'
<1>1. Step(r) /\ ~Started(r)
    BY DEF Step, Refresh, Started
<1>2. /\ UNCHANGED <<connected, expires, counter, healthy,
                     excluded, lastUsed, flips, refused>>
    BY DEF Refresh, retryVars
<1>3. PICK k \in Client : Start(r, k)
    BY Clients DEF Refresh
<1>4. client' \in Client /\ expired' \in BOOLEAN /\ RefreshedOnce'
    <2>1. CASE expired /\ client' = client + 1 /\ expired' = FALSE
        <3>1. client' \in Client /\ client' <= expires'
            BY <1>2, <2>1, Clients
        <3> QED
            BY <2>1, <3>1 DEF RefreshedOnce
    <2>2. CASE UNCHANGED <<client, expired>>
        BY <1>2, <2>2 DEF TypeInv, TypeOK, RefreshedOnce
    <2> QED
        BY <2>1, <2>2 DEF Refresh
<1>5. TypeOK'
    BY <1>1, <1>2, <1>3, <1>4, Starts DEF TypeInv, TypeOK
<1>6. RequestsInv'
    BY <1>1, <1>3, Starts, Clients, RequestsStay
<1> QED
    BY <1>4, <1>5, <1>6 DEF TypeInv

LEMMA FindTypes == ASSUME TypeInv, NEW r \in Request, FindHealthy(r) PROVE TypeInv'
<1>1. Step(r) /\ req[r].pc = "pick"
    BY DEF Step, FindHealthy
<1>2. /\ UNCHANGED <<connected, client, expired, loader, expires, counter, own,
                     excluded, lastUsed, flips, refused, calm>>
      /\ healthy' = [healthy EXCEPT ![r] = connected \ Sees(r)]
      /\ req' = [req EXCEPT ![r].pc = "choose"]
    BY DEF FindHealthy, clientVars
<1>3. /\ req' \in [Request -> RequestState] /\ req'[r].pc = "choose"
      /\ req'[r].tries = req[r].tries /\ req'[r].client = req[r].client
    BY <1>2, StateOf DEF TypeInv, TypeOK, RequestState
<1>4. TypeOK'
    BY <1>2, <1>3 DEF TypeInv, TypeOK
<1>5. RequestsInv'
    <2>1. req[r].client \in Client /\ req[r].tries < RetryAttempts
        BY <1>1 DEF TypeInv, RequestsInv
    <2> QED
        BY <1>1, <1>3, <2>1, RequestsStay
<1>6. RefreshedOnce'
    BY <1>2 DEF TypeInv, RefreshedOnce
<1> QED
    BY <1>4, <1>5, <1>6 DEF TypeInv

\* The value the counter gets.
CountOf(r) == IF r \in Pinned THEN own[r] + 1 ELSE counter[req[r].client] + 1

LEMMA Counted ==
    ASSUME TypeInv, NEW r \in Request, req[r].pc = "choose"
    PROVE  CountOf(r) \in Nat /\ CountOf(r) % Cycle \in 0..Cycle-1
<1>1. req[r].client \in Client
    BY DEF TypeInv, RequestsInv
<1>2. Cycle \in Nat \ {0}
    BY LiteRetryAssumption
<1>3. CountOf(r) \in Nat
    BY <1>1, <1>2 DEF CountOf, TypeInv, TypeOK
<1> QED
    BY <1>2, <1>3, ModDef

LEMMA ChooseIs ==
    ASSUME TypeInv, NEW r \in Request, Choose(r)
    PROVE  \E s \in Server :
             /\ s = RoundRobin(IF healthy[r] = {} THEN Server ELSE healthy[r],
                               CountOf(r))
             /\ req' \in [Request -> RequestState]
             /\ req'[r].pc = "ask" /\ req'[r].server = s
             /\ req'[r].tries = req[r].tries /\ req'[r].client = req[r].client
             /\ own' = IF r \in Pinned
                       THEN [own EXCEPT ![r] = CountOf(r) % Cycle] ELSE own
             /\ counter' = IF r \in Pinned THEN counter
                ELSE [counter EXCEPT ![req[r].client] = CountOf(r) % Cycle]
             /\ lastUsed' = IF r \in Direct THEN [lastUsed EXCEPT ![r] = s]
                                            ELSE lastUsed
<1> PICK s : s = RoundRobin(IF healthy[r] = {} THEN Server ELSE healthy[r],
                            CountOf(r))
    OBVIOUS
<1>1. req[r].pc = "choose"
    BY DEF Choose
<1>2. s \in Server
    BY <1>1, Counted, Chosen
<1>3. /\ req' = [req EXCEPT ![r].pc = "ask", ![r].server = s]
      /\ own' = IF r \in Pinned
                THEN [own EXCEPT ![r] = CountOf(r) % Cycle] ELSE own
      /\ counter' = IF r \in Pinned THEN counter
                ELSE [counter EXCEPT ![req[r].client] = CountOf(r) % Cycle]
      /\ lastUsed' = IF r \in Direct THEN [lastUsed EXCEPT ![r] = s] ELSE lastUsed
    BY DEF Choose, CountOf
<1>4. req \in [Request -> RequestState]
    BY DEF TypeInv, TypeOK
<1>5. req' \in [Request -> RequestState]
    BY <1>2, <1>3, <1>4, ServerUpdated DEF Label
<1>6. /\ req'[r].pc = "ask" /\ req'[r].server = s
      /\ req'[r].tries = req[r].tries /\ req'[r].client = req[r].client
    BY <1>3, <1>4 DEF RequestState
<1> QED
    BY <1>2, <1>3, <1>5, <1>6

LEMMA ChooseTypes == ASSUME TypeInv, NEW r \in Request, Choose(r) PROVE TypeInv'
<1>1. Step(r) /\ req[r].pc = "choose"
    BY DEF Step, Choose
<1>2. /\ UNCHANGED <<connected, client, expired, loader, expires, healthy,
                     excluded, flips, refused, calm>>
    BY DEF Choose, clientVars
<1>3. PICK s \in Server :
          /\ req' \in [Request -> RequestState]
          /\ req'[r].pc = "ask" /\ req'[r].server = s
          /\ req'[r].tries = req[r].tries /\ req'[r].client = req[r].client
          /\ own' = IF r \in Pinned
                    THEN [own EXCEPT ![r] = CountOf(r) % Cycle] ELSE own
          /\ counter' = IF r \in Pinned THEN counter
             ELSE [counter EXCEPT ![req[r].client] = CountOf(r) % Cycle]
          /\ lastUsed' = IF r \in Direct THEN [lastUsed EXCEPT ![r] = s]
                                         ELSE lastUsed
    BY ChooseIs
<1>4. PICK n \in 0..Cycle-1 : n = CountOf(r) % Cycle
    BY <1>1, Counted
<1>5. own' \in [Request -> 0..Cycle-1]
    BY <1>3, <1>4 DEF TypeInv, TypeOK
<1>6. counter' \in [Client -> 0..Cycle-1]
    BY <1>3, <1>4 DEF TypeInv, TypeOK
<1>7. lastUsed' \in [Request -> Server]
    BY <1>3 DEF TypeInv, TypeOK
<1>8. TypeOK'
    BY <1>2, <1>3, <1>5, <1>6, <1>7 DEF TypeInv, TypeOK
<1>9. RequestsInv'
    <2>1. req[r].client \in Client /\ req[r].tries < RetryAttempts
        BY <1>1 DEF TypeInv, RequestsInv
    <2> QED
        BY <1>1, <1>3, <2>1, RequestsStay
<1>10. RefreshedOnce'
    BY <1>2 DEF TypeInv, RefreshedOnce
<1> QED
    BY <1>8, <1>9, <1>10 DEF TypeInv

\* The three ways an attempt ends.
LEMMA AskTypes ==
    ASSUME TypeInv, NEW r \in Request, Succeed(r) \/ Refused(r) \/ Unreachable(r)
    PROVE  TypeInv'
<1>1. Step(r) /\ req[r].pc = "ask"
    BY DEF Step, Succeed, Refused, Unreachable
<1>2. /\ req[r].client \in Client /\ req[r].tries < RetryAttempts
      /\ req[r].server \in Server /\ req[r].tries \in Nat
    <2>1. req[r].tries \in Nat
        <3>1. req[r].tries \in 0..RetryAttempts
            BY StateOf
        <3> QED
            BY <3>1
    <2> QED
        BY <1>1, <2>1 DEF TypeInv, RequestsInv
<1>3. UNCHANGED <<connected, client, expired, loader, expires, counter, own,
                  lastUsed, flips, calm>>
    BY DEF Succeed, Refused, Unreachable, clientVars
<1>4. PICK label \in {"pick", "served", "failed"}, n \in 0..RetryAttempts :
          Goto(r, label, n) /\ (label = "pick" => n < RetryAttempts)
    <2>1. req[r].tries + 1 \in 0..RetryAttempts /\ req[r].tries \in 0..RetryAttempts
        BY <1>2, Clients
    <2> QED
        BY <2>1 DEF Succeed, Refused, Unreachable, Again
<1>5. /\ excluded' \in [Request -> SUBSET Server]
      /\ refused' \in [Request -> SUBSET Server]
    <2>1. CASE Refused(r)
        <3>1. lastUsed[r] \in Server
            BY DEF TypeInv, TypeOK
        <3> QED
            BY <1>2, <2>1, <3>1 DEF Refused, TypeInv, TypeOK
    <2>2. CASE UNCHANGED <<excluded, refused>>
        BY <2>2 DEF TypeInv, TypeOK
    <2> QED
        BY <2>1, <2>2 DEF Succeed, Unreachable
<1>6. TypeOK'
    BY <1>3, <1>4, <1>5, Ends DEF TypeInv, TypeOK
<1>7. RequestsInv'
    BY <1>1, <1>2, <1>4, Ends, RequestsStay
<1>8. RefreshedOnce'
    BY <1>3 DEF TypeInv, RefreshedOnce
<1> QED
    BY <1>6, <1>7, <1>8 DEF TypeInv

LEMMA NextTypeInv == TypeInv /\ [Next]_vars => TypeInv'
<1> SUFFICES ASSUME TypeInv, [Next]_vars PROVE TypeInv'
    OBVIOUS
<1>1. ASSUME NEW r \in Request, Step(r) PROVE TypeInv'
    BY <1>1, BeginTypes, RefreshTypes, FindTypes, ChooseTypes, AskTypes DEF Step
<1>2. ASSUME UNCHANGED <<loader, counter, own, req, healthy, excluded, lastUsed,
                         refused>>,
             connected' \in SUBSET Server, client' \in Client,
             expired' \in BOOLEAN, expires' \in 0..MaxExpires,
             flips' \in 0..MaxFlips, RefreshedOnce',
             calm' = calm \/ calm' = [r \in Request |-> FALSE]
      PROVE  TypeInv'
    <2>1. TypeOK'
        BY <1>2 DEF TypeInv, TypeOK
    <2>2. RequestsInv'
        BY <1>2 DEF TypeInv, RequestsInv, Started
    <2> QED
        BY <1>2, <2>1, <2>2 DEF TypeInv
<1>3. CASE Expire
    <2>1. expires' \in 0..MaxExpires /\ RefreshedOnce'
        BY <1>3, Clients DEF Expire, TypeInv, RefreshedOnce, Client
    <2> QED
        BY <1>2, <1>3, <2>1 DEF Expire, TypeInv, TypeOK, retryVars
<1>4. ASSUME NEW s \in Server, Flip(s) PROVE TypeInv'
    <2>1. flips' \in 0..MaxFlips
        BY <1>4, LiteRetryAssumption DEF Flip, TypeInv, TypeOK
    <2>2. /\ UNCHANGED <<client, expired, expires, loader, counter, own, req,
                         healthy, excluded, lastUsed, refused>>
          /\ connected' \in SUBSET Server /\ calm' = [r \in Request |-> FALSE]
        BY <1>4 DEF Flip, TypeInv, TypeOK, retryVars, clientVars
    <2> QED
        BY <1>2, <2>1, <2>2 DEF TypeInv, TypeOK, RefreshedOnce
<1>5. CASE UNCHANGED vars
    BY <1>2, <1>5 DEF vars, clientVars, retryVars, TypeInv, TypeOK, RefreshedOnce
<1> QED
    BY <1>1, <1>3, <1>4, <1>5 DEF Next

LEMMA InitTypeInv == Init => TypeInv
<1> SUFFICES ASSUME Init PROVE TypeInv
    OBVIOUS
<1>1. 0 \in Client /\ 0 \in Server /\ Cycle \in Nat \ {0}
      /\ RetryAttempts \in Nat \ {0} /\ MaxExpires \in Nat /\ MaxFlips \in Nat
      /\ Used \subseteq 0..Cycle-1
    BY LiteRetryAssumption DEF Client, Server
<1>2. counter \in [Client -> 0..Cycle-1]
    BY <1>1 DEF Init
<1>3. req \in [Request -> RequestState]
    BY <1>1 DEF Init, RequestState
<1>4. /\ own \in [Request -> 0..Cycle-1] /\ lastUsed \in [Request -> Server]
      /\ expires \in 0..MaxExpires /\ flips \in 0..MaxFlips
    BY <1>1 DEF Init
<1>5. TypeOK
    BY <1>1, <1>2, <1>3, <1>4 DEF Init, TypeOK
<1>6. RequestsInv
    BY DEF Init, RequestsInv, Started
<1>7. RefreshedOnce
    BY DEF Init, RefreshedOnce
<1> QED
    BY <1>5, <1>6, <1>7 DEF TypeInv

-----------------------------------------------------------------------------
(* The fallback. *)

LEMMA DirectStep ==
    ASSUME TypeInv, RetryAttempts >= NumServers, NEW r \in Direct, DirectInv(r),
           Step(r)
    PROVE  DirectInv(r)'
<1> SUFFICES ASSUME calm'[r] PROVE DirectInv(r)'
    BY DEF DirectInv
<1>1. r \in Request /\ r \notin Pinned /\ r \notin Loaded
    BY LiteRetryAssumption DEF Request
<1>2. connected' = connected
    BY DEF Step, Begin, Refresh, FindHealthy, Choose, Succeed, Refused, Unreachable
<1>3. CASE Begin(r) \/ Refresh(r)
    <2>1. /\ ~Started(r) /\ excluded' = excluded
          /\ excluded[r] = {} /\ req[r].tries = 0 /\ ~calm[r]
        BY <1>1, <1>3 DEF Begin, Refresh, retryVars, Started, TypeInv, RequestsInv
    <2>2. PICK k \in Client : Start(r, k)
        BY <1>3, <2>1, Clients DEF Begin, Refresh
    <2>3. /\ req'[r].pc = "pick" /\ req'[r].tries = 0
          /\ connected \cap Archive # {}
        BY <1>1, <2>1, <2>2, Starts
    <2>4. Cardinality({}) = 0
        BY FS_EmptySet
    <2> QED
        BY <1>2, <2>1, <2>3, <2>4 DEF DirectInv
<1>4. CASE FindHealthy(r)
    <2>1. /\ calm[r] /\ excluded' = excluded
          /\ healthy'[r] = connected \ excluded[r]
        BY <1>1, <1>4 DEF FindHealthy, Sees, TypeInv, TypeOK
    <2>2. req'[r].pc = "choose" /\ req'[r].tries = req[r].tries
        BY <1>1, <1>4 DEF FindHealthy, TypeInv, TypeOK, RequestState
    <2> QED
        BY <1>2, <2>1, <2>2 DEF DirectInv
<1>5. CASE Choose(r)
    <2>1. /\ calm[r] /\ excluded' = excluded /\ healthy' = healthy
          /\ healthy[r] = connected \ excluded[r]
          /\ excluded[r] \subseteq connected \ Archive
          /\ connected \cap Archive # {}
        BY <1>5 DEF Choose, DirectInv
    <2>2. healthy[r] # {} /\ healthy[r] \in SUBSET Server
        BY <1>1, <2>1 DEF TypeInv, TypeOK
    <2>3. PICK s : /\ s = RoundRobin(healthy[r], CountOf(r))
                   /\ req'[r].pc = "ask" /\ req'[r].server = s
                   /\ req'[r].tries = req[r].tries
                   /\ lastUsed'[r] = s
        <3>1. PICK s : /\ s = RoundRobin(healthy[r], CountOf(r))
                       /\ req'[r].pc = "ask" /\ req'[r].server = s
                       /\ req'[r].tries = req[r].tries
                       /\ lastUsed' = [lastUsed EXCEPT ![r] = s]
            BY <1>1, <1>5, <2>2, ChooseIs
        <3> QED
            BY <1>1, <3>1 DEF TypeInv, TypeOK
    <2>4. s \in healthy[r]
        <3>1. CountOf(r) \in Nat
            BY <1>1, <1>5, Counted DEF Choose
        <3> QED
            BY <2>2, <2>3, <3>1, RoundRobinIs
    <2> QED
        BY <1>2, <2>1, <2>3, <2>4 DEF DirectInv
\* A server that serves ends the lookup, and one that is not connected was not
\* picked.
<1>6. CASE Succeed(r)
    <2>1. calm[r] /\ excluded' = excluded /\ req'[r].pc = "served"
          /\ req'[r].tries = req[r].tries
        BY <1>1, <1>6 DEF Succeed, Goto, TypeInv, TypeOK, RequestState
    <2> QED
        BY <1>2, <2>1 DEF DirectInv
<1>7. CASE Unreachable(r)
    BY <1>7 DEF Unreachable, DirectInv
\* There is one more server that has refused, and not all of them can.
<1>8. CASE Refused(r)
    <2> PICK X : X = excluded[r]
        OBVIOUS
    <2> PICK Y : Y = excluded'[r]
        OBVIOUS
    <2> PICK s : s = req[r].server
        OBVIOUS
    <2>1. /\ calm[r] /\ s \in connected \ Archive /\ s \notin X
          /\ connected \cap Archive # {}
          /\ X \subseteq connected \ Archive /\ Cardinality(X) = req[r].tries
          /\ lastUsed[r] = s
        BY <1>8 DEF Refused, DirectInv
    <2>2. Y = X \cup {s}
        BY <1>1, <1>8, <2>1 DEF Refused, TypeInv, TypeOK
    <2>3. connected \in SUBSET Server
        BY DEF TypeInv, TypeOK
    <2>4. Cardinality(Y) = req[r].tries + 1
        <3>1. IsFiniteSet(X)
            BY <2>1, <2>3, Servers
        <3>2. Cardinality(X \cup {s}) = Cardinality(X) + 1
            BY <2>1, <3>1, FS_AddElement
        <3> QED
            BY <2>1, <2>2, <3>2
    <2>5. Y \subseteq connected \ Archive /\ Cardinality(Y) < NumServers
        <3>1. Y \in SUBSET Server /\ Y # Server
            BY <2>1, <2>2, <2>3
        <3> QED
            BY <2>1, <2>2, <3>1, Servers
    <2>6. /\ req[r].tries + 1 < RetryAttempts
          /\ req[r].tries + 1 \in 0..RetryAttempts
        <3>1. req[r].tries \in 0..RetryAttempts
            BY <1>1, StateOf
        <3>2. NumServers \in Nat /\ RetryAttempts \in Nat
            BY LiteRetryAssumption
        <3> QED
            BY <2>4, <2>5, <3>1, <3>2
    <2>7. Goto(r, "pick", req[r].tries + 1)
        BY <1>8, <2>6 DEF Refused, Again
    <2>8. req'[r].pc = "pick" /\ req'[r].tries = req[r].tries + 1
        BY <1>1, <2>6, <2>7, Ends
    <2> QED
        BY <1>2, <2>1, <2>4, <2>5, <2>8 DEF DirectInv
<1> QED
    BY <1>3, <1>4, <1>5, <1>6, <1>7, <1>8 DEF Step

-----------------------------------------------------------------------------
(* The copy of a client. *)

LEMMA PinnedStep ==
    ASSUME TypeInv, RetryAttempts >= NumServers, NEW r \in Pinned, PinnedInv(r),
           Step(r)
    PROVE  PinnedInv(r)'
<1> SUFFICES ASSUME calm'[r] PROVE PinnedInv(r)'
    BY DEF PinnedInv
<1> PICK C : C = connected
    OBVIOUS
<1>1. r \in Request /\ r \notin Direct /\ r \notin Loaded
    BY LiteRetryAssumption DEF Request
<1>2. connected' = connected /\ C \in SUBSET Server
    BY DEF Step, Begin, Refresh, FindHealthy, Choose, Succeed, Refused,
           Unreachable, TypeInv, TypeOK
<1>3. own[r] \in Nat /\ req[r].tries \in Nat
    <2>1. req[r].tries \in 0..RetryAttempts /\ own[r] \in 0..Cycle-1
        BY <1>1, StateOf DEF TypeInv, TypeOK
    <2> QED
        BY <2>1
<1>4. CASE Begin(r) \/ Refresh(r)
    <2>1. ~Started(r) /\ ~calm[r]
        BY <1>1, <1>4 DEF Begin, Refresh, Started, TypeInv, RequestsInv
    <2>2. PICK k \in Client : Start(r, k)
        BY <1>4, <2>1, Clients DEF Begin, Refresh
    <2>3. /\ req'[r].pc = "pick" /\ req'[r].tries = 0
          /\ C \cap Archive # {} /\ own'[r] \in 0..Cycle-1
        BY <1>1, <2>1, <2>2, Starts
    <2>4. PICK s \in C : s \in Archive
        BY <2>3
    <2>5. own'[r] + 1 \in Nat
        BY <2>3
    <2>6. PICK d \in 0..Cardinality(C)-1 : RoundRobin(C, own'[r] + 1 + d) = s
        BY <1>2, <2>5, RoundRobinReaches
    <2>7. Cardinality(C) \in Nat
        BY <1>2, Servers
    <2>8. d \in 0..Cardinality(C) - 1 - req'[r].tries
        BY <2>3, <2>7
    <2>9. (Comes(r, own[r] + 1))'
        BY <1>2, <2>4, <2>6, <2>8 DEF Comes
    <2> QED
        BY <1>2, <2>3, <2>9 DEF PinnedInv
<1>5. CASE FindHealthy(r)
    <2>1. calm[r] /\ own' = own /\ healthy'[r] = connected
        BY <1>1, <1>5 DEF FindHealthy, Sees, TypeInv, TypeOK
    <2>2. /\ req[r].pc = "pick" /\ req'[r].pc = "choose"
          /\ req'[r].tries = req[r].tries
        BY <1>1, <1>5 DEF FindHealthy, TypeInv, TypeOK, RequestState
    <2>3. Comes(r, own[r] + 1)
        BY <2>1, <2>2 DEF PinnedInv
    <2>4. (Comes(r, own[r] + 1))'
        BY <1>2, <2>1, <2>2, <2>3 DEF Comes
    <2> QED
        BY <1>2, <2>1, <2>2, <2>4 DEF PinnedInv
<1>6. CASE Choose(r)
    <2>1. /\ calm[r] /\ healthy' = healthy /\ healthy[r] = C
          /\ C \cap Archive # {} /\ req[r].pc = "choose" /\ Comes(r, own[r] + 1)
        BY <1>6 DEF Choose, PinnedInv
    <2>2. CountOf(r) = own[r] + 1 /\ own[r] + 1 \in Nat /\ C # {}
        BY <1>3, <2>1 DEF CountOf
    <2>3. /\ req'[r].pc = "ask" /\ req'[r].server = RoundRobin(C, own[r] + 1)
          /\ req'[r].tries = req[r].tries
          /\ own' = [own EXCEPT ![r] = (own[r] + 1) % Cycle]
        BY <1>1, <1>6, <2>1, <2>2, ChooseIs
    <2>4. own'[r] = (own[r] + 1) % Cycle /\ own'[r] \in Nat
        <3>1. own'[r] = (own[r] + 1) % Cycle
            BY <1>1, <2>3 DEF TypeInv, TypeOK
        <3>2. (own[r] + 1) % Cycle \in 0..Cycle-1
            BY <1>1, <2>1, <2>2, Counted
        <3> QED
            BY <3>1, <3>2
    <2>5. \A d \in Nat : RoundRobin(C, own'[r] + d) = RoundRobin(C, own[r] + 1 + d)
        BY <1>2, <2>2, <2>4, RoundRobinCycles
    <2>6. RoundRobin(C, own'[r]) = RoundRobin(C, own[r] + 1)
        <3>1. own'[r] + 0 = own'[r] /\ own[r] + 1 + 0 = own[r] + 1
            BY <1>3, <2>4
        <3>2. RoundRobin(C, own'[r] + 0) = RoundRobin(C, own[r] + 1 + 0)
            BY <2>5
        <3> QED
            BY <3>1, <3>2
    <2>7. (Comes(r, own[r]))'
        <3>1. PICK d \in 0..Cardinality(C) - 1 - req[r].tries :
                  RoundRobin(C, own[r] + 1 + d) \in Archive
            BY <2>1 DEF Comes
        <3>2. RoundRobin(C, own'[r] + d) \in Archive
            <4>1. d \in Nat
                OBVIOUS
            <4> QED
                BY <2>5, <3>1, <4>1
        <3> QED
            BY <1>2, <2>3, <3>1, <3>2 DEF Comes
    <2> QED
        BY <1>2, <2>1, <2>3, <2>6, <2>7 DEF PinnedInv
<1>7. CASE Succeed(r)
    <2>1. calm[r] /\ req'[r].pc = "served"
        BY <1>1, <1>7 DEF Succeed, Goto, TypeInv, TypeOK, RequestState
    <2> QED
        BY <1>2, <2>1 DEF PinnedInv
<1>8. CASE Unreachable(r) \/ Refused(r)
    <2>1. /\ calm[r] /\ req[r].pc = "ask" /\ C \cap Archive # {}
          /\ req[r].server = RoundRobin(C, own[r])
          /\ Comes(r, own[r])
          /\ own' = own
        BY <1>8 DEF Unreachable, Refused, PinnedInv
    <2>2. RoundRobin(C, own[r]) \in C
        BY <1>2, <1>3, <2>1, RoundRobinIs
    <2>3. Refused(r) /\ RoundRobin(C, own[r]) \notin Archive
        BY <1>8, <2>1, <2>2 DEF Unreachable, Refused
    <2>4. PICK d \in 0..Cardinality(C) - 1 - req[r].tries :
              RoundRobin(C, own[r] + d) \in Archive
        BY <2>1 DEF Comes
    <2>5. d # 0
        <3>1. own[r] + 0 = own[r]
            BY <1>3
        <3> QED
            BY <2>3, <2>4, <3>1
    <2>6. /\ Cardinality(C) \in Nat /\ Cardinality(C) <= NumServers
          /\ NumServers \in Nat /\ RetryAttempts \in Nat
        BY <1>2, Servers, LiteRetryAssumption
    <2>7. /\ req[r].tries + 1 < RetryAttempts
          /\ req[r].tries + 1 \in 0..RetryAttempts
        BY <1>3, <2>4, <2>5, <2>6
    <2>8. Goto(r, "pick", req[r].tries + 1)
        BY <2>3, <2>7 DEF Refused, Again
    <2>9. req'[r].pc = "pick" /\ req'[r].tries = req[r].tries + 1
        BY <1>1, <2>7, <2>8, Ends
    <2>10. PICK e : e = d - 1
        OBVIOUS
    <2>11. /\ e \in 0..Cardinality(C) - 1 - req'[r].tries
           /\ own[r] + 1 + e = own[r] + d
        BY <1>3, <2>4, <2>5, <2>6, <2>9, <2>10
    <2>12. RoundRobin(C, own'[r] + 1 + e) \in Archive
        BY <2>1, <2>4, <2>11
    <2>13. (Comes(r, own[r] + 1))'
        BY <1>2, <2>11, <2>12 DEF Comes
    <2> QED
        BY <1>2, <2>1, <2>9, <2>13 DEF PinnedInv
<1> QED
    BY <1>4, <1>5, <1>6, <1>7, <1>8 DEF Step

-----------------------------------------------------------------------------

\* Steps of other requests, and the end of the time to live, change nothing a
\* request relies on; after a connection has changed nothing is said.
LEMMA OthersKeep ==
    ASSUME NEW r \in Request,
           \/ /\ connected' = connected /\ req'[r] = req[r]
              /\ own'[r] = own[r] /\ healthy'[r] = healthy[r]
              /\ excluded'[r] = excluded[r] /\ lastUsed'[r] = lastUsed[r]
              /\ calm'[r] = calm[r]
           \/ ~calm'[r]
    PROVE  (DirectInv(r) => DirectInv(r)') /\ (PinnedInv(r) => PinnedInv(r)')
BY DEF DirectInv, PinnedInv, Comes

LEMMA NextRetryInv == RetryInv /\ [Next]_vars => RetryInv'
<1> SUFFICES ASSUME RetryInv, [Next]_vars PROVE RetryInv'
    OBVIOUS
<1>1. TypeInv /\ TypeInv'
    BY NextTypeInv DEF RetryInv
<1> SUFFICES ASSUME RetryAttempts >= NumServers
             PROVE  (\A r \in Direct : DirectInv(r)') /\ (\A r \in Pinned : PinnedInv(r)')
    BY <1>1 DEF RetryInv
<1>2. (\A r \in Direct : DirectInv(r)) /\ (\A r \in Pinned : PinnedInv(r))
    BY DEF RetryInv
<1>3. Direct \subseteq Request /\ Pinned \subseteq Request
    BY DEF Request
<1>4. ASSUME NEW q \in Request, Step(q)
      PROVE  (\A r \in Direct : DirectInv(r)') /\ (\A r \in Pinned : PinnedInv(r)')
    <2>1. ASSUME NEW r \in Direct PROVE DirectInv(r)'
        <3>1. CASE r = q
            BY <1>1, <1>2, <1>4, <3>1, DirectStep
        <3>2. CASE r # q
            BY <1>1, <1>2, <1>3, <1>4, <3>2, OthersStay, OthersKeep
        <3> QED
            BY <3>1, <3>2
    <2>2. ASSUME NEW r \in Pinned PROVE PinnedInv(r)'
        <3>1. CASE r = q
            BY <1>1, <1>2, <1>4, <3>1, PinnedStep
        <3>2. CASE r # q
            BY <1>1, <1>2, <1>3, <1>4, <3>2, OthersStay, OthersKeep
        <3> QED
            BY <3>1, <3>2
    <2> QED
        BY <2>1, <2>2
<1>5. ASSUME UNCHANGED <<connected, req, own, healthy, excluded, lastUsed, calm>>
      PROVE  (\A r \in Direct : DirectInv(r)') /\ (\A r \in Pinned : PinnedInv(r)')
    BY <1>2, <1>3, <1>5, OthersKeep
<1>6. CASE Expire
    BY <1>5, <1>6 DEF Expire, retryVars
<1>7. ASSUME NEW s \in Server, Flip(s)
      PROVE  (\A r \in Direct : DirectInv(r)') /\ (\A r \in Pinned : PinnedInv(r)')
    <2>1. \A r \in Request : ~calm'[r]
        BY <1>7 DEF Flip
    <2> QED
        BY <1>2, <1>3, <2>1, OthersKeep
<1>8. CASE UNCHANGED vars
    BY <1>5, <1>8 DEF vars, retryVars
<1> QED
    BY <1>4, <1>6, <1>7, <1>8 DEF Next

LEMMA RetryInvariant == Spec => []RetryInv
<1>1. Init => RetryInv
    <2> SUFFICES ASSUME Init PROVE RetryInv
        OBVIOUS
    <2>1. \A r \in Request : ~calm[r]
        BY DEF Init
    <2> QED
        BY <2>1, InitTypeInv DEF RetryInv, DirectInv, PinnedInv, Request
<1> QED
    BY <1>1, NextRetryInv, PTL DEF Spec

\* Any number of requests may wait for the write lock of currentClient with the
\* same expired client: the first to get it makes the next one, the others use
\* that.
THEOREM ReplacedOnce == Spec => []RefreshedOnce
<1>1. RetryInv => RefreshedOnce
    BY DEF RetryInv, TypeInv
<1> QED
    BY <1>1, RetryInvariant, PTL

\* With any number of servers and of requests that move the shared counter, a
\* lookup of the fallback or on a copy of a client is served if a connected
\* server has its state and retryAttempts is not less than the servers.
THEOREM ServableIsServed == Spec => []ServedIfServable
<1>1. RetryInv => ServedIfServable
    BY DEF RetryInv, ServedIfServable, DirectInv, PinnedInv
<1> QED
    BY <1>1, RetryInvariant, PTL
=============================================================================
