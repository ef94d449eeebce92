------------------------------ MODULE EventPage ------------------------------
(***************************************************************************)
(* The events of one account: pkg/api/emulation.go keeps the hashes of its *)
(* pending messages, pkg/api/event_handlers.go answers its history in      *)
(* pages, newest first, with the pending events in front of the first.     *)
(*                                                                         *)
(*   addToMempool      a goroutine for each message: tries to save the     *)
(*                     emulated trace, then puts the hash into             *)
(*                     accountsTraces, also when it was not saved          *)
(*   GetAccountEvents  reads the history, then the list, then for each     *)
(*                     hash the chain and the emulated trace               *)
(*                                                                         *)
(* A client reads page after page, with the next_from of one as before_lt  *)
(* of the next, until it is 0, and asks for a page again that it did not   *)
(* get.  The storage is external: it may have lost a trace or have none to *)
(* begin with, and it may fail.  A trace on chain stands for its lt; a     *)
(* pending event has the lt of the emulated trace that was found.          *)
(***************************************************************************)
EXTENDS Naturals, SequencesExt

CONSTANTS
    Msg,     \* messages of the account that are sent and emulated
    Limit,   \* params.Limit
    MaxLt    \* bound: traces on chain

ASSUME EventPageAssumption ==
    /\ Limit \in Nat \ {0}
    /\ MaxLt \in Nat

VARIABLES
    top,       \* traces on chain: 1..top, the newest is top
    open,      \* traces of them that are still in progress
    txLt,      \* txLt[m]: trace on chain of message m, 0 before
    adding,    \* adding[m]: how far addToMempool is with m
    emuLt,     \* emuLt[m]: lt the emulation gave the trace of m
    traced,    \* messages whose emulated trace the storage has now
    list,      \* accountsTraces of the account: hashes
    gone,      \* history: messages that left the list by expiration
    pc,        \* control point of GetAccountEvents and of its client
    before,    \* before_lt, 0 when it is not set
    found,     \* traceIDs: what SearchTraces answered, newest first
    events,    \* the page so far
    hashes,    \* what is left of memTraces
    shownNow,  \* i: pending events added
    lastLT,
    misled,    \* history: messages whose transaction the storage did not tell
    known,     \* history: top when the client began
    read       \* history: the events of all the pages, in order

chainVars == <<top, open, txLt>>
poolVars == <<adding, emuLt, traced, list, gone>>
pageVars == <<pc, before, found, events, hashes, shownNow, lastLT, misled,
             known, read>>
eventVars == <<chainVars, poolVars, pageVars>>

Final(lt) == [lt |-> lt, msg |-> {}]
Pending(m, lt) == [lt |-> lt, msg |-> {m}]
IsPending(e) == e.msg # {}

PendingLimits ==
    CASE Limit >= 20 -> Limit - 10
      [] Limit \in 10..19 -> Limit - 5
      [] Limit \in 5..9 -> Limit - 2
      [] OTHER -> Limit - 1

PageInit ==
    /\ top = 0 /\ open = {} /\ txLt = [m \in Msg |-> 0]
    /\ adding = [m \in Msg |-> "idle"]
    /\ emuLt = [m \in Msg |-> 0]
    /\ traced = {} /\ list = <<>> /\ gone = {}
    /\ pc = "idle" /\ before = 0 /\ found = <<>> /\ events = <<>>
    /\ hashes = <<>> /\ shownNow = 0 /\ lastLT = 0
    /\ misled = {} /\ known = 0 /\ read = <<>>

-----------------------------------------------------------------------------
(* The chain: a new trace of the account, of message m or of nobody. *)

NewTrace ==
    /\ top < MaxLt
    /\ top' = top + 1
    /\ open' \in {open, open \cup {top + 1}}

Include(m) ==
    /\ adding[m] # "idle" /\ txLt[m] = 0
    /\ NewTrace
    /\ txLt' = [txLt EXCEPT ![m] = top + 1]
    /\ UNCHANGED <<poolVars, pageVars>>

Other == NewTrace /\ UNCHANGED <<txLt, poolVars, pageVars>>

Close(lt) ==
    /\ lt \in open
    /\ open' = open \ {lt}
    /\ UNCHANGED <<top, txLt, poolVars, pageVars>>

-----------------------------------------------------------------------------
(* addToMempool. *)

\* saveTraceWithState does not save what is valid no longer, and an error of the
\* storage is logged and not told.
SaveTraceWithState(m) == traced' \in {traced, traced \cup {m}}

\* Emulation against the state of the account now; the save may do nothing.
EmulateAndSave(m) ==
    /\ adding[m] = "idle" /\ txLt[m] = 0
    /\ adding' = [adding EXCEPT ![m] = "emulated"]
    /\ emuLt' = [emuLt EXCEPT ![m] = top + 1]
    /\ SaveTraceWithState(m)
    /\ UNCHANGED <<chainVars, list, gone, pageVars>>

\* newMemHashes is made empty and gets the new hash only: what Get answered is
\* looked up in the storage and dropped.
SetHashes(m) ==
    /\ adding[m] = "emulated"
    /\ adding' = [adding EXCEPT ![m] = "done"]
    /\ list' = <<m>>
    /\ UNCHANGED <<chainVars, emuLt, traced, gone, pageVars>>

\* The entry of the account expires or is evicted.
ExpireList ==
    /\ list # <<>>
    /\ list' = <<>>
    /\ gone' = gone \cup Range(list)
    /\ UNCHANGED <<chainVars, adding, emuLt, traced, pageVars>>

\* The trace has a time to live of its own.
ExpireTrace(m) ==
    /\ m \in traced
    /\ traced' = traced \ {m}
    /\ UNCHANGED <<chainVars, adding, emuLt, list, gone, pageVars>>

-----------------------------------------------------------------------------
(* GetAccountEvents.  When the storage fails to search for traces there is *)
(* no answer and the client asks again.                                    *)

\* The newest traces below before_lt, at most Limit of them.
Newest(b) ==
    LET n == IF b = 0 THEN top ELSE b - 1
        k == IF n < Limit THEN n ELSE Limit
    IN [i \in 1..k |-> n - i + 1]

Search ==
    /\ pc = "idle" \/ pc = "more"
    /\ known' = IF pc = "idle" THEN top ELSE known
    /\ found' = Newest(before)
    /\ lastLT' = IF found' = <<>> THEN 0 ELSE Last(found')
    /\ pc' = "process"
    /\ UNCHANGED <<chainVars, poolVars, before, events, hashes, shownNow, misled,
                   read>>

\* processTrace for each of them, in parallel or in turn.
Process ==
    /\ pc = "process"
    /\ events' = [i \in DOMAIN found |-> Final(found[i])]
    /\ shownNow' = 0
    /\ pc' = IF before # 0 \/ (found # <<>> /\ found[1] \in open)
             THEN "reply" ELSE "mempool"
    /\ UNCHANGED <<chainVars, poolVars, before, found, hashes, lastLT, misled,
                   known, read>>

ReadMempool ==
    /\ pc = "mempool"
    /\ hashes' = list
    /\ pc' = "pending"
    /\ UNCHANGED <<chainVars, poolVars, before, found, events, shownNow,
                   lastLT, misled, known, read>>

EndPending ==
    /\ pc = "pending"
    /\ hashes = <<>> \/ shownNow > PendingLimits
    /\ pc' = "reply"
    /\ UNCHANGED <<chainVars, poolVars, before, found, events, hashes,
                   shownNow, lastLT, misled, known, read>>

NextHash == pc = "pending" /\ hashes # <<>> /\ shownNow <= PendingLimits

\* Its transaction is in the page already, or no trace of it was found.
SkipHash ==
    /\ NextHash
    /\ hashes' = Tail(hashes)
    /\ UNCHANGED <<chainVars, poolVars, pc, before, found, events, shownNow,
                   lastLT, misled, known, read>>

\* Mutant: the transaction is not looked for in the page.
InNoPage(tx) == FALSE

InPage(tx) == Contains(found, tx)

\* Where the emulated trace of m is found: by its transaction, or by its hash.
EmulatedLts(m, tx) == ({tx} \ {0}) \cup {emuLt[x] : x \in traced \cap {m}}

\* Mutant: the cursor is not moved when the page is cut.
CursorStays(page) == lastLT

Cursor(page) == Last(page).lt

\* In front of the page, which is cut to the limit.  A storage that fails to
\* look up the transaction is taken for one that has none.
AddPending ==
    LET m == Head(hashes) IN
    /\ NextHash
    /\ \E tx \in {0, txLt[m]} :
         /\ ~InPage(tx)
         /\ \E lt \in EmulatedLts(m, tx) :
               LET page == <<Pending(m, lt)>> \o events
               IN events' = IF Len(page) > Limit THEN SubSeq(page, 1, Limit) ELSE page
         /\ misled' = IF tx = txLt[m] THEN misled ELSE misled \cup {m}
    /\ shownNow' = shownNow + 1
    /\ lastLT' = Cursor(events')
    /\ hashes' = Tail(hashes)
    /\ UNCHANGED <<chainVars, poolVars, pc, before, found, known, read>>

Forgotten ==
    /\ found' = <<>> /\ events' = <<>> /\ hashes' = <<>>
    /\ shownNow' = 0 /\ lastLT' = 0 /\ misled' = {}

\* A trace is found, and no event can be made of it: status 500 for the page.
FailPending ==
    /\ NextHash
    /\ \E tx \in {0, txLt[Head(hashes)]} :
         ~InPage(tx) /\ EmulatedLts(Head(hashes), tx) # {}
    /\ pc' = "idle"
    /\ Forgotten
    /\ UNCHANGED <<chainVars, poolVars, before, known, read>>

\* The answer, with next_from 0 ("dirty hack") when the page is not full.
Reply ==
    /\ pc = "reply"
    /\ before' = IF Len(events) < Limit THEN 0 ELSE lastLT
    /\ read' = read \o events
    /\ pc' = IF before' = 0 THEN "end" ELSE "more"
    /\ Forgotten
    /\ UNCHANGED <<chainVars, poolVars, known>>

-----------------------------------------------------------------------------
AddToMempool(m) == EmulateAndSave(m) \/ SetHashes(m)
Chain == Other \/ (\E m \in Msg : Include(m)) \/ (\E lt \in open : Close(lt))
GetAccountEvents ==
    \/ Search \/ Process \/ ReadMempool \/ EndPending \/ SkipHash
    \/ AddPending \/ FailPending \/ Reply

PageNext ==
    \/ Chain
    \/ \E m \in Msg : AddToMempool(m) \/ ExpireTrace(m)
    \/ ExpireList
    \/ GetAccountEvents

PageSpec == PageInit /\ [][PageNext]_eventVars

-----------------------------------------------------------------------------
(* Properties *)

Events == [lt : 1..MaxLt + 1, msg : {{}} \cup {{m} : m \in Msg}]

PageTypeOK ==
    /\ top \in 0..MaxLt /\ open \in SUBSET (1..top)
    /\ txLt \in [Msg -> 0..top]
    /\ adding \in [Msg -> {"idle", "emulated", "done"}]
    /\ emuLt \in [Msg -> 0..MaxLt + 1]
    /\ traced \in SUBSET Msg /\ list \in Seq(Msg) /\ gone \in SUBSET Msg
    /\ pc \in {"idle", "process", "mempool", "pending", "reply", "more", "end"}
    /\ before \in 0..MaxLt + 1 /\ lastLT \in 0..MaxLt + 1
    /\ found \in Seq(1..MaxLt) /\ events \in Seq(Events)
    /\ hashes \in Seq(Msg) /\ shownNow \in Nat /\ misled \in SUBSET Msg
    /\ known \in 0..top /\ read \in Seq(Events)

\* No page shows a message as pending next to the trace that its transaction
\* began, whenever it was included while the page was made, unless the storage
\* failed to tell its transaction.
ShownOnce ==
    \A i, j \in DOMAIN events : \A m \in events[i].msg :
        ~IsPending(events[j]) /\ events[j].lt = txLt[m] => m \in misled

\* However the chain grows and messages become pending between and within the
\* requests, a client that reads to the end has seen each trace of the history
\* it began with, and seen it once: a trace that a pending event pushes off the
\* first page is on the second.  (Not so with a limit of 1, which PendingLimits
\* and the test with > let a pending event fill.)
PagesCoverHistory ==
    /\ \A i, j \in DOMAIN read :
          i < j /\ ~IsPending(read[i]) /\ ~IsPending(read[j])
              => read[i].lt > read[j].lt
    /\ pc = "end" =>
          \A lt \in 1..known : \E i \in DOMAIN read : read[i] = Final(lt)

\* What the pages of an account show: the whole history once, and on no page a
\* message twice, whether or not the traces of the listed hashes were saved or kept.
PagesAreRight == PagesCoverHistory /\ ShownOnce

(***************************************************************************)
(* "we need to filter messages which already created transactions"         *)
(* (emulation.go:168): the others stay in the list of the account until    *)
(* its entry expires.                                                      *)
(***************************************************************************)
PendingIsKept ==
    \A m \in Msg : adding[m] = "done" /\ txLt[m] = 0 /\ m \notin gone
                       => m \in Range(list)
=============================================================================
