----------------------------- MODULE EventAnswer -----------------------------
(***************************************************************************)
(* pkg/api/event_handlers.go: how GetTrace, GetEvent and GetAccountEvent   *)
(* find the trace they are asked for and what they answer.                 *)
(*                                                                         *)
(* getTraceByHash makes up to four calls to the storage one after the      *)
(* other, while the chain and the mempool emulation go on.  GetEvent asks  *)
(* the spam filter when its event is ready.  GetAccountEvent asks it on a  *)
(* goroutine of its own, which assigns to the variable err of the handler. *)
(*                                                                         *)
(* The storage and the spam filter are external (interfaces.go): a call    *)
(* may fail.  An event is known by its message hash from the moment it is  *)
(* emulated and by its transaction hash as well once it is on chain.       *)
(***************************************************************************)
EXTENDS Naturals

CONSTANTS
    Event,    \* events, each started by one external message
    Request   \* requests of the API; one request does not touch another

Kind == {"GetTrace", "GetEvent", "GetAccountEvent"}
HashKind == {"transaction", "message"}

\* nil, ErrEntityNotFound, ErrTooManyEntities, ErrTraceIsTooLong, any other.
Err == {"nil", "notFound", "tooMany", "tooLong", "failed"}

VARIABLES
    onChain,   \* storage: events whose transactions are indexed
    emulated,  \* storage: events whose emulated trace is kept
    req        \* req[r]: what request r is about and how far it is

answerVars == <<onChain, emulated, req>>

\* ret is what getTraceByHash returned, err the handler's variable err, built
\* whether the event could be built, early whether it was on chain at the start.
Idle == [kind |-> "GetTrace", id |-> "message",
         event |-> CHOOSE e \in Event : TRUE, pc |-> "idle",
         trace |-> "none", ret |-> "nil", err |-> "nil", built |-> TRUE,
         spam |-> "none", status |-> 0, early |-> FALSE]

AnswerInit ==
    /\ onChain = {}
    /\ emulated = {}
    /\ req = [r \in Request |-> Idle]

-----------------------------------------------------------------------------
(* The storage while the requests run. *)

\* saveTraceWithState
Emulate(e) ==
    /\ e \notin onChain
    /\ emulated' = emulated \cup {e}
    /\ UNCHANGED <<onChain, req>>

IncludeEvent(e) ==
    /\ onChain' = onChain \cup {e}
    /\ UNCHANGED <<emulated, req>>

\* The emulated trace outlives the inclusion of its message, to its own ttl.
Expire(e) ==
    /\ emulated' = emulated \ {e}
    /\ UNCHANGED <<onChain, req>>

-----------------------------------------------------------------------------
(* Steps of a request r: each goes on at pc and sets the given fields. *)

AnswerAt(r, pc) == req[r].pc = pc
AnswerSet(r, fields) == req' = [req EXCEPT ![r] =
    [f \in DOMAIN @ |-> IF f \in DOMAIN fields THEN fields[f] ELSE @[f]]]
Store == <<onChain, emulated>>

Begin(r, kind, id, e) ==
    /\ AnswerAt(r, "idle")
    /\ AnswerSet(r, [kind |-> kind, id |-> id, event |-> e, pc |-> "index",
                     early |-> e \in onChain,
                     spam |-> IF kind = "GetAccountEvent" THEN "running" ELSE "none"])
    /\ UNCHANGED Store

\* getTraceByHash returns.
Found(r, trace) ==
    AnswerSet(r, [trace |-> trace, ret |-> "nil", pc |-> "assign"])
Fails(r, err) == AnswerSet(r, [ret |-> err, pc |-> "assign"])

\* GetTrace(hash)
ReadIndex(r) ==
    /\ AnswerAt(r, "index")
    /\ \/ \E e \in Err \ {"nil", "notFound"} : Fails(r, e)
       \/ IF req[r].id = "transaction" /\ req[r].event \in onChain
          THEN Found(r, "real")
          ELSE AnswerSet(r, [pc |-> "message"])
    /\ UNCHANGED Store

\* Mutant: the emulated trace is looked for first.
ReadEmulatedFirst(r) ==
    /\ AnswerAt(r, "message")
    /\ \/ \E e \in Err \ {"nil", "notFound"} : Fails(r, e)
       \/ IF req[r].id = "message" /\ req[r].event \in emulated
          THEN Found(r, "emulated")
          ELSE AnswerSet(r, [pc |-> "emulated"])
    /\ UNCHANGED Store

\* SearchTransactionByMessageHash, then GetTrace of the transaction.
ReadByMessage(r) ==
    /\ AnswerAt(r, "message")
    /\ \/ \E e \in Err \ {"nil", "notFound"} : Fails(r, e)
       \/ IF req[r].id = "message" /\ req[r].event \in onChain
          THEN Found(r, "real") \/ Fails(r, "notFound")
          ELSE AnswerSet(r, [pc |-> "emulated"])
    /\ UNCHANGED Store

\* GetTraceWithState by the hash of the message: an error counts as not found.
ReadEmulated(r) ==
    /\ AnswerAt(r, "emulated")
    /\ \/ Fails(r, "notFound")
       \/ /\ req[r].id = "message" /\ req[r].event \in emulated
          /\ Found(r, "emulated")
    /\ UNCHANGED Store

\* trace, emulated, err := h.getTraceByHash(ctx, traceID)
Assign(r) ==
    /\ AnswerAt(r, "assign")
    /\ AnswerSet(r, [err |-> req[r].ret, pc |-> "check"])
    /\ UNCHANGED Store

Answer(r, status) == AnswerSet(r, [status |-> status, pc |-> "done"])

\* errors.Is(err, ErrEntityNotFound), ErrTooManyEntities, ErrTraceIsTooLong
CheckKnown(r) ==
    /\ AnswerAt(r, "check")
    /\ CASE req[r].err \in {"notFound", "tooMany"} -> Answer(r, 404)
         [] req[r].err = "tooLong" -> Answer(r, 413)
         [] OTHER -> AnswerSet(r, [pc |-> "checkOther"])
    /\ UNCHANGED Store

AfterChecks(r) == IF req[r].kind = "GetTrace" THEN "reply" ELSE "build"

\* Mutant: other errors are not looked at.
CheckKnownOnly(r) ==
    /\ AnswerAt(r, "checkOther")
    /\ AnswerSet(r, [pc |-> AfterChecks(r)])
    /\ UNCHANGED Store

\* if err != nil
CheckOther(r) ==
    /\ AnswerAt(r, "checkOther")
    /\ IF req[r].err # "nil"
       THEN Answer(r, 500)
       ELSE AnswerSet(r, [pc |-> AfterChecks(r)])
    /\ UNCHANGED Store

\* FindActions and toEvent or toAccountEvent.  They read the trace: without one
\* the handler panics, which is status 0 here.
Build(r) ==
    /\ AnswerAt(r, "build")
    /\ IF req[r].trace = "none"
       THEN Answer(r, 0)
       ELSE \E ok \in BOOLEAN :
                AnswerSet(r, [built |-> ok, pc |-> "checkBuild",
                             err |-> IF ok THEN "nil" ELSE "failed"])
    /\ UNCHANGED Store

CheckBuild(r) ==
    /\ AnswerAt(r, "checkBuild")
    /\ IF req[r].err # "nil"
       THEN Answer(r, 500)
       ELSE AnswerSet(r, [pc |-> "spam"])
    /\ UNCHANGED Store

\* GetEvent asks the spam filter itself, and only logs its error.
AskSpam(r) ==
    /\ AnswerAt(r, "spam") /\ req[r].kind = "GetEvent"
    /\ AnswerSet(r, [spam |-> "done", pc |-> "reply"])
    /\ UNCHANGED Store

\* wg.Wait()
WaitSpam(r) ==
    /\ AnswerAt(r, "spam") /\ req[r].kind = "GetAccountEvent"
    /\ req[r].spam = "done"
    /\ AnswerSet(r, [pc |-> "reply"])
    /\ UNCHANGED Store

\* GetTrace converts the trace here: it panics without one.
ReplyTrace(r) ==
    /\ AnswerAt(r, "reply")
    /\ Answer(r, IF req[r].trace = "none" THEN 0 ELSE 200)
    /\ UNCHANGED Store

\* Mutant: the goroutine stops at an error without wg.Done.
SpamNeverDone(r) ==
    /\ req[r].spam = "running"
    /\ \/ AnswerSet(r, [spam |-> "done", err |-> "nil"])
       \/ AnswerSet(r, [spam |-> "none", err |-> "failed"])
    /\ UNCHANGED Store

\* The goroutine of GetAccountEvent: isBannedTraces, err = ...
SpamReturns(r) ==
    /\ req[r].spam = "running"
    /\ \E e \in {"nil", "failed"} : AnswerSet(r, [spam |-> "done", err |-> e])
    /\ UNCHANGED Store

-----------------------------------------------------------------------------
Handler(r) ==
    \/ ReadIndex(r) \/ ReadByMessage(r) \/ ReadEmulated(r) \/ Assign(r)
    \/ CheckKnown(r) \/ CheckOther(r) \/ Build(r) \/ CheckBuild(r)
    \/ AskSpam(r) \/ WaitSpam(r) \/ ReplyTrace(r)

AnswerNext ==
    \/ \E e \in Event : Emulate(e) \/ IncludeEvent(e) \/ Expire(e)
    \/ \E r \in Request :
          \/ \E k \in Kind, i \in HashKind, e \in Event : Begin(r, k, i, e)
          \/ Handler(r)
          \/ SpamReturns(r)

AnswerSpec == AnswerInit /\ [][AnswerNext]_answerVars

\* Every call returns, with an error if its context ends.
FairAnswerSpec ==
    /\ AnswerSpec
    /\ \A r \in Request : WF_answerVars(Handler(r)) /\ WF_answerVars(SpamReturns(r))

-----------------------------------------------------------------------------
(* Properties *)

AnswerTypeOK ==
    /\ onChain \in SUBSET Event
    /\ emulated \in SUBSET Event
    /\ req \in [Request ->
          [kind : Kind, id : HashKind, event : Event,
           pc : {"idle", "index", "message", "emulated", "assign", "check",
                 "checkOther", "build", "checkBuild", "spam", "reply", "done"},
           trace : {"none", "real", "emulated"}, ret : Err, err : Err,
           built : BOOLEAN, spam : {"none", "running", "done"},
           status : {0, 200, 404, 413, 500}, early : BOOLEAN]]
    /\ \A r \in Request : AnswerAt(r, "assign") =>
          (req[r].ret = "nil" <=> req[r].trace # "none")

\* The status that fits what the handler found out.
Right(r) ==
    CASE req[r].ret \in {"notFound", "tooMany"} -> 404
      [] req[r].ret = "tooLong" -> 413
      [] req[r].ret = "failed" -> 500
      [] OTHER -> IF req[r].built THEN 200 ELSE 500

\* GetTrace and GetEvent answer what getTraceByHash found, whatever changes in
\* the storage while they run, and a spam filter that fails spoils no answer.
SequentialAnswersRight ==
    \A r \in Request :
        AnswerAt(r, "done") /\ req[r].kind # "GetAccountEvent"
            => req[r].status = Right(r)

(***************************************************************************)
(* Nor does it in GetAccountEvent, where an error of the spam filter is    *)
(* only to be logged ("error getting events spam data",                    *)
(* event_handlers.go:461) and openapi.yml:1027 promises an Error response  *)
(* for everything that is not an event.                                    *)
(***************************************************************************)
AnswersRight ==
    \A r \in Request : AnswerAt(r, "done") => req[r].status = Right(r)

\* getTraceByHash looks on chain before it looks at the emulated traces: an
\* event that was on chain when the request came is not shown as pending.
OnChainIsNotPending ==
    \A r \in Request :
        AnswerAt(r, "done") /\ req[r].early => req[r].trace # "emulated"

\* What a request is told is what was found, and what is on chain was.
HandlersAnswerRight == SequentialAnswersRight /\ OnChainIsNotPending

\* A request waits for its answer.  It is not to wait for ever, say for a goroutine
\* that does not end.
Answering == \E r \in Request : ~AnswerAt(r, "idle") /\ ~AnswerAt(r, "done")
=============================================================================
