---------------------------- MODULE TrimmedConfig ----------------------------
(***************************************************************************)
(* pkg/litestorage/config.go and Shutdown: the blockchain config that      *)
(* emulation uses, trimmed to a few keys.  A goroutine reads it from the   *)
(* chain every few seconds until Shutdown stops it; a caller of            *)
(* TrimmedConfigBase64 that comes before the first update reads it itself. *)
(* Both call the lite server without the lock and store what it answered,  *)
(* late or not.                                                            *)
(*                                                                         *)
(* A config is its version; 0 is the empty string.                         *)
(***************************************************************************)
EXTENDS Integers

CONSTANTS
    Reader,       \* callers of TrimmedConfigBase64
    Stopper,      \* callers of Shutdown
    MaxVersion,   \* bound: the config changes until it has this version
    MaxConfigFails \* bound: calls and conversions that fail

VARIABLES
    newest,    \* the config of the chain
    trimmed,   \* trimmedConfigBase64 (under mu)
    updater,   \* the goroutine of runBlockchainConfigUpdate
    readers,   \* callers of TrimmedConfigBase64
    stoppers,  \* where a caller of Shutdown is
    configFails  \* bound: failures so far

configVars == <<newest, trimmed, updater, readers, stoppers, configFails>>

ConfigInit ==
    /\ newest = 1 /\ trimmed = 0
    /\ updater = [pc |-> "select", got |-> 0]
    /\ readers = [r \in Reader |-> [pc |-> "idle", got |-> 0]]
    /\ stoppers = [s \in Stopper |-> "idle"]
    /\ configFails = 0

CanFail == configFails < MaxConfigFails /\ configFails' = configFails + 1

-----------------------------------------------------------------------------
(* runBlockchainConfigUpdate *)

Timeout ==
    /\ updater.pc = "select"
    /\ updater' = [updater EXCEPT !.pc = "fetch"]
    /\ UNCHANGED <<newest, trimmed, readers, stoppers, configFails>>

\* Mutant: an error ends the goroutine.
UpdateErrorEnds ==
    /\ updater.pc \in {"fetch", "store"}
    /\ CanFail
    /\ updater' = [updater EXCEPT !.pc = "failed"]
    /\ UNCHANGED <<newest, trimmed, readers, stoppers>>

\* The call or the conversion fails: it waits for the next time.
UpdateFails ==
    /\ updater.pc \in {"fetch", "store"}
    /\ CanFail
    /\ updater' = [updater EXCEPT !.pc = "select"]
    /\ UNCHANGED <<newest, trimmed, readers, stoppers>>

UpdateFetched ==
    /\ updater.pc = "fetch"
    /\ updater' = [pc |-> "store", got |-> newest]
    /\ UNCHANGED <<newest, trimmed, readers, stoppers, configFails>>

\* updateBlockchainConfig
UpdateStored ==
    /\ updater.pc = "store"
    /\ trimmed' = updater.got
    /\ updater' = [updater EXCEPT !.pc = "select"]
    /\ UNCHANGED <<newest, readers, stoppers, configFails>>

-----------------------------------------------------------------------------
(* Shutdown sends on a channel without a buffer. *)

Shutdown(s) ==
    /\ stoppers[s] = "idle"
    /\ stoppers' = [stoppers EXCEPT ![s] = "send"]
    /\ UNCHANGED <<newest, trimmed, updater, readers, configFails>>

\* Mutant: the channel has a buffer of one, so the send is done before anybody
\* receives it.
BufferedStop(s) ==
    /\ stoppers[s] = "send"
    /\ stoppers' = [stoppers EXCEPT ![s] = "done"]
    /\ UNCHANGED <<newest, trimmed, updater, readers, configFails>>

\* The send and the receive in the select, after which the goroutine returns.
Stop(s) ==
    /\ stoppers[s] = "send" /\ updater.pc = "select"
    /\ stoppers' = [stoppers EXCEPT ![s] = "done"]
    /\ updater' = [updater EXCEPT !.pc = "ended"]
    /\ UNCHANGED <<newest, trimmed, readers, configFails>>

-----------------------------------------------------------------------------
(* TrimmedConfigBase64 *)

Goes(r, pc) == readers' = [readers EXCEPT ![r].pc = pc]

\* blockchainConfig; a caller comes again and again.
Read(r) ==
    /\ readers[r].pc \in {"idle", "done"}
    /\ IF trimmed # 0
       THEN Goes(r, "done")
       ELSE Goes(r, "fetch")
    /\ UNCHANGED <<newest, trimmed, updater, stoppers, configFails>>

ReadFails(r) ==
    /\ readers[r].pc \in {"fetch", "store"}
    /\ CanFail
    /\ Goes(r, "idle")
    /\ UNCHANGED <<newest, trimmed, updater, stoppers>>

ReadFetched(r) ==
    /\ readers[r].pc = "fetch"
    /\ readers' = [readers EXCEPT ![r] = [pc |-> "store", got |-> newest]]
    /\ UNCHANGED <<newest, trimmed, updater, stoppers, configFails>>

ReadStored(r) ==
    /\ readers[r].pc = "store"
    /\ trimmed' = readers[r].got
    /\ Goes(r, "done")
    /\ UNCHANGED <<newest, updater, stoppers, configFails>>

-----------------------------------------------------------------------------
\* The chain gets a new config.
KeyBlock ==
    /\ newest < MaxVersion
    /\ newest' = newest + 1
    /\ UNCHANGED <<trimmed, updater, readers, stoppers, configFails>>

RunBlockchainConfigUpdate == Timeout \/ UpdateFails \/ UpdateFetched \/ UpdateStored
TrimmedConfigBase64(r) == Read(r) \/ ReadFails(r) \/ ReadFetched(r) \/ ReadStored(r)

ConfigNext ==
    \/ RunBlockchainConfigUpdate
    \/ \E s \in Stopper : Shutdown(s) \/ Stop(s)
    \/ \E r \in Reader : TrimmedConfigBase64(r)
    \/ KeyBlock

ConfigSpec == ConfigInit /\ [][ConfigNext]_configVars

-----------------------------------------------------------------------------
(* Properties *)

\* "we need to shut down storage to disable fetching blockchain config"
\* (libraries_test.go:37, which then takes the client away): once Shutdown has
\* returned the goroutine neither calls the lite server nor stores an answer it
\* was still waiting for.
ShutdownStopsUpdates ==
    (\E s \in Stopper : stoppers[s] = "done") => updater.pc = "ended"

\* Whatever a caller that came before the first update stores, and however late,
\* the config of the chain is there in the end, unless Shutdown came first.
ConfigFollows == <>[](trimmed = newest) \/ <>(updater.pc = "ended")

\* The first call of Shutdown waits: for the goroutine to come back to its select
\* and find the sender there.  Of two callers the second waits for ever.
ShuttingDown ==
    (\E s \in Stopper : stoppers[s] = "send") /\ ~\E s \in Stopper : stoppers[s] = "done"
=============================================================================
