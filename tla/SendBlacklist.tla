---------------------------- MODULE SendBlacklist ----------------------------
(***************************************************************************)
(* pkg/api/event_handlers.go: SendBlockchainMessage with one message.  A   *)
(* message a lite server took, or refused for good, is kept for a minute   *)
(* in blacklistedBocCache, where the next request with it finds it.  The   *)
(* cache is read before and written after the call of the server, so that  *)
(* requests that overlap may send one message each.                        *)
(*                                                                         *)
(* What SendMessage does is in MsgSender; here it is one call with its     *)
(* result.  A batch neither asks nor fills the cache and goes on to        *)
(* MsgSender as it is.  That the cache forgets its oldest entries beyond   *)
(* 100000 is left out.                                                     *)
(***************************************************************************)
EXTENDS Naturals

CONSTANTS
    Sender,    \* requests
    Payload,   \* messages
    Encoding,  \* how a request may write one: hex or base64
    Minute     \* ticks an entry lives

ASSUME BlacklistAssumption == Minute \in Nat

VARIABLES
    blacklisted,  \* blacklistedBocCache: ticks left, by key
    sends,        \* where a request is
    settled       \* history: ticks since a request with the payload was answered
                  \* that it was taken or refused; Minute if there is none

blacklistVars == <<blacklisted, sends, settled>>

\* Mutant: the checksum is that of the string.
KeyOfString(payload, encoding) == <<payload, encoding>>
\* decodeMessage and the checksum of what it returns; "raw" stands for any
\* encoding.
KeyOf(payload, encoding) == <<payload, "raw">>
Keys == Payload \X (Encoding \cup {"raw"})

\* late: there was an answer less than a minute before this request (history).
BlacklistInit ==
    /\ blacklisted = [k \in Keys |-> 0]
    /\ sends = [s \in Sender |->
          [pc |-> "idle", payload |-> 0, key |-> 0, result |-> "none", late |-> FALSE]]
    /\ settled = [p \in Payload |-> Minute]

SendAt(s, pc) == sends[s].pc = pc

\* The lookup in the cache, before anything is sent.
AskBlacklist(s, payload, encoding) ==
    /\ SendAt(s, "idle")
    /\ LET key == KeyOf(payload, encoding)
           hit == blacklisted[key] > 0
       IN sends' = [sends EXCEPT ![s] = [
              pc |-> IF hit THEN "done" ELSE "send",
              payload |-> payload, key |-> key,
              result |-> IF hit THEN "duplicate" ELSE "none",
              late |-> settled[payload] < Minute]]
    /\ UNCHANGED <<blacklisted, settled>>

\* msgSender.SendMessage: the server takes the message, refuses it ("cannot apply
\* external message to current state"), or cannot be asked.
SendMessage(s) ==
    /\ SendAt(s, "send")
    /\ \E result \in {"taken", "refused", "error"} :
          sends' = [sends EXCEPT ![s].pc = "answer", ![s].result = result]
    /\ UNCHANGED <<blacklisted, settled>>

\* Mutant: only what was taken is kept.
KeepsTaken(result) == result = "taken"
\* Mutant: whatever was tried is kept.
KeepsAll(result) == TRUE
Keeps(result) == result # "error"

AnswerSend(s) ==
    /\ SendAt(s, "answer")
    /\ LET to == sends[s] IN
       /\ blacklisted' = IF Keeps(to.result) THEN [blacklisted EXCEPT ![to.key] = Minute]
                         ELSE blacklisted
       /\ settled' = IF to.result \in {"taken", "refused"}
                     THEN [settled EXCEPT ![to.payload] = 0] ELSE settled
    /\ sends' = [sends EXCEPT ![s].pc = "done"]

\* Time passes, in the call of a server or between requests.
Tick ==
    /\ \E k \in Keys : blacklisted[k] > 0
    /\ blacklisted' = [k \in Keys |-> IF blacklisted[k] > 0 THEN blacklisted[k] - 1 ELSE 0]
    /\ settled' = [p \in Payload |-> IF settled[p] < Minute THEN settled[p] + 1 ELSE Minute]
    /\ UNCHANGED sends

SendBlockchainMessage(s) == SendMessage(s) \/ AnswerSend(s)

BlacklistNext ==
    \/ \E s \in Sender : \/ SendBlockchainMessage(s)
                         \/ \E p \in Payload, e \in Encoding : AskBlacklist(s, p, e)
    \/ Tick

BlacklistSpec == BlacklistInit /\ [][BlacklistNext]_blacklistVars

-----------------------------------------------------------------------------
(* Properties *)

\* A message that was taken or refused is not sent again for a minute by a request
\* that comes after the answer, whichever way either writes it; and one that is
\* called a duplicate was taken or refused in that time: a message no server could
\* be asked about may be tried again.
NotSentAgain ==
    \A s \in Sender : ~SendAt(s, "idle") =>
        (sends[s].late <=> sends[s].result = "duplicate")

\* A request is on its way.
Sending == \E s \in Sender : sends[s].pc \in {"send", "answer"}
=============================================================================
