------------------------------ MODULE AddressBook ------------------------------
(***************************************************************************)
(* pkg/addressbook/addressbook.go: what is known by hand of accounts,      *)
(* jettons and NFT collections.  Four goroutines (Refresher) download      *)
(* lists that others publish and put them into the book, each in a loop    *)
(* of its own, while handlers read it.  Two of them write the collections: *)
(* one list makes Tonkeeper an approver of a collection, one Getgems.  Two *)
(* read the list of jettons: one for the book, one for the search by name. *)
(*                                                                         *)
(* A list is the set of the accounts in it.                                *)
(***************************************************************************)
EXTENDS Naturals, FiniteSets, SequencesExt

CONSTANTS
    Account,     \* accounts the lists may name
    Proxy,       \* those whose name is one of TONAPI's gas proxies
    Tonkeeper, Getgems, \* the approvers
    MaxEdits,    \* bound: how often a list is published anew
    MaxFails     \* bound: downloads that fail

List == {"getgems", "addresses", "jettons", "collections"}

VARIABLES
    published,   \* published[l]: the list as others publish it
    collections, \* Book.collections: the approvers of those that are known
    jettons,     \* Book.jettons
    addresses,   \* manualAddresser.addresses
    sorted,      \* manualAddresser.sorted: accounts the search finds, and as what
    relayers,    \* manualAddresser.relayers
    refresher,   \* refresher[l]: control point of the goroutine of a list
    download,    \* download[l]: what it has got so far
    names,       \* the addresses refreshAddresses keeps for its second download
    edits, fails

book == <<collections, jettons, addresses, sorted, relayers>>
vars == <<published, book, refresher, download, names, edits, fails>>

Known == DOMAIN collections

Init ==
    /\ published \in [List -> SUBSET Account]
    /\ collections = [c \in {} |-> <<>>]
    /\ jettons = {} /\ addresses = {} /\ sorted = {} /\ relayers = {}
    /\ refresher = [l \in List |-> "download"]
    /\ download = [l \in List |-> {}]
    /\ names = {}
    /\ edits = 0 /\ fails = 0

-----------------------------------------------------------------------------
(* Refresher *)

\* The list is asked for.  refreshAddresses has one more to ask for.
Download(l) ==
    /\ refresher[l] = "download"
    /\ download' = [download EXCEPT ![l] = published[l]]
    /\ refresher' = [refresher EXCEPT ![l] =
                        IF l = "addresses" THEN "second" ELSE "install"]
    /\ UNCHANGED <<published, book, names, edits, fails>>

\* refreshAddresses goes on with the list of jettons.
DownloadSecond ==
    /\ refresher["addresses"] = "second"
    /\ names' = download["addresses"]
    /\ download' = [download EXCEPT !["addresses"] = published["jettons"]]
    /\ refresher' = [refresher EXCEPT !["addresses"] = "install"]
    /\ UNCHANGED <<published, book, edits, fails>>

\* The function returns to Refresher, which sleeps and calls it again.
Installed(l) ==
    /\ refresher' = [refresher EXCEPT ![l] = "sleep"]
    /\ download' = [download EXCEPT ![l] = {}]

\* Mutant: the loop is left with an error.
FailForGood(l) ==
    /\ refresher[l] \in {"download", "second"}
    /\ fails < MaxFails /\ fails' = fails + 1
    /\ refresher' = [refresher EXCEPT ![l] = "second"]
    /\ l # "addresses"
    /\ UNCHANGED <<published, book, download, names, edits>>

\* An error: nothing is changed, and after a shorter sleep it is called again.
Fail(l) ==
    /\ refresher[l] \in {"download", "second"}
    /\ fails < MaxFails /\ fails' = fails + 1
    /\ Installed(l)
    /\ UNCHANGED <<published, book, names, edits>>

Wake(l) ==
    /\ refresher[l] = "sleep"
    /\ refresher' = [refresher EXCEPT ![l] = "download"]
    /\ UNCHANGED <<published, book, download, names, edits, fails>>

-----------------------------------------------------------------------------
(* What each of them installs, under the lock. *)

\* The collections with one more approver for those in a list: a collection that
\* is not known yet gets that one, others keep theirs (or the list's, keep = FALSE)
\* and get it if they do not have it.
WithApprover(approver, list, keep) ==
    [c \in Known \cup list |->
        IF c \notin list THEN collections[c]
        ELSE IF c \notin Known THEN <<approver>>
        ELSE IF Contains(collections[c], approver) THEN collections[c]
        ELSE Append(IF keep THEN collections[c] ELSE <<>>, approver)]

\* Mutant: a known collection is left alone.
GGWhitelistNew ==
    /\ refresher["getgems"] = "install"
    /\ collections' = [c \in Known \cup download["getgems"] |->
                          IF c \in Known THEN collections[c] ELSE <<Getgems>>]
    /\ Installed("getgems")
    /\ UNCHANGED <<published, jettons, addresses, sorted, relayers, names, edits,
                   fails>>

GGWhitelist ==
    /\ refresher["getgems"] = "install"
    /\ collections' = WithApprover(Getgems, download["getgems"], TRUE)
    /\ Installed("getgems")
    /\ UNCHANGED <<published, jettons, addresses, sorted, relayers, names, edits,
                   fails>>

\* The items of the published list name no approvers, and it is theirs that
\* Tonkeeper is appended to.
RefreshCollections ==
    /\ refresher["collections"] = "install"
    /\ collections' = WithApprover(Tonkeeper, download["collections"], FALSE)
    /\ Installed("collections")
    /\ UNCHANGED <<published, jettons, addresses, sorted, relayers, names, edits,
                   fails>>

RefreshJettons ==
    /\ refresher["jettons"] = "install"
    /\ jettons' = download["jettons"]
    /\ Installed("jettons")
    /\ UNCHANGED <<published, collections, addresses, sorted, relayers, names,
                   edits, fails>>

RefreshAddresses ==
    /\ refresher["addresses"] = "install"
    /\ addresses' = names
    /\ relayers' = names \cap Proxy
    /\ sorted' = (names \X {"account"}) \cup (download["addresses"] \X {"jetton"})
    /\ Installed("addresses")
    /\ UNCHANGED <<published, collections, jettons, names, edits, fails>>

-----------------------------------------------------------------------------
\* Others publish a list with one account more or less.
Publish(l, a) ==
    /\ edits < MaxEdits /\ edits' = edits + 1
    /\ published' = [published EXCEPT ![l] = IF a \in @ THEN @ \ {a} ELSE @ \cup {a}]
    /\ UNCHANGED <<book, refresher, download, names, fails>>

Install(l) ==
    \/ l = "getgems" /\ GGWhitelist
    \/ l = "collections" /\ RefreshCollections
    \/ l = "jettons" /\ RefreshJettons
    \/ l = "addresses" /\ (DownloadSecond \/ RefreshAddresses)

Refresh(l) == Wake(l) \/ Download(l) \/ Install(l)

Next ==
    \/ \E l \in List : Refresh(l) \/ Fail(l)
    \/ \E l \in List, a \in Account : Publish(l, a)

Spec == Init /\ [][Next]_vars

\* A goroutine is never held up by another; downloads fail only so often.
FairSpec == Spec /\ \A l \in List : WF_vars(Refresh(l))

-----------------------------------------------------------------------------
(* Properties *)

TypeOK ==
    /\ published \in [List -> SUBSET Account]
    /\ Known \subseteq Account
    /\ \A c \in Known : collections[c] \in Seq({Tonkeeper, Getgems})
    /\ jettons \subseteq Account /\ addresses \subseteq Account
    /\ sorted \subseteq Account \X {"account", "jetton"}
    /\ relayers \subseteq Account
    /\ refresher \in [List -> {"download", "second", "install", "sleep"}]
    /\ download \in [List -> SUBSET Account] /\ names \subseteq Account
    /\ edits \in 0..MaxEdits /\ fails \in 0..MaxFails

Approves(approver, c) == c \in Known /\ Contains(collections[c], approver)

\* Whatever the refreshers do to each other's work and whichever of them came
\* first, a collection that stays in both lists ends up with both approvers.
EventuallyApproved ==
    \A c \in Account :
        <>[](c \in published["collections"] \cap published["getgems"])
            => <>[](Approves(Tonkeeper, c) /\ Approves(Getgems, c))

\* The book and the search come to the same jettons, of which each has its own
\* download, and the search finds the accounts the book has addresses for.
SearchSettles ==
    <>[](/\ jettons = published["jettons"] /\ addresses = published["addresses"]
         /\ sorted = (addresses \X {"account"}) \cup (jettons \X {"jetton"})
         /\ relayers = addresses \cap Proxy)

(***************************************************************************)
(* "Merge approvers and ensure Tonkeeper is included"                      *)
(* (addressbook.go:500): no approver is lost when another is added.        *)
(***************************************************************************)
ApproversMerged ==
    [][\A c \in Known : \A a \in {Tonkeeper, Getgems} :
          Approves(a, c) => Approves(a, c)']_vars
=============================================================================
