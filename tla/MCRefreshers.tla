---------------------------- MODULE MCRefreshers ----------------------------
(***************************************************************************)
(* What goroutines of the process refresh in the background, each part on  *)
(* its own: the validation rounds of the rewards service, or the address   *)
(* book.  The parts share nothing, so a behaviour is of one of them and    *)
(* the other stays as it began (the book with no list published).          *)
(***************************************************************************)
EXTENDS RoundStats

CONSTANTS
    a1, tonkeeper, getgems,  \* model values
    Account, Proxy, Tonkeeper, Getgems, MaxEdits, MaxDownloadFails

VARIABLES
    published, collections, jettons, addresses, sorted, relayers, refresher,
    download, names, edits, failed,
    part    \* which of them

Book == INSTANCE AddressBook WITH fails <- failed, MaxFails <- MaxDownloadFails

\* A round in the middle of the history and one to come.
MCLate == {4, 9}

bookVars == <<published, collections, jettons, addresses, sorted, relayers,
              refresher, download, names, edits, failed>>

RefreshersInit ==
    /\ part \in {"stats", "book"}
    /\ Init
    /\ Book!Init /\ (part = "stats" => published = [l \in Book!List |-> {}])

RefreshersNext ==
    \/ part = "stats" /\ Next /\ UNCHANGED <<bookVars, part>>
    \/ part = "book"  /\ Book!Next /\ UNCHANGED <<vars, part>>

\* The fairness of FairSpec of the two.
RefreshersSpec ==
    /\ RefreshersInit
    /\ [][RefreshersNext]_<<vars, bookVars, part>>
    /\ WF_vars(part = "stats" /\ Update)
    /\ \A l \in Book!List : WF_bookVars(part = "book" /\ Book!Refresh(l))

\* In the end, whatever failed on the way: the service knows the current round; the
\* book has every approver of the lists, and the search finds what is in the book.
RefreshersSettle ==
    /\ part = "stats" => EventuallyKnown
    /\ Book!EventuallyApproved /\ Book!SearchSettles

\* The property of AddressBook, which comments it.
ApproversMerged == Book!ApproversMerged
=============================================================================
