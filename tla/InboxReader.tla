------------------------------ MODULE InboxReader ------------------------------
(***************************************************************************)
(* The discovery views of MaktubCore, read the way the SDK offers them:    *)
(* a client asks for the length of its list, then for one page after the   *)
(* other, and confirms every identifier with getHeartbeat, as              *)
(* sdk/src/contracts/maktubCore/readOps.ts requires.  Each of these reads  *)
(* is a request of its own, and the chain moves between any two of them:   *)
(* recipients are removed and named again, beats are created, executed and *)
(* cancelled.  A view sees the chain between two transactions.             *)
(***************************************************************************)
EXTENDS MaktubCore, SequencesExt

CONSTANTS
    Reader,             \* the account that lists its beats
    PageSize            \* the count it passes to the paged views

ASSUME ReaderAssumption == Reader \in Address /\ PageSize \in Nat \ {0}

VARIABLES
    listing,            \* the list being read, "inbox" or "owner", or "none"
    total,              \* its length when the listing began
    start,              \* the index of the next page
    found,              \* the identifiers read and not yet confirmed
    confirmed,          \* the identifiers getHeartbeat confirmed, in order
    owed                \* those that belonged in the list ever since it began

reading == <<listing, total, start, found, confirmed, owed>>
allVars == <<vars, reading>>

------------------------------------------------------------------------------
Names(hb) == [inbox |-> Reader \in hb.recipients, owner |-> hb.owner = Reader]

\* The identifiers a list has to show, as the world outside sees the beats.
Belonging(list) == {id \in Id : Names(Committed.beats[id])[list]}

List(list) ==
    CASE list = "inbox" -> recipientBeats[Reader]
      [] list = "owner" -> ownerBeats[Reader]

\* _page: the slice arr[from : min(from + count, length)] of a 0-based array.
Page(arr, from, count) ==
    LET end == IF from + count > Len(arr) THEN Len(arr) ELSE from + count
    IN  IF from >= Len(arr) THEN << >> ELSE SubSeq(arr, from + 1, end)

ReaderInit ==
    /\ listing = "none" /\ total = 0 /\ start = 0
    /\ found = << >> /\ confirmed = << >> /\ owed = {}

\* inboxCount or ownerBeatCount (one listing: a bound of the model).
Count(list) ==
    /\ Idle
    /\ listing = "none"
    /\ listing' = list
    /\ total' = Len(List(list))
    /\ owed' = Belonging(list)
    /\ UNCHANGED <<vars, start, found, confirmed>>

\* getInboxBeatsPaged or getOwnerBeatsPaged, with everything read before
\* confirmed or dropped.
ReadPage ==
    /\ Idle
    /\ listing # "none" /\ start < total /\ found = << >>
    /\ found' = Page(List(listing), start, PageSize)
    /\ start' = start + PageSize
    /\ UNCHANGED <<vars, listing, total, confirmed, owed>>

\* getHeartbeat: an identifier whose beat does not name the reader is stale.
Confirm ==
    /\ Idle
    /\ found # << >>
    /\ HeartbeatExists(Head(found))
    /\ confirmed' = IF Names(beats[Head(found)])[listing]
                    THEN Append(confirmed, Head(found)) ELSE confirmed
    /\ found' = Tail(found)
    /\ UNCHANGED <<vars, listing, total, start, owed>>

Listed == listing # "none" /\ start >= total /\ found = << >>

ReaderNext == (\E list \in {"inbox", "owner"} : Count(list)) \/ ReadPage \/ Confirm

\* A transaction of anybody, up to the end of the listing (a bound of the
\* model: what happens later without a listing happens before one too).
\* What stops belonging in the list is owed no more.
ChainNext ==
    /\ ~Listed
    /\ Next
    /\ UNCHANGED <<listing, total, start, found, confirmed>>
    /\ owed' = IF listing = "none" THEN owed ELSE owed \cap Belonging(listing)'

ReaderSpec == Init /\ ReaderInit /\ [][ReaderNext \/ ChainNext]_allVars

------------------------------------------------------------------------------
\* A paged listing is complete (MaktubCore.sol:688-691, "never misses a
\* current recipient"): once it has ended it has shown every beat that
\* belonged in it all along, each once, however recipients were edited and
\* beats created between its requests.  A list of one's own beats shows them
\* all, in the order they were created in.
PagedListComplete ==
    /\ IsInjective(confirmed)
    /\ Listed => owed \subseteq Range(confirmed)
    /\ Listed /\ listing = "owner" => IsPrefix(confirmed, ownerBeats[Reader])
==============================================================================
