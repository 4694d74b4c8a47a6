----------------------------- MODULE Pagination -----------------------------
(***************************************************************************)
(* The messages of a conversation page by page: paginate as                *)
(* findConversationMessages calls it, and a client that follows the link   *)
(* `next` from the first page on.  The rows of a page and their number are *)
(* two queries; messages are stored and deleted between any two of them.   *)
(***************************************************************************)
EXTENDS Integers, Sequences, FiniteSets

CONSTANTS
  Limit,            \* rows in a page
  MaxMessages,      \* bound: ids the database hands out
  MaxDeletions      \* bound: messages deleted while the client reads

ASSUME PaginationAssumption ==
  /\ Limit \in Nat \ {0}
  /\ {MaxMessages, MaxDeletions} \subseteq Nat

VARIABLES
  messages,         \* ids of the conversation's messages
  nextMessage,
  pc,               \* where the handler of the current page is
  pages,            \* what each page showed, the last one still without links
  late,             \* history: messages stored between two queries of one page
  deleted           \* history: how many messages were deleted since the first

pageVars == <<messages, nextMessage, pc, pages, late, deleted>>

\* The page being asked for, or just answered.
Page == IF pc = "find" THEN Len(pages) + 1 ELSE Len(pages)

PaginationTypeOK ==
  /\ nextMessage \in 1 .. (MaxMessages + 1)
  /\ messages \subseteq 1 .. (nextMessage - 1)
  /\ pc \in {"find", "count", "end"}
  /\ pages \in Seq(SUBSET (1 .. (nextMessage - 1)))
  /\ \A p \in DOMAIN pages : Cardinality(pages[p]) <= Limit
  /\ late \subseteq 1 .. (nextMessage - 1)
  /\ deleted \in 0 .. MaxDeletions
-----------------------------------------------------------------------------
\* The conversation as the client finds it.
PaginationInit ==
  /\ nextMessage \in 1 .. (MaxMessages + 1)
  /\ messages = 1 .. (nextMessage - 1)
  /\ pc = "find"
  /\ pages = <<>>
  /\ late = {}
  /\ deleted = 0

Before(m) == Cardinality({k \in messages : k < m})

\* Slip: as many rows are skipped as there are pages before.
RowsBySkip(page) ==
  {m \in messages : Before(m) \in (page - 1) .. (page - 2 + Limit)}

\* Slip: one row more, to see whether there are any.
RowsAndOne(page) ==
  {m \in messages : Before(m) \in (page - 1) * Limit .. page * Limit}

\* skip and take: TypeORM orders the rows by id.
RowsOf(page) ==
  {m \in messages : Before(m) \in (page - 1) * Limit .. (page * Limit - 1)}

\* Slip: only full pages count.
FullPages(total) == total \div Limit

\* Math.round(total / limit).
TotalPages(total) == (2 * total + Limit) \div (2 * Limit)

HasMore == Page < TotalPages(Cardinality(messages))

Find ==
  /\ pc = "find"
  /\ pages' = Append(pages, RowsOf(Page))
  /\ pc' = "count"
  /\ UNCHANGED <<messages, nextMessage, late, deleted>>

\* The answer has a link `next` or not, and the client follows it.
Count ==
  /\ pc = "count"
  /\ pc' = IF HasMore THEN "find" ELSE "end"
  /\ UNCHANGED <<messages, nextMessage, pages, late, deleted>>

\* sendMessage.
SendMessage ==
  /\ pc # "end"
  /\ nextMessage <= MaxMessages
  /\ messages' = messages \cup {nextMessage}
  /\ nextMessage' = nextMessage + 1
  /\ late' = IF pc = "count" THEN late \cup {nextMessage} ELSE late
  /\ UNCHANGED <<pc, pages, deleted>>

\* deleteMessage.
DeleteMessage ==
  /\ pc # "end"
  /\ deleted < MaxDeletions
  /\ \E m \in messages : messages' = messages \ {m}
  /\ deleted' = deleted + 1
  /\ UNCHANGED <<nextMessage, pc, pages, late>>

PaginationNext == Find \/ Count \/ SendMessage \/ DeleteMessage

PaginationSpec == PaginationInit /\ [][PaginationNext]_pageVars
-----------------------------------------------------------------------------
(***************************************************************************)
(* No message is on two pages: rows are only inserted after, and removed   *)
(* from before, what was already read.                                     *)
(***************************************************************************)
PagesAreDisjoint ==
  \A p, q \in DOMAIN pages : p # q => pages[p] \cap pages[q] = {}

Missed == messages \ (late \cup UNION {pages[p] : p \in DOMAIN pages})

(***************************************************************************)
(* Following the links up to the last one, a client misses no more of the  *)
(* messages that are there than were deleted while it read, and less than  *)
(* half a page at the end, which the rounding gives no page of its own.    *)
(* Messages stored between the two queries of one page are not counted:    *)
(* the next page starts after them.                                        *)
(***************************************************************************)
LittleIsMissed ==
  pc = "end" => 2 * (Cardinality(Missed) - deleted) < Limit
=============================================================================
