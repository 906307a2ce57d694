------------------------------- MODULE Walks -------------------------------
(* How PRISM reads a long list from RUCKUS ONE: page by page, each reader  *)
(* with its own first page, its own way to stop and its own idea of being  *)
(* complete, while rows appear and disappear under it, an unsorted query    *)
(* gives its rows in any order, a page fails or the server does not honour  *)
(* the page it was asked for (fetch.py, switches.py, clients.py, venues.py). *)
EXTENDS Integers, Sequences, SequencesExt

CONSTANTS
    Rows,          \* rows, in the order the readers sort by
    StartLists,    \* lists there may be when a walk begins
    Kinds,         \* the readers walked here, among those below
    Size,          \* rows of a page (PAGE_SIZE, UNIT_PAGE_SIZE, ...)
    Limit,         \* pages a reader asks for at most (..._PAGE_LIMIT)
    Window,        \* ES_WINDOW: rows a switch or client query can reach
    Enough,        \* USERNAME_LIMIT
    Cap,           \* rows RUCKUS ONE hands over at most in the one list of APs
    MaxChanges,    \* bound: rows that appear or disappear while it runs
    MaxAsked       \* bound: pages asked for, more than any reader should

Unknown == -1
Least(a, b) == IF a < b THEN a ELSE b

\* What sets the readers apart: the first page and whether page 1 is page 0
\* again; whether the query asks for an order; which rows are the same row; what
\* ends the walk and after how many pages at the latest; where the total comes
\* from, which is what it calls itself complete by.
Reader == [
    units      |-> [first |-> 0, alias |-> FALSE, sorted |-> FALSE, dedupe |-> FALSE, stop |-> "last",   pages |-> Limit,     total |-> "each"],
    groups     |-> [first |-> 0, alias |-> FALSE, sorted |-> FALSE, dedupe |-> FALSE, stop |-> "last",   pages |-> Limit + 1, total |-> "each"],
    identities |-> [first |-> 0, alias |-> FALSE, sorted |-> TRUE,  dedupe |-> FALSE, stop |-> "last",   pages |-> Limit,     total |-> "each"],
    usernames  |-> [first |-> 1, alias |-> FALSE, sorted |-> TRUE,  dedupe |-> FALSE, stop |-> "enough", pages |-> Limit,     total |-> "each"],
    policies   |-> [first |-> 0, alias |-> FALSE, sorted |-> TRUE,  dedupe |-> TRUE,  stop |-> "fresh",  pages |-> Limit,     total |-> "each"],
    networks   |-> [first |-> 1, alias |-> FALSE, sorted |-> TRUE,  dedupe |-> TRUE,  stop |-> "fresh",  pages |-> Limit,     total |-> "never"],
    clients    |-> [first |-> 0, alias |-> TRUE,  sorted |-> TRUE,  dedupe |-> TRUE,  stop |-> "fresh",  pages |-> Limit,     total |-> "never"],
    switches   |-> [first |-> 0, alias |-> TRUE,  sorted |-> TRUE,  dedupe |-> TRUE,  stop |-> "total",  pages |-> Limit,     total |-> "first"],
    aps        |-> [first |-> 0, alias |-> FALSE, sorted |-> FALSE, dedupe |-> TRUE,  stop |-> "once",   pages |-> Limit,     total |-> "apart"]]

ASSUME WalksAssumption ==
    /\ Rows \subseteq Nat /\ StartLists \subseteq SUBSET Rows
    /\ \A rows \in StartLists : IsFiniteSet(rows)
    /\ Kinds \subseteq DOMAIN Reader
    /\ Size \in Nat \ {0} /\ Limit \in Nat \ {0} /\ Window \in Nat \ {0} /\ Enough \in Nat \ {0}
    /\ Cap \in Nat \ {0} /\ MaxChanges \in Nat
    /\ MaxAsked > Limit + 1 /\ MaxAsked > Window \div Size + 1

VARIABLES
    kind,     \* who reads
    list,     \* the rows there are
    always,   \* history: those there since the walk began
    gone,     \* history: those that disappeared
    honest,   \* does the server honour the page asked for?
    page,     \* the page to ask for next
    got,      \* the rows so far
    total,    \* how many there are, as far as the reader was told
    asked,    \* history: the pages asked for
    done,     \* has the walk ended?
    changes   \* rows that appeared or disappeared
vars == <<kind, list, always, gone, honest, page, got, total, asked, done, changes>>

R == Reader[kind]

Init ==
    /\ kind \in Kinds /\ list \in StartLists /\ always = list /\ gone = {}
    /\ honest \in BOOLEAN
    /\ page = R.first /\ got = <<>> /\ total = Unknown /\ asked = <<>>
    /\ done = FALSE /\ changes = 0

---------------------------------------------------------------------------
\* RUCKUS ONE: the block of rows a page names, and what an answer says.  A row
\* stands where its rank among the rows puts it.
Rank(rows, x) == Cardinality({y \in rows : y <= x})
Sorted(rows) == [i \in 1..Cardinality(rows) |-> CHOOSE x \in rows : Rank(rows, x) = i]
Block(r, p) == IF r.first = 1 \/ r.alias THEN (IF p = 0 THEN 0 ELSE p - 1) ELSE p
InBlock(rows, b) == SubSeq(rows, b * Size + 1, Least((b + 1) * Size, Len(rows)))
\* A query that asks for no order gives a page as many rows as its block has,
\* but whichever it likes: a later page may repeat them and leave others out.
Some(n) == {Sorted(rows) : rows \in kSubset(n, list)}
PageRows(b) ==
    CASE R.stop = "once" -> Some(Least(Cap, Cardinality(list)))
      [] R.sorted        -> {InBlock(Sorted(list), b)}
      [] OTHER           -> Some(Len(InBlock(Sorted(list), b)))
Answers(b) ==
    {[rows |-> rows, total |-> Cardinality(list), last |-> (b + 1) * Size >= Cardinality(list)] : rows \in PageRows(b)}
\* _json() makes of any failure the empty default, which says nothing of a total.
NoAnswer == [rows |-> <<>>, total |-> Unknown, last |-> FALSE]

---------------------------------------------------------------------------
\* The readers.  access_points() tries once more when the first answer is empty.
\* The page after this one: page 1 of an aliased query is not asked.
MutNextPage(r, p) == p + 1
NextPage(r, p) == IF r.alias /\ p = 0 THEN 2 ELSE p + 1

Fresh(r, ans) ==
    IF r.dedupe THEN Sorted(ToSet(ans.rows) \ ToSet(got)) ELSE ans.rows

MutTotalOf(r, ans) == IF r.total \in {"each", "first"} /\ total = Unknown THEN ans.total ELSE total
TotalOf(r, ans) ==
    CASE r.total = "each"  -> IF ans.total = Unknown THEN total ELSE ans.total
      [] r.total = "first" -> IF asked = <<>> THEN (IF ans.total = Unknown THEN 0 ELSE ans.total) ELSE total
      [] OTHER             -> total

\* _pages(): the last page that has rows, by the total and the window
LastPage(t) == (Least(t, Window) + Size - 1) \div Size
MutStops(r, ans, fresh) ==
    \/ IF r.stop = "once" THEN ans.rows # <<>> \/ asked # <<>> ELSE ans.rows = <<>>
    \/ r.stop = "last" /\ ans.last
    \/ r.stop \in {"fresh", "enough"} /\ Len(ans.rows) < Size
    \/ r.stop = "enough" /\ Len(got \o fresh) >= Enough
    \/ r.stop = "fresh" /\ fresh = <<>>
    \/ r.stop = "total" /\ asked = <<>> /\ Len(fresh) >= TotalOf(r, ans)
    \/ r.stop = "fresh" /\ r.alias /\ NextPage(r, page) > Window \div Size
    \/ r.stop # "total" /\ Len(asked) + 1 >= r.pages
Stops(r, ans, fresh) ==
    \/ IF r.stop = "once" THEN ans.rows # <<>> \/ asked # <<>> ELSE ans.rows = <<>>
    \/ r.stop = "last" /\ ans.last
    \/ r.stop \in {"fresh", "enough"} /\ Len(ans.rows) < Size
    \/ r.stop = "enough" /\ Len(got \o fresh) >= Enough
    \/ r.stop = "fresh" /\ fresh = <<>>
    \/ r.stop = "total" /\ asked = <<>> /\ Len(fresh) >= TotalOf(r, ans)
    \/ r.stop = "total" /\ NextPage(r, page) > LastPage(TotalOf(r, ans))
    \/ r.stop = "fresh" /\ r.alias /\ NextPage(r, page) > Window \div Size
    \/ r.stop # "total" /\ Len(asked) + 1 >= r.pages

Take(ans) ==
    LET fresh == Fresh(R, ans) IN
    /\ got' = got \o fresh
    /\ total' = TotalOf(R, ans)
    /\ done' = Stops(R, ans, fresh)
    /\ asked' = Append(asked, page)
    /\ page' = NextPage(R, page)
    /\ UNCHANGED <<kind, list, always, gone, honest, changes>>

Ask ==
    /\ ~done /\ Len(asked) < MaxAsked
    /\ \E ans \in Answers(IF honest THEN Block(R, page) ELSE 0) : Take(ans)
Fails == ~done /\ Len(asked) < MaxAsked /\ Take(NoAnswer)

\* venue_ap_total(): asked beside the list, at a moment of its own
CountApart ==
    /\ R.total = "apart" /\ total = Unknown
    /\ total' = Cardinality(list)
    /\ UNCHANGED <<kind, list, always, gone, honest, page, got, asked, done, changes>>

\* Somebody adds a row, under an id of its own, or removes one.
Appears(row) ==
    /\ ~done /\ changes < MaxChanges /\ row \notin list \cup gone
    /\ list' = list \cup {row}
    /\ changes' = changes + 1
    /\ UNCHANGED <<kind, always, gone, honest, page, got, total, asked, done>>

Disappears(row) ==
    /\ ~done /\ changes < MaxChanges /\ row \in list
    /\ list' = list \ {row} /\ always' = always \ {row} /\ gone' = gone \cup {row}
    /\ changes' = changes + 1
    /\ UNCHANGED <<kind, honest, page, got, total, asked, done>>

Next ==
    \/ Ask \/ Fails \/ CountApart
    \/ \E row \in Rows : Appears(row) \/ Disappears(row)
Spec == Init /\ [][Next]_vars
\* Every request is answered, with a page or an error.
FairSpec == Spec /\ WF_vars(Ask \/ Fails)

---------------------------------------------------------------------------
\* property_units(), identity_groups_all(), dpsk_usernames() and
\* identity_details() say "complete", adaptive_policies() logs the contrary,
\* _query_all() notes it of the rows within its window and build_report() calls
\* the list of APs truncated.
Complete ==
    Len(got) >= IF R.total = "first" THEN Least(total, Window) ELSE total
\* It was told how many rows there are.  A first page that failed tells nothing,
\* which _query_all() takes for none, and a total at the window is the window's.
KnowsTotal == total # Unknown /\ (R.total = "first" => total \in 1..(Window - 1))
Missing == always \ ToSet(got)

\* What a walk that calls itself complete may still have missed, of the rows
\* that were there throughout.  Told the total with every page, at most one row
\* for each that was removed meanwhile, which pulled another forward into what
\* was read: so none when nothing was removed.  This needs the order the query
\* asks for, or rows that are told apart: a reader with neither (property_units,
\* identity_groups_all) has it only when no row came twice.  Told the total once
\* or apart, at most as many as it has rows that came or went.
CompleteMeansAll ==
    done /\ KnowsTotal /\ Complete =>
        /\ R.total = "each" /\ honest /\ (R.sorted \/ IsInjective(got)) =>
              Cardinality(Missing) <= Cardinality(gone)
        /\ R.total \in {"first", "apart"} =>
              Cardinality(Missing) <= Cardinality(ToSet(got) \ always)

\* No walk reads the same block twice, by another name of its page, and a
\* reader that knows its rows keeps none twice, whatever appeared meanwhile
\* (switches._pages, clients.query_all_clients_for_venue).
ReadOnce ==
    /\ \A i, j \in 1..Len(asked) : Block(R, asked[i]) = Block(R, asked[j]) => i = j
    /\ R.dedupe => IsInjective(got)

\* A walk ends, even over a server that answers every page with the first
\* (the all-duplicates stops and the backstops of fetch.py).
WalkEnds == <>done
============================================================================
