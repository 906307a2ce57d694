------------------------------- MODULE Report -------------------------------
(* The requests that read RUCKUS ONE: a client made for each of them over a *)
(* cached token, reads sent out in waves to one pool of threads shared by   *)
(* all, and what is sent back at the end of it (prism_router.py,            *)
(* collect.py, r1_client.py, client.py, token_cache.py).  The token's time  *)
(* passes and an administrator may change what the reader is shown at any   *)
(* moment.                                                                  *)
EXTENDS Integers, FiniteSets, Sequences, SequencesExt

CONSTANTS
    Requests,     \* requests that may be under way at once
    Idle,         \* one that is not
    Routes,       \* "venues", "report", "report.pdf", "config/detail", "identity/trace"
    Waves,        \* per route, the reads of each wave
    Sections,     \* sections a report has
    Detail,       \* what config/detail serves: its sections together, for it is
                  \* refused when all are hidden and served whole otherwise
    Workers,      \* threads of the default executor
    Life,         \* expires_in: for how long RUCKUS ONE takes a token
    Margin,       \* get_cached_token(): how much earlier the cache lets go of it
    MaxAge        \* bound: the age of a request, beyond it not told apart

Smaller(a, b) == IF a < b THEN a ELSE b

ASSUME ReportAssumption ==
    /\ Routes \subseteq {"venues", "report", "report.pdf", "config/detail", "identity/trace"}
    /\ \A route \in Routes : Len(Waves[route]) >= 1
    /\ Detail \notin Sections
    /\ Workers \in Nat \ {0}
    /\ Life \in Nat /\ Margin \in Nat \ {0} /\ Margin < Life /\ MaxAge \in Nat /\ MaxAge > Margin

VARIABLES
    hidden,    \* sections the policy hides from the reader now
    cached,    \* what the cached token has left of its time; 0 is none
    req,       \* each request, or Idle
    queue,     \* reads waiting for a thread: <<request, read>>
    running    \* reads that have one
reportVars == <<hidden, cached, req, queue, running>>

\* What an answer of a route can show.
Reports(q) == q.route \in {"report", "report.pdf"}
Showable(route) ==
    CASE route \in {"report", "report.pdf"} -> Sections
      [] route = "config/detail"            -> {Detail}
      [] OTHER                              -> {}

\* A request: its route, wave, the policy as get_report_pdf() read it first,
\* what has been hidden ever since it began (history), what its token has left,
\* its age and the reads without an answer (error or default).
Started(route, left) ==
    [route |-> route, wave |-> 1, left |-> left, age |-> 0, lost |-> {},
     hidden |-> IF route = "report.pdf" THEN hidden \cap Sections ELSE {},
     throughout |-> hidden \cap Showable(route)]
Active == {r \in Requests : req[r] # Idle}
ReadsOf(q, r) == {q[i] : i \in {j \in DOMAIN q : q[j][1] = r}}
Outstanding(r) == ReadsOf(queue, r) \cup {x \in running : x[1] = r}
Sent(r, reads) == SetToSeq({r} \X reads)

ReportInit ==
    /\ hidden \in SUBSET (Sections \cup {Detail})
    /\ cached = 0
    /\ req = [r \in Requests |-> Idle]
    /\ queue = <<>> /\ running = {}

---------------------------------------------------------------------------
\* build_r1_client(): the cached token, or a new one.  It runs on the event
\* loop, so no two requests sign in at once.  A refusal is the caller's 401.
MutTokenFresh(left) == left > 0
TokenFresh(left) == left > Margin
TokenLeft == IF TokenFresh(cached) THEN cached ELSE Life
\* The scope and the grants have been asked (Territory, RoleTier).
Begin(r, route) ==
    /\ req[r] = Idle /\ Outstanding(r) = {}
    /\ route = "config/detail" => Detail \notin hidden
    /\ cached' = TokenLeft
    /\ req' = [req EXCEPT ![r] = Started(route, TokenLeft)]
    /\ queue' = queue \o Sent(r, Waves[route][1])
    /\ UNCHANGED <<hidden, running>>

\* asyncio.to_thread: the reads wait in one queue for a free thread.
MutThread ==
    /\ queue # <<>> /\ Cardinality(running) + 1 < Workers
    /\ running' = running \cup {Head(queue)}
    /\ queue' = Tail(queue)
    /\ UNCHANGED <<hidden, cached, req>>
Thread ==
    /\ queue # <<>> /\ Cardinality(running) < Workers
    /\ running' = running \cup {Head(queue)}
    /\ queue' = Tail(queue)
    /\ UNCHANGED <<hidden, cached, req>>

Current(x) == x[1] \in Active
Finish(x) == running' = running \ {x} /\ UNCHANGED <<hidden, cached, queue>>
Answered(x) ==
    /\ x \in running /\ (Current(x) => req[x[1]].left > 0)
    /\ Finish(x) /\ UNCHANGED req
\* An error, a body that is no JSON, a token past its time: _json() gives the
\* default.
Defaulted(x) ==
    /\ x \in running /\ Finish(x)
    /\ req' = IF Current(x) THEN [req EXCEPT ![x[1]].lost = @ \cup {x[2]}] ELSE req
\* The connection breaks, or the answer has not the shape the reader needs.
\* Only build_report()'s gathers and the later waves keep the exception; one in
\* the first wave of the others ends the request, its other reads running on.
Keeps(q) == q.wave > 1 \/ Reports(q)
Raised(x) ==
    /\ x \in running /\ Finish(x)
    /\ req' = CASE ~Current(x) -> req
                [] Current(x) /\ Keeps(req[x[1]]) -> [req EXCEPT ![x[1]].lost = @ \cup {x[2]}]
                [] OTHER -> [req EXCEPT ![x[1]] = Idle]

\* The wave is in: the next one asks what the answers have named, which may be
\* nothing, and without answers is.
NextWave(r) ==
    /\ r \in Active /\ Outstanding(r) = {}
    /\ req[r].wave < Len(Waves[req[r].route])
    /\ \E reads \in SUBSET Waves[req[r].route][req[r].wave + 1] :
          /\ Waves[req[r].route][req[r].wave] \subseteq req[r].lost => reads = {}
          /\ queue' = queue \o Sent(r, reads)
    /\ req' = [req EXCEPT ![r].wave = @ + 1,
                          ![r].lost = IF Reports(req[r]) THEN @ ELSE {}]
    /\ UNCHANGED <<hidden, cached, running>>

\* redact(): get_report() reads the policy when the report is there, for it is
\* the later argument; get_report_pdf() has read it before.
MutHiddenUsed(q) == q.hidden
HiddenUsed(q) == IF q.route = "report.pdf" THEN q.hidden ELSE hidden
Shown(q) ==
    IF Reports(q) THEN Showable(q.route) \ HiddenUsed(q) ELSE Showable(q.route)
Respond(r) ==
    /\ r \in Active /\ Outstanding(r) = {}
    /\ req[r].wave = Len(Waves[req[r].route])
    /\ req' = [req EXCEPT ![r] = Idle]
    /\ UNCHANGED <<hidden, cached, queue, running>>

\* An administrator changes what the role is shown.
Hide(h) ==
    /\ h # hidden /\ hidden' = h
    /\ req' = [r \in Requests |->
          IF r \in Active THEN [req[r] EXCEPT !.throughout = @ \cap h] ELSE Idle]
    /\ UNCHANGED <<cached, queue, running>>

Down(n) == IF n = 0 THEN 0 ELSE n - 1
Tick ==
    /\ cached' = Down(cached)
    /\ req' = [r \in Requests |->
          IF r \in Active THEN [req[r] EXCEPT !.left = Down(@), !.age = Smaller(@ + 1, MaxAge)]
                          ELSE Idle]
    /\ <<cached, req>>' # <<cached, req>>
    /\ UNCHANGED <<hidden, queue, running>>

Outcome(x) == Answered(x) \/ Defaulted(x) \/ Raised(x)
ReportNext ==
    \/ \E r \in Requests : NextWave(r) \/ Respond(r) \/ \E route \in Routes : Begin(r, route)
    \/ Thread \/ \E x \in running : Outcome(x)
    \/ \E h \in SUBSET (Sections \cup {Detail}) : Hide(h)
    \/ Tick
ReportSpec == ReportInit /\ [][ReportNext]_reportVars
\* The executor and the event loop run, and RUCKUS ONE answers every request or
\* breaks the connection: the client sets no timeout of its own.
Reads == UNION {UNION {Waves[route][w] : w \in 1..Len(Waves[route])} : route \in Routes}
FairReport ==
    /\ ReportSpec /\ WF_reportVars(Thread)
    /\ \A r \in Requests : WF_reportVars(NextWave(r) \/ Respond(r))
    /\ \A x \in Requests \X Reads : WF_reportVars(x \in running /\ Outcome(x))

---------------------------------------------------------------------------
\* What the policy hides from first to last of a request is not in its answer,
\* and the page, whose reader reads the policy again at the end, shows nothing
\* hidden when it is sent, however long ago it began (prism_router: "filter one
\* and not the other and the download is the way around the policy").
HiddenHonoured ==
    [][ \A r \in Requests : Respond(r) =>
          /\ Shown(req[r]) \cap req[r].throughout = {}
          /\ req[r].route = "report" => Shown(req[r]) \cap hidden = {} ]_reportVars

\* The cache's margin does what it is for: a request never meets a token past
\* its time unless it has run for longer than the margin itself
\* (token_cache.store_token, r1_client.build_r1_client).
MarginHolds == \A r \in Active : req[r].left = 0 => req[r].age > Margin

\* Every request comes to its end, with other requests' reads in the queue
\* before its own and whatever fails (collect.build_report).
RequestsEnd == \A r \in Requests : req[r] # Idle ~> req[r] = Idle

============================================================================
