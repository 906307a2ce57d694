---------------------------- MODULE BatchRuns ----------------------------
(* Batch runs: the browser's loop (AdminBatch.tsx) posts one request per   *)
(* venue, the server (routers/batch_router.py) polls the venue and writes  *)
(* the outcome into the run record (batch_runs.py, BatchStore), which is   *)
(* kept in memory and saved whole after every change.  One tenant; a run   *)
(* and the loop that drives it share an id.                                *)
EXTENDS Integers, Sequences, FiniteSets

CONSTANTS
    Runs,         \* run ids (uuid4), each used once
    Venues,       \* venues of the tenant
    Listings,     \* what the tenant's live venue list may be
    Outcomes,     \* what a poll may come to, of VENUE_STATES
    Workers,      \* the dialog's concurrency
    MaxRuns,      \* MAX_RUNS
    MaxTrouble,   \* bound: failed saves and restarts
    MaxQuiet      \* bound: runs that go quiet

VenueStates == {"ok", "partial", "failed"}

ASSUME BatchAssumption ==
    /\ Outcomes \subseteq VenueStates
    /\ Listings \subseteq SUBSET Venues
    /\ {Workers, MaxRuns} \subseteq Nat \ {0}
    /\ {MaxTrouble, MaxQuiet} \subseteq Nat

VARIABLES
    mem,      \* BatchStore._data
    disk,     \* the file, as its last save left it
    broken,   \* BatchStore.broken
    quiet,    \* runs nobody has reported on for STALE_SECONDS
    drv,      \* per run: the loop that drives it
    stopRef,  \* per run: the dialog's stopRef
    halted,   \* per run: the loop's `halted`
    ask,      \* per run and venue: what the dialog knows
    srv,      \* per run and venue: the request, on its way or at the server
    trouble   \* failed saves and restarts so far
store == <<mem, disk, broken>>
dialog == <<drv, stopRef, halted, ask>>
vars == <<store, quiet, dialog, srv, trouble>>

\* A venue's last attempt and last complete check, numbered in the order they
\* were recorded; a run record; the record of the tenant.
NotRun == "notRun"
NeverChecked == [tried |-> 0, how |-> NotRun, complete |-> 0, found |-> NotRun]
EmptyRun == [planned |-> {}, results |-> [v \in Venues |-> NotRun],
             finished |-> FALSE, stopped |-> FALSE]
EmptyBook == [order |-> <<>>, runs |-> [r \in Runs |-> EmptyRun],
              venues |-> [v \in Venues |-> NeverChecked], listed |-> {}]

Kept(book) == {book.order[i] : i \in DOMAIN book.order}

\* _status(), but for the age of a run
Complete(run) == run.planned # {} /\ \A v \in run.planned : run.results[v] = "ok"
MutStatus(r) ==
    CASE Complete(mem.runs[r]) -> "complete"
      [] ~Complete(mem.runs[r]) /\ mem.runs[r].finished -> "incomplete"
      [] OTHER -> "running"
Status(r) ==
    CASE Complete(mem.runs[r]) -> "complete"
      [] ~Complete(mem.runs[r]) /\ mem.runs[r].finished -> "incomplete"
      [] ~Complete(mem.runs[r]) /\ ~mem.runs[r].finished /\ r \in quiet -> "interrupted"
      [] OTHER -> "running"

Init ==
    /\ mem = EmptyBook /\ disk = EmptyBook
    /\ broken = FALSE
    /\ quiet = {}
    /\ drv = [r \in Runs |-> "none"]
    /\ stopRef = [r \in Runs |-> FALSE] /\ halted = [r \in Runs |-> FALSE]
    /\ ask = [r \in Runs |-> [v \in Venues |-> "none"]]
    /\ srv = [r \in Runs |-> [v \in Venues |-> "none"]]
    /\ trouble = 0

---------------------------------------------------------------------------
Troubled == trouble < MaxTrouble /\ trouble' = trouble + 1

\* _save(): the whole record replaces the file, or the write fails and memory
\* stays ahead of it.  A record that could not be read is never replaced.
Save(book, saved) ==
    /\ mem' = book
    /\ IF saved
       THEN ~broken /\ disk' = book /\ UNCHANGED trouble
       ELSE (IF broken THEN UNCHANGED trouble ELSE Troubled) /\ UNCHANGED disk
    /\ UNCHANGED broken

MinOf(m, n) == IF m <= n THEN m ELSE n

\* start_run(), with note_tenant(): the directory is replaced, the run put
\* first and the oldest beyond MAX_RUNS dropped
Newest(r, order) == <<r>> \o SubSeq(order, 1, MinOf(Len(order), MaxRuns - 1))
Started(book, r, planned, listed) ==
    LET order == Newest(r, book.order) IN
    [order |-> order,
     runs |-> [q \in Runs |->
        CASE q = r -> [EmptyRun EXCEPT !.planned = planned]
          [] q # r /\ \E i \in DOMAIN order : order[i] = q -> book.runs[q]
          [] OTHER -> EmptyRun],
     venues |-> book.venues,
     listed |-> listed]

\* record_venue(): lastComplete moves only on ok
MutRecorded(book, r, v, status) ==
    [book EXCEPT !.venues[v] =
        [tried |-> @.tried + 1, how |-> status, complete |-> @.tried + 1, found |-> status],
                 !.runs[r].results[v] = status]
Recorded(book, r, v, status) ==
    [order |-> book.order, listed |-> book.listed,
     runs |-> [book.runs EXCEPT ![r] = [@ EXCEPT !.results[v] = status]],
     venues |-> [book.venues EXCEPT ![v] =
        [tried |-> @.tried + 1, how |-> status,
         complete |-> IF status = "ok" THEN @.tried + 1 ELSE @.complete,
         found |-> IF status = "ok" THEN status ELSE @.found]]]

\* finish_run(): the first finish is the one that counts
Finished(book, r, stopped) ==
    [book EXCEPT !.runs[r] = [@ EXCEPT !.finished = TRUE, !.stopped = stopped]]

Set2(f, r, v, x) == [f EXCEPT ![r][v] = x]

---------------------------------------------------------------------------
\* POST /runs.  The answer may be lost, or the save may fail after memory was
\* changed: then there is a run on record that nobody drives.
StartRun(r, planned, listed, saved, told) ==
    /\ drv[r] = "none" /\ ~broken
    /\ planned # {} /\ planned \subseteq listed
    /\ told => saved
    /\ Save(Started(mem, r, planned, listed), saved)
    /\ drv' = [drv EXCEPT ![r] = IF told THEN "running" ELSE "over"]
    /\ ask' = [ask EXCEPT ![r] =
          [v \in Venues |-> IF told /\ v \in planned THEN "todo" ELSE "none"]]
    /\ UNCHANGED <<quiet, stopRef, halted, srv>>

\* A worker of the loop takes the next venue and posts it.
Waiting(r) == {v \in Venues : ask[r][v] = "waiting"}
Todo(r) == {v \in Venues : ask[r][v] = "todo"}
Take(r, v) ==
    /\ drv[r] = "running" /\ ~stopRef[r] /\ ~halted[r]
    /\ ask[r][v] = "todo"
    /\ Cardinality(Waiting(r)) < Workers
    /\ ask' = Set2(ask, r, v, "waiting")
    /\ srv' = Set2(srv, r, v, "sent")
    /\ UNCHANGED <<store, quiet, drv, stopRef, halted, trouble>>

\* check_venue() up to its await: what it refuses with decides whether the loop
\* halts (401, 403, 409, 503) or takes it for this venue's failure (404).
Refusal(r, ended) ==
    CASE ended \/ broken -> "halt"
      [] ~ended /\ ~broken /\ r \notin Kept(mem) -> "error"
      [] ~ended /\ ~broken /\ r \in Kept(mem) /\ mem.runs[r].finished -> "halt"
      [] OTHER -> "none"
Reply(r, v, x) == IF ask[r][v] = "waiting" THEN x ELSE "none"
Arrive(r, v, ended) ==
    /\ srv[r][v] = "sent"
    /\ srv' = Set2(srv, r, v, IF Refusal(r, ended) = "none" THEN "polling"
                              ELSE Reply(r, v, Refusal(r, ended)))
    /\ UNCHANGED <<store, quiet, dialog, trouble>>

\* ... and from it: the poll's outcome goes into the run found by its id now,
\* finished or not.  A run dropped meanwhile is a KeyError, a failed save a 500.
MutRecord(r, v, status, saved) ==
    /\ srv[r][v] = "polling" /\ r \in Kept(mem)
    /\ Save(Recorded(mem, r, v, status), saved)
    /\ quiet' = quiet \ {r}
    /\ srv' = Set2(srv, r, v, Reply(r, v, status))
    /\ UNCHANGED dialog
Record(r, v, status, saved) ==
    /\ srv[r][v] = "polling" /\ r \in Kept(mem)
    /\ Save(Recorded(mem, r, v, status), saved)
    /\ quiet' = quiet \ {r}
    /\ srv' = Set2(srv, r, v, Reply(r, v, IF saved THEN status ELSE "error"))
    /\ UNCHANGED <<dialog>>
RunGone(r, v) ==
    /\ srv[r][v] = "polling" /\ r \notin Kept(mem)
    /\ srv' = Set2(srv, r, v, Reply(r, v, "error"))
    /\ UNCHANGED <<store, quiet, dialog, trouble>>

Answer(r, v) ==
    /\ drv[r] = "running" /\ ask[r][v] = "waiting"
    /\ srv[r][v] \in VenueStates \cup {"halt", "error"}
    /\ ask' = Set2(ask, r, v, IF srv[r][v] \in VenueStates THEN srv[r][v] ELSE "unrecorded")
    /\ halted' = [halted EXCEPT ![r] = @ \/ srv[r][v] = "halt"]
    /\ srv' = Set2(srv, r, v, "none")
    /\ UNCHANGED <<store, quiet, drv, stopRef, trouble>>

\* No answer: a network error, or the tunnel's own 502 or 524.  The request
\* may not have arrived, or the server may still be at it.
NoAnswer(r, v, lost) ==
    /\ drv[r] = "running" /\ ask[r][v] = "waiting"
    /\ ask' = Set2(ask, r, v, "unrecorded")
    /\ lost => srv[r][v] = "sent"
    /\ srv' = Set2(srv, r, v, IF lost \/ srv[r][v] \notin {"sent", "polling"} THEN "none" ELSE srv[r][v])
    /\ UNCHANGED <<store, quiet, drv, stopRef, halted, trouble>>

\* Stop, or the dialog closed: venues in flight are let finish.
Stop(r) ==
    /\ drv[r] = "running" /\ ~stopRef[r]
    /\ stopRef' = [stopRef EXCEPT ![r] = TRUE]
    /\ UNCHANGED <<store, quiet, drv, halted, ask, srv, trouble>>

\* The loop and its locals are gone; what the dialog was told stays told.
LoopOver(r) ==
    /\ drv' = [drv EXCEPT ![r] = "over"]
    /\ ask' = [ask EXCEPT ![r] =
          [v \in Venues |-> IF @[v] \in VenueStates THEN @[v] ELSE "none"]]
    /\ srv' = [srv EXCEPT ![r] =
          [v \in Venues |-> IF @[v] \in {"sent", "polling"} THEN @[v] ELSE "none"]]
    /\ stopRef' = [stopRef EXCEPT ![r] = FALSE]
    /\ halted' = [halted EXCEPT ![r] = FALSE]

\* The tab is closed, the laptop slept.
TabGone(r) ==
    /\ drv[r] \in {"running", "finishing"}
    /\ LoopOver(r)
    /\ UNCHANGED <<store, quiet, trouble>>

\* Every worker has returned.
MutWorkersDone(r) ==
    /\ drv[r] = "running"
    /\ Waiting(r) = {} /\ (Todo(r) = {} \/ stopRef[r])
    /\ drv' = [drv EXCEPT ![r] = "finishing"]
    /\ UNCHANGED <<store, quiet, stopRef, halted, ask, srv, trouble>>
WorkersDone(r) ==
    /\ drv[r] = "running"
    /\ Waiting(r) = {} /\ (Todo(r) = {} \/ stopRef[r] \/ halted[r])
    /\ drv' = [drv EXCEPT ![r] = "finishing"]
    /\ UNCHANGED <<store, quiet, stopRef, halted, ask, srv, trouble>>

\* POST /finish, once, its failure ignored by the dialog.
FinishRun(r, saved) ==
    /\ drv[r] = "finishing"
    /\ LoopOver(r)
    /\ IF ~broken /\ r \in Kept(mem) /\ ~mem.runs[r].finished
       THEN /\ Save(Finished(mem, r, stopRef[r] \/ halted[r]), saved)
            /\ quiet' = quiet \ {r}
       ELSE saved /\ UNCHANGED <<store, quiet, trouble>>
FinishLost(r) ==
    /\ drv[r] = "finishing"
    /\ LoopOver(r)
    /\ UNCHANGED <<store, quiet, trouble>>

---------------------------------------------------------------------------
\* STALE_SECONDS pass without a report.
Age(r) ==
    /\ r \in Kept(mem) \ quiet /\ ~mem.runs[r].finished
    /\ Cardinality(quiet) < MaxQuiet
    /\ quiet' = quiet \cup {r}
    /\ UNCHANGED <<store, dialog, srv, trouble>>

\* A deploy or a crash: what was being polled is gone and the record is read
\* from the file again.  A file found damaged stays as it is and reads as no
\* history; it can be mended before the next restart.
MutRestart(readable) ==
    /\ Troubled
    /\ mem' = IF readable THEN disk ELSE EmptyBook
    /\ broken' = FALSE
    /\ srv' = [r \in Runs |-> [v \in Venues |->
                 IF srv[r][v] = "polling" THEN "none" ELSE srv[r][v]]]
    /\ UNCHANGED <<disk, quiet, dialog>>
Restart(readable) ==
    /\ Troubled
    /\ mem' = IF readable THEN disk ELSE EmptyBook
    /\ broken' = ~readable
    /\ srv' = [r \in Runs |-> [v \in Venues |->
                 IF srv[r][v] = "polling" THEN "none" ELSE srv[r][v]]]
    /\ UNCHANGED <<disk, quiet, dialog>>

Loop(r) ==
    \/ \E v \in Venues :
          \/ Take(r, v) \/ Answer(r, v)
          \/ \E lost \in BOOLEAN : NoAnswer(r, v, lost)
    \/ Stop(r) \/ TabGone(r) \/ WorkersDone(r)

Serve(r) ==
    \/ \E listed \in Listings, saved, told \in BOOLEAN : \E planned \in SUBSET listed :
          StartRun(r, planned, listed, saved, told)
    \/ \E v \in Venues :
          \/ \E ended \in BOOLEAN : Arrive(r, v, ended)
          \/ \E status \in Outcomes, saved \in BOOLEAN : Record(r, v, status, saved)
          \/ RunGone(r, v)
    \/ \E saved \in BOOLEAN : FinishRun(r, saved)
    \/ FinishLost(r)

Next ==
    \/ \E r \in Runs : Loop(r) \/ Serve(r) \/ Age(r)
    \/ \E readable \in BOOLEAN : Restart(readable)

Spec == Init /\ [][Next]_vars

\* A request is answered or given up on (the tunnel gives up after 100 s), the
\* loop goes on while its tab is open, and time passes.
Fairness ==
    /\ \A r \in Runs :
          /\ \A v \in Venues :
                /\ WF_vars(Take(r, v))
                /\ WF_vars(Answer(r, v) \/ NoAnswer(r, v, FALSE))
          /\ WF_vars(WorkersDone(r))
          /\ WF_vars(FinishLost(r) \/ \E saved \in BOOLEAN : FinishRun(r, saved))
          /\ WF_vars(Age(r))
FairSpec == Spec /\ Fairness

---------------------------------------------------------------------------

\* "lastComplete moves only on ok": what a venue's last complete check holds is
\* the outcome of an ok attempt, the latest one, in memory and in the file.
LastCompleteTrusted ==
    \A book \in {mem, disk} : \A v \in Venues :
        LET c == book.venues[v] IN
        /\ c.complete <= c.tried
        /\ c.found = IF c.complete = 0 THEN NotRun ELSE "ok"
        /\ c.how = "ok" => c.complete = c.tried

\* An outcome the dialog was told is in the file, whatever crashed since, for
\* as long as the run is among the MAX_RUNS newest.
ToldMeansKept ==
    \A r \in Runs, v \in Venues : ask[r][v] \in {"ok", "partial"} =>
        IF r \in Kept(disk) THEN disk.runs[r].results[v] = ask[r][v]
        ELSE Len(disk.order) = MaxRuns

\* The file never loses a complete check, and never goes back to an older one.
HistoryKept ==
    [][\A v \in Venues : disk'.venues[v].complete >= disk.venues[v].complete]_vars

\* Every loop comes to its end, whatever is lost.
LoopEnds == \A r \in Runs : drv[r] = "running" ~> drv[r] = "over"

\* No run reads "running" for ever: it is finished, complete, dropped, or
\* reads "interrupted" once it has been quiet for STALE_SECONDS.
RunsSettle ==
    \A r \in Runs : (r \in Kept(mem) /\ Status(r) = "running")
        ~> ~(r \in Kept(mem) /\ Status(r) = "running")

===========================================================================
