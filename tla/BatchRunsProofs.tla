--------------------------- MODULE BatchRunsProofs ---------------------------
(* What the record of batch runs keeps, for any number of runs and venues,   *)
(* lost answers, failed saves and restarts.                                  *)
EXTENDS BatchRuns, SequenceTheorems, TLAPS

RunRecord == [planned: SUBSET Venues, results: [Venues -> VenueStates \cup {NotRun}],
              finished: BOOLEAN, stopped: BOOLEAN]
Check == [tried: Nat, how: VenueStates \cup {NotRun},
          complete: Nat, found: VenueStates \cup {NotRun}]
Book == [order: Seq(Runs), runs: [Runs -> RunRecord],
         venues: [Venues -> Check], listed: SUBSET Venues]

\* A venue's history as LastCompleteTrusted wants it.
Trusted(c) ==
    /\ c.complete <= c.tried
    /\ c.found = IF c.complete = 0 THEN NotRun ELSE "ok"
    /\ c.how = "ok" => c.complete = c.tried
NoOlder(new, old) == \A v \in Venues : new.venues[v].complete >= old.venues[v].complete

\* The record in memory is the file's or newer, unless the file was unreadable
\* at the last start; then nothing is written.
BooksInv ==
    /\ mem \in Book /\ disk \in Book
    /\ \A v \in Venues : Trusted(mem.venues[v]) /\ Trusted(disk.venues[v])
    /\ ~broken => NoOlder(mem, disk)

\* What the record says of an outcome somebody was told, or will be.
Holds(book, r, v, x) ==
    IF r \in Kept(book) THEN book.runs[r].results[v] = x ELSE Len(book.order) = MaxRuns

---------------------------------------------------------------------------
\* The new run first, and of the others as many as there is room for.
LEMMA NewestRuns ==
    ASSUME NEW r \in Runs, NEW order \in Seq(Runs)
    PROVE  LET n == Newest(r, order) IN
           /\ n \in Seq(Runs)
           /\ Len(n) = 1 + MinOf(Len(order), MaxRuns - 1)
           /\ n[1] = r
           /\ \A i \in DOMAIN n : i # 1 => i - 1 \in DOMAIN order /\ n[i] = order[i - 1]
           /\ \A i \in DOMAIN order : i <= MaxRuns - 1 => i + 1 \in DOMAIN n /\ n[i + 1] = order[i]
<1> DEFINE k == MinOf(Len(order), MaxRuns - 1)
           rest == SubSeq(order, 1, k)
           n == <<r>> \o rest
<1>1. MaxRuns \in Nat \ {0} /\ Len(order) \in Nat
  BY BatchAssumption, LenProperties
<1>2. k \in Nat /\ k <= Len(order) /\ k <= MaxRuns - 1
      /\ (k = Len(order) \/ k = MaxRuns - 1)
  BY <1>1 DEF MinOf
<1>3. /\ rest \in Seq(Runs) /\ Len(rest) = k
      /\ \A i \in 1..k : rest[i] = order[i]
  BY <1>1, <1>2
<1>4. <<r>> \in Seq(Runs) /\ Len(<<r>>) = 1
  OBVIOUS
<1>5. /\ n \in Seq(Runs) /\ Len(n) = 1 + k
      /\ \A i \in 1..(1 + k) : n[i] = IF i <= 1 THEN r ELSE rest[i - 1]
  BY <1>3, <1>4, ConcatProperties
<1> HIDE DEF rest, k
<1>6. DOMAIN n = 1..(1 + k) /\ DOMAIN order = 1..Len(order)
  BY <1>2, <1>5, LenProperties
<1> HIDE DEF n
<1>7. \A i \in DOMAIN n : i # 1 => i - 1 \in DOMAIN order /\ n[i] = order[i - 1]
  <2> SUFFICES ASSUME NEW i \in 1..(1 + k), i # 1
               PROVE  i - 1 \in 1..Len(order) /\ n[i] = order[i - 1]
    BY <1>6
  <2>1. i - 1 \in 1..k /\ i - 1 \in 1..Len(order) /\ ~(i <= 1)
    BY <1>1, <1>2
  <2> QED BY <1>3, <1>5, <2>1
<1>8. \A i \in DOMAIN order : i <= MaxRuns - 1 => i + 1 \in DOMAIN n /\ n[i + 1] = order[i]
  <2> SUFFICES ASSUME NEW i \in 1..Len(order), i <= MaxRuns - 1
               PROVE  i + 1 \in 1..(1 + k) /\ n[i + 1] = order[i]
    BY <1>6
  <2>1. i \in 1..k /\ i + 1 \in 1..(1 + k) /\ ~(i + 1 <= 1) /\ (i + 1) - 1 = i
    BY <1>1, <1>2
  <2> QED BY <1>3, <1>5, <2>1
<1>9. n[1] = r
  BY <1>2, <1>5
<1> QED BY <1>5, <1>7, <1>8, <1>9 DEF Newest, k, rest, n

\* A new run leaves what is said of the venues, and of the other runs what was
\* said of them: they are kept as they are, or dropped for want of room.
LEMMA StartedBook ==
    ASSUME NEW book \in Book, NEW r \in Runs, NEW planned \in SUBSET Venues,
           NEW listed \in SUBSET Venues
    PROVE  LET b == Started(book, r, planned, listed) IN
           /\ b \in Book /\ b.venues = book.venues
           /\ \A q \in Runs \ {r}, v \in Venues : \A x : Holds(book, q, v, x) => Holds(b, q, v, x)
<1> DEFINE order == Newest(r, book.order)
           run(q) == CASE q = r -> [EmptyRun EXCEPT !.planned = planned]
                       [] q # r /\ \E i \in DOMAIN order : order[i] = q -> book.runs[q]
                       [] OTHER -> EmptyRun
           b == [order |-> order, runs |-> [q \in Runs |-> run(q)],
                 venues |-> book.venues, listed |-> listed]
<1>1. book.order \in Seq(Runs) /\ book.runs \in [Runs -> RunRecord]
      /\ book.venues \in [Venues -> Check]
  BY DEF Book
<1>2. EmptyRun \in RunRecord /\ [EmptyRun EXCEPT !.planned = planned] \in RunRecord
  BY DEF EmptyRun, RunRecord
<1>3. \A q \in Runs : run(q) \in RunRecord
  BY <1>1, <1>2
<1>4. order \in Seq(Runs)
  BY <1>1, NewestRuns
<1>5. b \in Book /\ b.venues = book.venues
  BY <1>1, <1>3, <1>4 DEF Book
<1>6. ASSUME NEW q \in Runs \ {r}, NEW v \in Venues, NEW x, Holds(book, q, v, x)
      PROVE  Holds(b, q, v, x)
  <2>1. CASE q \in Kept(b)
    <3>1. PICK i \in DOMAIN order : order[i] = q
      BY <2>1 DEF Kept
    <3>2. i # 1
      BY <1>1, <3>1, NewestRuns
    <3>3. q \in Kept(book)
      BY <1>1, <3>1, <3>2, NewestRuns DEF Kept
    <3>4. b.runs[q] = book.runs[q]
      BY <3>1
    <3> QED BY <1>6, <2>1, <3>3, <3>4 DEF Holds
  <2>2. CASE q \notin Kept(b)
    <3>1. Len(book.order) >= MaxRuns
      <4>1. CASE q \in Kept(book)
        <5>1. PICK i \in DOMAIN book.order : book.order[i] = q
          BY <4>1 DEF Kept
        <5>2. ~(i <= MaxRuns - 1)
          <6> SUFFICES ASSUME i <= MaxRuns - 1 PROVE q \in Kept(b)
            BY <2>2
          <6>1. i + 1 \in DOMAIN order /\ order[i + 1] = q
            <7>1. \A j \in DOMAIN book.order :
                    j <= MaxRuns - 1 => j + 1 \in DOMAIN order /\ order[j + 1] = book.order[j]
              BY <1>1, NewestRuns
            <7> HIDE DEF order
            <7> QED BY <5>1, <7>1
          <6> QED BY <6>1 DEF Kept
        <5>3. i \in 1..Len(book.order) /\ Len(book.order) \in Nat
          BY <1>1, <5>1, LenProperties
        <5> QED BY <5>2, <5>3, BatchAssumption
      <4>2. CASE q \notin Kept(book)
        BY <1>1, <1>6, <4>2, LenProperties, BatchAssumption DEF Holds
      <4> QED BY <4>1, <4>2
    <3>2. Len(order) = 1 + MinOf(Len(book.order), MaxRuns - 1)
      BY <1>1, NewestRuns
    <3>3. Len(order) = MaxRuns
      BY <1>1, <3>1, <3>2, LenProperties, BatchAssumption DEF MinOf
    <3> QED BY <2>2, <3>3 DEF Holds
  <2> QED BY <2>1, <2>2
<1> QED BY <1>5, <1>6 DEF Started

\* An outcome is what the record then says of that run and venue, and changes
\* nothing said of another; a complete check takes the place of an older one.
LEMMA RecordedBook ==
    ASSUME NEW book \in Book, NEW r \in Runs, NEW v \in Venues, NEW status \in VenueStates,
           \A w \in Venues : Trusted(book.venues[w])
    PROVE  LET b == Recorded(book, r, v, status) IN
           /\ b \in Book /\ NoOlder(b, book)
           /\ \A w \in Venues : Trusted(b.venues[w])
           /\ r \in Kept(book) => Holds(b, r, v, status)
           /\ \A q \in Runs, w \in Venues : \A x :
                 <<q, w>> # <<r, v>> /\ Holds(book, q, w, x) => Holds(b, q, w, x)
<1> DEFINE c == book.venues[v]
           new == [tried |-> c.tried + 1, how |-> status,
                   complete |-> IF status = "ok" THEN c.tried + 1 ELSE c.complete,
                   found |-> IF status = "ok" THEN status ELSE c.found]
           run == [book.runs[r] EXCEPT !.results[v] = status]
           b == [order |-> book.order, runs |-> [book.runs EXCEPT ![r] = run],
                 venues |-> [book.venues EXCEPT ![v] = new], listed |-> book.listed]
<1>1. /\ book.order \in Seq(Runs) /\ book.runs \in [Runs -> RunRecord]
      /\ book.venues \in [Venues -> Check] /\ book.listed \in SUBSET Venues
      /\ c \in Check /\ book.runs[r] \in RunRecord
  BY DEF Book
<1>2. new \in Check /\ Trusted(new) /\ new.complete >= c.complete
  BY <1>1 DEF Check, Trusted, VenueStates, NotRun
<1>3. run \in RunRecord /\ run.results = [book.runs[r].results EXCEPT ![v] = status]
  BY <1>1 DEF RunRecord
<1>4. Recorded(book, r, v, status) = b
  BY DEF Recorded
<1> HIDE DEF new, run
<1>5. b \in Book
  BY <1>1, <1>2, <1>3 DEF Book
<1>6. NoOlder(b, book) /\ \A w \in Venues : Trusted(b.venues[w])
  <2> SUFFICES ASSUME NEW w \in Venues
               PROVE  b.venues[w].complete >= book.venues[w].complete /\ Trusted(b.venues[w])
    BY DEF NoOlder
  <2>1. book.venues[w].complete \in Nat
    BY <1>1 DEF Check
  <2>2. b.venues[w] = IF w = v THEN new ELSE book.venues[w]
    BY <1>1
  <2> QED BY <1>2, <2>1, <2>2
<1>7. Kept(b) = Kept(book)
  BY DEF Kept
<1>8. /\ b.runs[r].results[v] = status
      /\ \A q \in Runs, w \in Venues :
            <<q, w>> # <<r, v>> => b.runs[q].results[w] = book.runs[q].results[w]
  BY <1>1, <1>3 DEF RunRecord
<1>9. /\ r \in Kept(book) => Holds(b, r, v, status)
      /\ \A q \in Runs, w \in Venues : \A x :
            <<q, w>> # <<r, v>> /\ Holds(book, q, w, x) => Holds(b, q, w, x)
  BY <1>7, <1>8 DEF Holds
<1> QED BY <1>4, <1>5, <1>6, <1>9

\* A finish changes what is said of no venue.
LEMMA FinishedBook ==
    ASSUME NEW book \in Book, NEW r \in Runs, NEW stopped \in BOOLEAN
    PROVE  LET b == Finished(book, r, stopped) IN
           /\ b \in Book /\ b.venues = book.venues
           /\ \A q \in Runs, v \in Venues : \A x : Holds(book, q, v, x) => Holds(b, q, v, x)
<1> DEFINE run == [book.runs[r] EXCEPT !.finished = TRUE, !.stopped = stopped]
           b == [order |-> book.order, runs |-> [book.runs EXCEPT ![r] = run],
                 venues |-> book.venues, listed |-> book.listed]
<1>1. /\ book.order \in Seq(Runs) /\ book.runs \in [Runs -> RunRecord]
      /\ book.venues \in [Venues -> Check] /\ book.listed \in SUBSET Venues
      /\ book.runs[r] \in RunRecord
  BY DEF Book
<1>2. run \in RunRecord /\ run.results = book.runs[r].results
  BY <1>1 DEF RunRecord
<1>3. Finished(book, r, stopped) = b
  <2>1. book = [order |-> book.order, runs |-> book.runs,
                  venues |-> book.venues, listed |-> book.listed]
    BY DEF Book
  <2> QED BY <2>1 DEF Finished
<1> HIDE DEF run
<1>4. b \in Book
  BY <1>1, <1>2 DEF Book
<1>5. Kept(b) = Kept(book) /\ \A q \in Runs : b.runs[q].results = book.runs[q].results
  BY <1>1, <1>2 DEF Kept
<1> QED BY <1>3, <1>4, <1>5 DEF Holds

---------------------------------------------------------------------------
\* What a change that is saved, or is not, makes of the two records.
Better(book) == book \in Book /\ NoOlder(book, mem) /\ \A v \in Venues : Trusted(book.venues[v])
LEMMA SaveStep ==
    ASSUME BooksInv, NEW book, Better(book), NEW saved, Save(book, saved)
    PROVE  BooksInv' /\ NoOlder(disk', disk)
<1>1. /\ mem' = book /\ broken' = broken
      /\ disk' = disk \/ (~broken /\ disk' = book)
  BY DEF Save
<1>2. \A b \in {mem, disk, book}, v \in Venues : b.venues[v].complete \in Nat
  BY DEF BooksInv, Better, Book, Check
<1>3. NoOlder(disk, disk) /\ NoOlder(book, book)
  BY <1>2 DEF NoOlder
<1>4. ~broken => NoOlder(book, disk)
  BY <1>2 DEF BooksInv, Better, NoOlder
<1>5. NoOlder(disk', disk)
  BY <1>1, <1>3, <1>4
<1>6. BooksInv'
  BY <1>1, <1>3, <1>4 DEF BooksInv, Better
<1> QED BY <1>5, <1>6

\* The records change by a new run, an outcome, a finish and a restart.
LEMMA Changes ==
    ASSUME [Next]_vars
    PROVE  \/ UNCHANGED store
           \/ \E r \in Runs, listed \in Listings, saved, told \in BOOLEAN :
                 \E planned \in SUBSET listed : StartRun(r, planned, listed, saved, told)
           \/ \E r \in Runs, v \in Venues, status \in Outcomes, saved \in BOOLEAN :
                 Record(r, v, status, saved)
           \/ \E r \in Runs, saved \in BOOLEAN :
                 /\ FinishRun(r, saved)
                 /\ Save(Finished(mem, r, stopRef[r] \/ halted[r]), saved)
           \/ \E readable \in BOOLEAN : Restart(readable)
BY DEF Next, Loop, Serve, Take, Answer, NoAnswer, Stop, TabGone, WorkersDone, Arrive, RunGone,
       FinishRun, FinishLost, Age, vars

LEMMA BooksInit == Init => BooksInv
BY EmptySeq
DEF Init, BooksInv, EmptyBook, Book, EmptyRun, RunRecord, NeverChecked, Check, NotRun,
    Trusted, NoOlder

LEMMA BooksStep == BooksInv /\ [Next]_vars => BooksInv' /\ NoOlder(disk', disk)
<1> SUFFICES ASSUME BooksInv, [Next]_vars PROVE BooksInv' /\ NoOlder(disk', disk)
  OBVIOUS
<1>1. mem \in Book /\ disk \in Book /\ \A v \in Venues : Trusted(mem.venues[v])
  BY DEF BooksInv
<1>2. \A b \in {mem, disk}, v \in Venues : b.venues[v].complete \in Nat
  BY <1>1 DEF Book, Check
<1>3. NoOlder(mem, mem) /\ NoOlder(disk, disk)
  BY <1>2 DEF NoOlder
<1>4. CASE UNCHANGED store
  BY <1>3, <1>4 DEF store, BooksInv
<1>5. ASSUME NEW r \in Runs, NEW listed \in Listings, NEW saved \in BOOLEAN,
             NEW told \in BOOLEAN, NEW planned \in SUBSET listed,
             StartRun(r, planned, listed, saved, told)
      PROVE  BooksInv' /\ NoOlder(disk', disk)
  <2>1. listed \in SUBSET Venues /\ planned \in SUBSET Venues
    BY BatchAssumption
  <2>2. Better(Started(mem, r, planned, listed))
    BY <1>1, <1>3, <2>1, StartedBook DEF Better, NoOlder
  <2> QED BY <1>5, <2>2, SaveStep DEF StartRun
<1>6. ASSUME NEW r \in Runs, NEW v \in Venues, NEW status \in Outcomes, NEW saved \in BOOLEAN,
             Record(r, v, status, saved)
      PROVE  BooksInv' /\ NoOlder(disk', disk)
  <2>1. Better(Recorded(mem, r, v, status))
    BY <1>1, RecordedBook, BatchAssumption DEF Better
  <2> QED BY <1>6, <2>1, SaveStep DEF Record
<1>7. ASSUME NEW r \in Runs, NEW saved \in BOOLEAN,
             Save(Finished(mem, r, stopRef[r] \/ halted[r]), saved)
      PROVE  BooksInv' /\ NoOlder(disk', disk)
  <2>1. (stopRef[r] \/ halted[r]) \in BOOLEAN
    OBVIOUS
  <2>2. Better(Finished(mem, r, stopRef[r] \/ halted[r]))
    BY <1>1, <1>3, <2>1, FinishedBook DEF Better, NoOlder
  <2> QED BY <1>7, <2>2, SaveStep
<1>8. ASSUME NEW readable \in BOOLEAN, Restart(readable)
      PROVE  BooksInv' /\ NoOlder(disk', disk)
  <2>1. EmptyBook \in Book /\ \A v \in Venues : Trusted(EmptyBook.venues[v])
    BY EmptySeq DEF EmptyBook, Book, EmptyRun, RunRecord, NeverChecked, Check, NotRun, Trusted
  <2> QED BY <1>1, <1>3, <1>8, <2>1 DEF Restart, BooksInv
<1> QED BY <1>4, <1>5, <1>6, <1>7, <1>8, Changes

\* What a venue's last complete check holds is the outcome of an attempt that
\* was ok, and the latest such (batch_runs.py: "lastComplete moves only on ok").
THEOREM CompleteIsTrusted == Spec => []LastCompleteTrusted
<1>1. Init => BooksInv
  BY BooksInit
<1>2. BooksInv /\ [Next]_vars => BooksInv'
  BY BooksStep
<1>3. BooksInv => LastCompleteTrusted
  BY DEF BooksInv, LastCompleteTrusted, Trusted
<1> QED BY <1>1, <1>2, <1>3, PTL DEF Spec

\* The file never goes back to an older complete check, though what is written
\* is a whole record read at some earlier start (batch_runs._save).
THEOREM HistoryIsKept == Spec => HistoryKept
<1>1. Init => BooksInv
  BY BooksInit
<1>2. BooksInv /\ [Next]_vars => BooksInv'
  BY BooksStep
<1>3. BooksInv /\ [Next]_vars
        => [\A v \in Venues : disk'.venues[v].complete >= disk.venues[v].complete]_vars
  BY BooksStep DEF NoOlder
<1> QED BY <1>1, <1>2, <1>3, PTL DEF Spec, HistoryKept

---------------------------------------------------------------------------
\* A venue is asked about once: a loop that was told of it has nothing on its
\* way, and what is on its way is awaited.
AskStates == VenueStates \cup {"none", "todo", "waiting", "unrecorded"}
SrvStates == VenueStates \cup {"none", "sent", "polling", "halt", "error"}
Quietly(r, v) ==
    /\ ask[r][v] # "none" => drv[r] # "none"
    /\ ask[r][v] \in VenueStates => srv[r][v] = "none"
    /\ srv[r][v] \in VenueStates => ask[r][v] = "waiting"
AskInv ==
    /\ ask \in [Runs -> [Venues -> AskStates]]
    /\ srv \in [Runs -> [Venues -> SrvStates]]
    /\ drv \in [Runs -> {"none", "running", "finishing", "over"}]
    /\ \A r \in Runs, v \in Venues : Quietly(r, v)

\* What the dialog was told, or is about to be, both records say.
Told(r, v) == {ask[r][v], srv[r][v]} \cap VenueStates
ToldInv ==
    \A r \in Runs, v \in Venues : \A x \in Told(r, v) :
        Holds(disk, r, v, x) /\ (~broken => Holds(mem, r, v, x))

\* A loop that is over keeps what it was told and drops the answers.
LEMMA OverStep ==
    ASSUME AskInv, NEW r \in Runs, LoopOver(r)
    PROVE  AskInv' /\ \A q \in Runs, v \in Venues : Told(q, v)' \subseteq Told(q, v)
<1>1. /\ ask' \in [Runs -> [Venues -> AskStates]]
      /\ srv' \in [Runs -> [Venues -> SrvStates]]
      /\ drv' \in [Runs -> {"none", "running", "finishing", "over"}]
      /\ drv'[r] = "over" /\ \A q \in Runs \ {r} : drv'[q] = drv[q]
  BY DEF LoopOver, AskInv, AskStates, SrvStates
<1>2. \A v \in Venues :
        /\ ask'[r][v] = IF ask[r][v] \in VenueStates THEN ask[r][v] ELSE "none"
        /\ srv'[r][v] = IF srv[r][v] \in {"sent", "polling"} THEN srv[r][v] ELSE "none"
  BY DEF LoopOver, AskInv
<1>3. \A q \in Runs \ {r}, v \in Venues : ask'[q][v] = ask[q][v] /\ srv'[q][v] = srv[q][v]
  BY DEF LoopOver, AskInv
<1>4. \A v \in Venues : Quietly(r, v)' /\ Told(r, v)' \subseteq Told(r, v)
  BY <1>1, <1>2 DEF AskInv, Quietly, Told, VenueStates
<1>5. \A q \in Runs \ {r}, v \in Venues : Quietly(q, v)' /\ Told(q, v)' \subseteq Told(q, v)
  BY <1>1, <1>3 DEF AskInv, Quietly, Told
<1> QED BY <1>1, <1>4, <1>5 DEF AskInv

\* One slot changes, to a state that keeps it quiet.
LEMMA SlotStep ==
    ASSUME AskInv, NEW r \in Runs, NEW v \in Venues, NEW a \in AskStates, NEW s \in SrvStates,
           ask' = Set2(ask, r, v, a), srv' = Set2(srv, r, v, s),
           drv' = drv, a # "none" => drv[r] # "none",
           a \in VenueStates => s = "none", s \in VenueStates => a = "waiting"
    PROVE  /\ AskInv'
           /\ Told(r, v)' = {a, s} \cap VenueStates
           /\ \A q \in Runs, w \in Venues : <<q, w>> # <<r, v>> => Told(q, w)' = Told(q, w)
<1>1. /\ ask' \in [Runs -> [Venues -> AskStates]] /\ srv' \in [Runs -> [Venues -> SrvStates]]
      /\ ask'[r][v] = a /\ srv'[r][v] = s
      /\ \A q \in Runs, w \in Venues : <<q, w>> # <<r, v>> =>
            ask'[q][w] = ask[q][w] /\ srv'[q][w] = srv[q][w]
  <2>1. ask \in [Runs -> [Venues -> AskStates]] /\ srv \in [Runs -> [Venues -> SrvStates]]
    BY DEF AskInv
  <2> DEFINE asked == Set2(ask, r, v, a)
             served == Set2(srv, r, v, s)
  <2>2. /\ asked \in [Runs -> [Venues -> AskStates]] /\ asked[r][v] = a
        /\ \A q \in Runs, w \in Venues : ~(q = r /\ w = v) => asked[q][w] = ask[q][w]
    BY <2>1 DEF Set2
  <2>3. /\ served \in [Runs -> [Venues -> SrvStates]] /\ served[r][v] = s
        /\ \A q \in Runs, w \in Venues : ~(q = r /\ w = v) => served[q][w] = srv[q][w]
    BY <2>1 DEF Set2
  <2>4. ask' = asked /\ srv' = served
    OBVIOUS
  <2> HIDE DEF asked, served
  <2> QED BY <2>2, <2>3, <2>4
<1>2. Quietly(r, v)'
  BY <1>1 DEF Quietly
<1>3. \A q \in Runs, w \in Venues : <<q, w>> # <<r, v>> => Quietly(q, w)'
  BY <1>1 DEF Quietly, AskInv
<1> QED BY <1>1, <1>2, <1>3 DEF AskInv, Told

\* Nothing but an outcome that was saved is told, and to nobody who was told
\* before.
NothingNew == \A r \in Runs, v \in Venues : Told(r, v)' \subseteq Told(r, v)
OneTold(r, v, x) ==
    /\ Told(r, v) = {} /\ Told(r, v)' \subseteq {x}
    /\ \A q \in Runs, w \in Venues : <<q, w>> # <<r, v>> => Told(q, w)' \subseteq Told(q, w)

LEMMA LoopStep ==
    ASSUME AskInv, NEW r \in Runs,
           Loop(r) \/ FinishLost(r) \/ Age(r) \/ (\E saved \in BOOLEAN : FinishRun(r, saved))
    PROVE  AskInv' /\ NothingNew
<1> USE DEF NothingNew
<1>0. /\ \A v \in Venues : ask[r][v] \in AskStates /\ srv[r][v] \in SrvStates /\ Quietly(r, v)
      /\ ask = [q \in Runs |-> ask[q]]
  BY DEF AskInv
<1>1. ASSUME NEW v \in Venues, Take(r, v) PROVE AskInv' /\ NothingNew
  <2>1. ask' = Set2(ask, r, v, "waiting") /\ srv' = Set2(srv, r, v, "sent") /\ drv' = drv
    BY <1>1 DEF Take
  <2>2. drv[r] # "none" /\ "waiting" \in AskStates /\ "sent" \in SrvStates
        /\ {"waiting", "sent"} \cap VenueStates = {}
    BY <1>1 DEF Take, AskStates, SrvStates, VenueStates
  <2> QED BY <2>1, <2>2, SlotStep
<1>2. ASSUME NEW v \in Venues, Answer(r, v) PROVE AskInv' /\ NothingNew
  <2> DEFINE a == IF srv[r][v] \in VenueStates THEN srv[r][v] ELSE "unrecorded"
  <2>1. ask' = Set2(ask, r, v, a) /\ srv' = Set2(srv, r, v, "none") /\ drv' = drv
    BY <1>2 DEF Answer
  <2>2. /\ drv[r] # "none" /\ a \in AskStates /\ "none" \in SrvStates
        /\ {a, "none"} \cap VenueStates \subseteq Told(r, v)
        /\ "none" \notin VenueStates
    BY <1>2 DEF Answer, AskStates, SrvStates, VenueStates, Told
  <2> HIDE DEF a
  <2> QED BY <2>1, <2>2, SlotStep
<1>3. ASSUME NEW v \in Venues, NEW lost \in BOOLEAN, NoAnswer(r, v, lost)
      PROVE  AskInv' /\ NothingNew
  <2> DEFINE s == IF lost \/ srv[r][v] \notin {"sent", "polling"} THEN "none" ELSE srv[r][v]
  <2>1. ask' = Set2(ask, r, v, "unrecorded") /\ srv' = Set2(srv, r, v, s) /\ drv' = drv
    BY <1>3 DEF NoAnswer
  <2>2. /\ drv[r] # "none" /\ "unrecorded" \in AskStates /\ s \in SrvStates
        /\ {"unrecorded", s} \cap VenueStates = {}
    BY <1>3 DEF NoAnswer, AskStates, SrvStates, VenueStates
  <2> HIDE DEF s
  <2> QED BY <2>1, <2>2, SlotStep
<1>4. CASE Stop(r) \/ Age(r)
  BY <1>4 DEF Stop, Age, dialog, AskInv, Quietly, Told
<1>5. CASE WorkersDone(r)
  <2>1. /\ drv' \in [Runs -> {"none", "running", "finishing", "over"}]
        /\ \A q \in Runs : drv[q] # "none" => drv'[q] # "none"
    BY <1>5 DEF WorkersDone, AskInv
  <2> QED BY <1>5, <2>1 DEF WorkersDone, AskInv, Quietly, Told
<1>6. CASE TabGone(r) \/ FinishLost(r) \/ \E saved \in BOOLEAN : FinishRun(r, saved)
  BY <1>6, OverStep DEF TabGone, FinishLost, FinishRun
<1> QED BY <1>1, <1>2, <1>3, <1>4, <1>5, <1>6 DEF Loop

LEMMA ServeStep ==
    ASSUME AskInv, NEW r \in Runs, NEW v \in Venues
    PROVE  /\ \A ended \in BOOLEAN : Arrive(r, v, ended) => AskInv' /\ NothingNew
           /\ RunGone(r, v) => AskInv' /\ NothingNew
           /\ \A status \in Outcomes, saved \in BOOLEAN :
                Record(r, v, status, saved) =>
                   /\ AskInv' /\ OneTold(r, v, status)
                   /\ saved \/ NothingNew
<1>0. /\ ask[r][v] \in AskStates /\ srv[r][v] \in SrvStates /\ Quietly(r, v)
      /\ Set2(ask, r, v, ask[r][v]) = ask
  BY DEF AskInv, Set2
<1>1. ASSUME srv[r][v] \in {"sent", "polling"}
      PROVE  /\ ask[r][v] \notin VenueStates /\ Told(r, v) = {}
             /\ ask[r][v] # "none" => drv[r] # "none"
  BY <1>0, <1>1 DEF Quietly, Told, VenueStates
<1>2. ASSUME NEW s \in SrvStates, srv[r][v] \in {"sent", "polling"},
             s \in VenueStates => ask[r][v] = "waiting",
             srv' = Set2(srv, r, v, s), UNCHANGED dialog
      PROVE  /\ AskInv' /\ Told(r, v)' = {s} \cap VenueStates
             /\ \A q \in Runs, w \in Venues : <<q, w>> # <<r, v>> => Told(q, w)' = Told(q, w)
  <2>1. ask' = Set2(ask, r, v, ask[r][v]) /\ drv' = drv
    BY <1>0, <1>2 DEF dialog
  <2> QED BY <1>0, <1>1, <1>2, <2>1, SlotStep
<1>3. \A x : Reply(r, v, x) \in {x, "none"} /\ (Reply(r, v, x) = x => x = "none" \/ ask[r][v] = "waiting")
  BY DEF Reply
<1>4. ASSUME NEW ended \in BOOLEAN, Arrive(r, v, ended) PROVE AskInv' /\ NothingNew
  <2>1. PICK s : /\ srv' = Set2(srv, r, v, s) /\ UNCHANGED dialog
                 /\ s = "polling" \/ s = Reply(r, v, Refusal(r, ended))
    BY <1>4 DEF Arrive
  <2>2. Refusal(r, ended) \in {"halt", "error", "none"}
    BY DEF Refusal
  <2>3. s \in {"polling", "halt", "error", "none"}
    BY <1>3, <2>1, <2>2
  <2>4. s \in SrvStates /\ s \notin VenueStates
    BY <2>3 DEF SrvStates, VenueStates
  <2> QED BY <1>2, <1>4, <2>1, <2>4 DEF Arrive, NothingNew
<1>5. ASSUME RunGone(r, v) PROVE AskInv' /\ NothingNew
  <2>1. Reply(r, v, "error") \in SrvStates /\ Reply(r, v, "error") \notin VenueStates
    BY DEF Reply, SrvStates, VenueStates
  <2> QED BY <1>2, <1>5, <2>1 DEF RunGone, NothingNew
<1>6. ASSUME NEW status \in Outcomes, NEW saved \in BOOLEAN, Record(r, v, status, saved)
      PROVE  AskInv' /\ OneTold(r, v, status) /\ (saved \/ NothingNew)
  <2> DEFINE x == IF saved THEN status ELSE "error"
             s == Reply(r, v, x)
  <2>1. status \in VenueStates
    BY BatchAssumption
  <2>2. s \in SrvStates /\ (s \in VenueStates => ask[r][v] = "waiting" /\ s = status /\ saved)
    BY <2>1 DEF Reply, SrvStates, VenueStates
  <2>3. srv[r][v] = "polling" /\ srv' = Set2(srv, r, v, s) /\ UNCHANGED dialog
    BY <1>6 DEF Record
  <2> HIDE DEF s
  <2>4. /\ AskInv' /\ Told(r, v)' = {s} \cap VenueStates /\ Told(r, v) = {}
        /\ \A q \in Runs, w \in Venues : <<q, w>> # <<r, v>> => Told(q, w)' = Told(q, w)
    BY <1>1, <1>2, <2>2, <2>3
  <2> QED BY <2>2, <2>4 DEF OneTold, NothingNew
<1> QED BY <1>4, <1>5, <1>6

\* A change of the record that keeps what it says of a venue keeps it true,
\* saved or not: what is written is the record the change was made to.
LEMMA SavedHolds ==
    ASSUME NEW book, NEW saved, Save(book, saved),
           NEW r \in Runs, NEW v \in Venues, NEW x,
           Holds(disk, r, v, x), ~broken => Holds(book, r, v, x)
    PROVE  Holds(disk', r, v, x) /\ (~broken' => Holds(mem', r, v, x))
<1>1. mem' = book /\ broken' = broken /\ (disk' = disk \/ (~broken /\ disk' = book))
  BY DEF Save
<1> QED BY <1>1

LEMMA ToldStep ==
    BooksInv /\ AskInv /\ ToldInv /\ [Next]_vars => AskInv' /\ ToldInv'
<1> SUFFICES ASSUME BooksInv, AskInv, ToldInv, [Next]_vars PROVE AskInv' /\ ToldInv'
  OBVIOUS
<1> DEFINE Says(r, v, x) == Holds(disk, r, v, x) /\ (~broken => Holds(mem, r, v, x))
<1>0. mem \in Book /\ \A v \in Venues : Trusted(mem.venues[v])
  BY DEF BooksInv
<1>1. \A r \in Runs, v \in Venues : \A x \in Told(r, v) : Says(r, v, x)
  BY DEF ToldInv
<1>2. ASSUME NothingNew,
             \A r \in Runs, v \in Venues : \A x \in Told(r, v) : Says(r, v, x)'
      PROVE  ToldInv'
  BY <1>2 DEF NothingNew, ToldInv
<1>3. ASSUME UNCHANGED store, NothingNew PROVE ToldInv'
  <2>1. \A r \in Runs, v \in Venues : \A x \in Told(r, v) : Says(r, v, x)'
    BY <1>1, <1>3 DEF store
  <2> QED BY <1>2, <1>3, <2>1
<1>4. ASSUME NEW r \in Runs, NEW listed \in Listings, NEW saved \in BOOLEAN,
             NEW told \in BOOLEAN, NEW planned \in SUBSET listed,
             StartRun(r, planned, listed, saved, told)
      PROVE  AskInv' /\ ToldInv'
  <2>1. drv[r] = "none" /\ Save(Started(mem, r, planned, listed), saved) /\ srv' = srv
        /\ drv' = [drv EXCEPT ![r] = IF told THEN "running" ELSE "over"]
        /\ ask' = [ask EXCEPT ![r] =
              [v \in Venues |-> IF told /\ v \in planned THEN "todo" ELSE "none"]]
    BY <1>4 DEF StartRun
  <2>2. /\ ask' \in [Runs -> [Venues -> AskStates]]
        /\ drv' \in [Runs -> {"none", "running", "finishing", "over"}]
        /\ drv'[r] # "none" /\ \A v \in Venues : ask'[r][v] \in {"todo", "none"}
        /\ \A q \in Runs \ {r} : ask'[q] = ask[q] /\ drv'[q] = drv[q]
    BY <2>1 DEF AskInv, AskStates
  <2>3. \A v \in Venues : srv[r][v] \notin VenueStates /\ ask[r][v] = "none"
    BY <2>1 DEF AskInv, Quietly
  <2>4. \A v \in Venues : Quietly(r, v)' /\ Told(r, v)' = {}
    BY <2>1, <2>2, <2>3 DEF Quietly, Told, VenueStates
  <2>5. \A q \in Runs \ {r}, v \in Venues : Quietly(q, v)' /\ Told(q, v)' = Told(q, v)
    BY <2>1, <2>2 DEF AskInv, Quietly, Told
  <2>6. AskInv'
    BY <2>1, <2>2, <2>4, <2>5 DEF AskInv
  <2>7. listed \in SUBSET Venues /\ planned \in SUBSET Venues
    BY BatchAssumption
  <2>8. \A q \in Runs \ {r}, v \in Venues : \A x :
           Holds(mem, q, v, x) => Holds(Started(mem, r, planned, listed), q, v, x)
    BY <1>0, <2>7, StartedBook
  <2>9. \A q \in Runs \ {r}, v \in Venues : \A x \in Told(q, v) : Says(q, v, x)'
    BY <1>1, <2>1, <2>8, SavedHolds
  <2>10. ToldInv'
    BY <2>4, <2>5, <2>9 DEF ToldInv
  <2> QED BY <2>6, <2>10
<1>5. ASSUME NEW r \in Runs, NEW v \in Venues, NEW status \in Outcomes, NEW saved \in BOOLEAN,
             Record(r, v, status, saved)
      PROVE  AskInv' /\ ToldInv'
  <2> DEFINE book == Recorded(mem, r, v, status)
  <2>1. r \in Kept(mem) /\ Save(book, saved)
    BY <1>5 DEF Record
  <2>2. AskInv' /\ OneTold(r, v, status) /\ (saved \/ NothingNew)
    BY <1>5, ServeStep
  <2>3. /\ Holds(book, r, v, status)
        /\ \A q \in Runs, w \in Venues : \A x :
              <<q, w>> # <<r, v>> /\ Holds(mem, q, w, x) => Holds(book, q, w, x)
    BY <1>0, <2>1, RecordedBook, BatchAssumption
  <2> HIDE DEF book
  <2>4. \A q \in Runs, w \in Venues : <<q, w>> # <<r, v>> =>
           \A x \in Told(q, w) : Says(q, w, x)'
    BY <1>1, <2>1, <2>3, SavedHolds
  <2>5. saved => Says(r, v, status)'
    BY <2>1, <2>3 DEF Save
  <2>6. \A x \in Told(r, v)' : x = status /\ saved
    BY <2>2 DEF OneTold, NothingNew
  <2>7. ToldInv'
    BY <2>2, <2>4, <2>5, <2>6 DEF OneTold, ToldInv
  <2> QED BY <2>2, <2>7
<1>6. ASSUME NEW r \in Runs, NEW saved \in BOOLEAN, FinishRun(r, saved)
      PROVE  AskInv' /\ ToldInv'
  <2>1. AskInv' /\ NothingNew
    BY <1>6, LoopStep
  <2>2. CASE UNCHANGED store
    BY <1>3, <2>1, <2>2
  <2>3. CASE Save(Finished(mem, r, stopRef[r] \/ halted[r]), saved)
    <3>1. (stopRef[r] \/ halted[r]) \in BOOLEAN
      OBVIOUS
    <3>2. \A q \in Runs, v \in Venues : \A x :
             Holds(mem, q, v, x) => Holds(Finished(mem, r, stopRef[r] \/ halted[r]), q, v, x)
      BY <1>0, <3>1, FinishedBook
    <3>3. \A q \in Runs, v \in Venues : \A x \in Told(q, v) : Says(q, v, x)'
      BY <1>1, <2>3, <3>2, SavedHolds
    <3> QED BY <1>2, <2>1, <3>3
  <2> QED BY <1>6, <2>2, <2>3 DEF FinishRun
<1>7. ASSUME NEW readable \in BOOLEAN, Restart(readable) PROVE AskInv' /\ ToldInv'
  <2>1. /\ srv' \in [Runs -> [Venues -> SrvStates]] /\ ask' = ask /\ drv' = drv
        /\ \A r \in Runs, v \in Venues :
              srv'[r][v] = IF srv[r][v] = "polling" THEN "none" ELSE srv[r][v]
    BY <1>7 DEF Restart, dialog, AskInv, SrvStates
  <2>2. \A r \in Runs, v \in Venues : Quietly(r, v)' /\ Told(r, v)' \subseteq Told(r, v)
    BY <2>1 DEF AskInv, Quietly, Told, VenueStates
  <2>3. \A r \in Runs, v \in Venues : \A x \in Told(r, v) : Says(r, v, x)'
    BY <1>1, <1>7 DEF Restart
  <2>4. AskInv'
    BY <2>1, <2>2 DEF AskInv
  <2> QED BY <1>2, <2>2, <2>3, <2>4 DEF NothingNew
<1>8. ASSUME NEW r \in Runs, Loop(r) \/ FinishLost(r) \/ Age(r) PROVE AskInv' /\ ToldInv'
  <2>1. AskInv' /\ NothingNew
    BY <1>8, LoopStep
  <2>2. UNCHANGED store
    BY <1>8 DEF Loop, Take, Answer, NoAnswer, Stop, TabGone, WorkersDone, FinishLost, Age
  <2> QED BY <1>3, <2>1, <2>2
<1>9. ASSUME NEW r \in Runs, NEW v \in Venues,
             RunGone(r, v) \/ \E ended \in BOOLEAN : Arrive(r, v, ended)
      PROVE  AskInv' /\ ToldInv'
  <2>1. AskInv' /\ NothingNew
    BY <1>9, ServeStep
  <2>2. UNCHANGED store
    BY <1>9 DEF RunGone, Arrive
  <2> QED BY <1>3, <2>1, <2>2
<1>10. CASE UNCHANGED vars
  BY <1>10 DEF vars, store, dialog, AskInv, Quietly, ToldInv, Told
<1> QED BY <1>4, <1>5, <1>6, <1>7, <1>8, <1>9, <1>10 DEF Next, Serve

\* What the server told the loop of a venue is in the file from then on, for as
\* long as the run is among the newest: no restart, failed save or later run
\* takes it back (batch_router.check_venue answers after batch_runs._save).
THEOREM ToldIsKept == Spec => []ToldMeansKept
<1>1. Init => BooksInv /\ AskInv /\ ToldInv
  <2>1. Init => AskInv /\ ToldInv
    BY DEF Init, AskInv, AskStates, SrvStates, Quietly, ToldInv, Told, VenueStates
  <2> QED BY <2>1, BooksInit
<1>2. BooksInv /\ AskInv /\ ToldInv /\ [Next]_vars => BooksInv' /\ AskInv' /\ ToldInv'
  BY BooksStep, ToldStep
<1>3. ToldInv => ToldMeansKept
  BY DEF ToldInv, Told, ToldMeansKept, Holds, VenueStates
<1> QED BY <1>1, <1>2, <1>3, PTL DEF Spec
===========================================================================
