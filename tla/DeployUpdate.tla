--------------------------- MODULE DeployUpdate ---------------------------
(* deploy/prism-update.sh: the pull-based deploy.  A run takes a flock on a *)
(* lock file that also names its holder, compares the repository on the    *)
(* box with its origin and with the build label of the container, and when *)
(* they differ rebuilds the container, asks /healthz, and rolls back.      *)
(* Runs are started by a timer and by hand.                                *)
EXTENDS Integers, FiniteSets

CONSTANTS
    Timer, Runs,       \* processes that run the script; Timer is the unit
    Commits, Good,     \* commits of the branch; those that come up healthy
    Builds,            \* those that build at all
    NoLabel,           \* the label of an image built before there was one
    Files, NoFile,     \* inodes the lock file's path may name, and none
    Nobody,            \* no live run: a pid that is gone, or no pid
    AllowDirty,        \* PRISM_UPDATE_ALLOW_DIRTY
    AllowUnhealthy,    \* PRISM_ALLOW_UNHEALTHY_START
    Orphans,           \* may a script be killed without the build it started?
    MaxTrouble,        \* bound: kills, reboots, leaked locks, failed fetches
    MaxHand            \* bound: what people do: pushes, pulls, edits, runs

ASSUME DeployAssumption ==
    /\ Timer \in Runs /\ Nobody \notin Runs /\ IsFiniteSet(Runs)
    /\ Good \subseteq Builds /\ Builds \subseteq Commits /\ NoLabel \notin Commits
    /\ NoFile \notin Files /\ Cardinality(Files) > Cardinality(Runs) + MaxTrouble
    /\ {AllowDirty, AllowUnhealthy, Orphans} \subseteq BOOLEAN
    /\ {MaxTrouble, MaxHand} \subseteq Nat

VARIABLES
    origin,   \* the branch at the remote
    head,     \* the repository on the box
    dirty,    \* its tree has local modifications
    box,      \* the container: the commit it was built from, and its label
    orphans,  \* builds whose script is gone
    path,     \* the inode the lock file's path names
    pid,      \* per inode: the run whose pid it holds
    leaked,   \* inodes locked by a process that inherited the descriptor
    pc, fd, locked,      \* per run: where it is, fd 9, does it hold the lock
    mine,     \* per run: $current, $target and $running
    met,      \* history, per run: what went on beside it that it cannot see
    trouble, hand        \* bounds
repo == <<origin, head, dirty>>
lock == <<path, pid, leaked, fd, locked>>
vars == <<repo, box, orphans, lock, pc, mine, met, trouble, hand>>

Locals == [current: Commits, target: Commits, running: Commits \cup {NoLabel}]
Nothing == CHOOSE l \in Locals : TRUE      \* not read before it is set

Locking == {"opened", "held", "stale", "removed", "reopened", "locked"}
Changing == {"reset", "up", "health", "rollback", "upBack", "healthBack"}
Working == {"look", "preflight"} \cup Changing
Healthy == box.code \in Good               \* curl $HEALTH_URL
PastLook(p) == pc[p] \in Working \ {"look"}

\* What a run may meet: another that takes the lock while it does, another at
\* work while it is, a person who edits or pulls the tree after its look at it,
\* a build that a killed run left over.
Meetings == {"locker", "worker", "person", "build"}
Meets(ps, m) == met' = [p \in Runs |-> IF p \in ps THEN met[p] \cup {m} ELSE met[p]]
\* The other runs that are among these places, with p itself, if there are any
Beside(p, places) ==
    LET others == {q \in Runs \ {p} : pc[q] \in places} IN
    IF others = {} THEN {} ELSE others \cup {p}

Init ==
    /\ origin \in Good /\ head = origin /\ dirty = FALSE
    /\ \E l \in {origin, NoLabel} : box = [code |-> origin, label |-> l]
    /\ orphans = {}
    /\ path = NoFile /\ pid = [f \in Files |-> Nobody] /\ leaked = {}
    /\ pc = [p \in Runs |-> "idle"]
    /\ fd = [p \in Runs |-> NoFile] /\ locked = [p \in Runs |-> FALSE]
    /\ mine = [p \in Runs |-> Nothing] /\ met = [p \in Runs |-> {}]
    /\ trouble = 0 /\ hand = 0

Troubled == trouble < MaxTrouble /\ trouble' = trouble + 1
ByHand == hand < MaxHand /\ hand' = hand + 1
Goto(p, l) == pc' = [pc EXCEPT ![p] = l]

---------------------------------------------------------------------------
\* What a process leaves when it is gone: fd 9 closed, and with it its lock;
\* a pid in a file that is no live run's; the shell's variables.
Gone(p) ==
    /\ Goto(p, "idle")
    /\ fd' = [fd EXCEPT ![p] = NoFile] /\ locked' = [locked EXCEPT ![p] = FALSE]
    /\ pid' = [f \in Files |-> IF pid[f] = p THEN Nobody ELSE pid[f]]
    /\ mine' = [mine EXCEPT ![p] = Nothing] /\ met' = [met EXCEPT ![p] = {}]
    /\ UNCHANGED <<path, leaked>>
Exit(p) == Gone(p) /\ UNCHANGED <<repo, box, orphans, trouble, hand>>

Unused == Files \ (leaked \cup {path} \cup {fd[q] : q \in Runs})
NewFile == CHOOSE f \in Unused : TRUE
Free(f) == f \notin leaked /\ \A q \in Runs : ~(locked[q] /\ fd[q] = f)

\* exec 9<>"$LOCK_FILE": creates the file if there is none, leaves what it holds
MutOpen(p) ==
    LET f == IF path = NoFile THEN NewFile ELSE path IN
    /\ path' = f /\ fd' = [fd EXCEPT ![p] = f]
    /\ pid' = [pid EXCEPT ![f] = Nobody]
Open(p) ==
    LET f == IF path = NoFile THEN NewFile ELSE path IN
    /\ path' = f /\ fd' = [fd EXCEPT ![p] = f]
    /\ pid' = IF path = NoFile THEN [pid EXCEPT ![f] = Nobody] ELSE pid

Start(p) ==
    /\ pc[p] = "idle"
    /\ IF p = Timer THEN UNCHANGED hand ELSE ByHand
    /\ Open(p) /\ Goto(p, "opened") /\ Meets(Beside(p, Locking), "locker")
    /\ UNCHANGED <<repo, box, orphans, leaked, locked, mine, trouble>>

\* flock -n 9
Flock(p) ==
    /\ pc[p] = "opened"
    /\ locked' = [locked EXCEPT ![p] = Free(fd[p])]
    /\ Goto(p, IF Free(fd[p]) THEN "locked" ELSE "held")
    /\ UNCHANGED <<repo, box, orphans, path, pid, leaked, fd, mine, met, trouble, hand>>

\* _holder_is_live_deploy reads whatever the path names now
HolderLive == path # NoFile /\ pid[path] # Nobody
LeaveAlone(p) == pc[p] = "held" /\ HolderLive /\ Exit(p)
CallStale(p) ==
    /\ pc[p] = "held" /\ ~HolderLive
    /\ Goto(p, "stale")
    /\ UNCHANGED <<repo, box, orphans, lock, mine, met, trouble, hand>>

\* rm -f, then open again
Remove(p) ==
    /\ pc[p] = "stale"
    /\ path' = NoFile
    /\ Goto(p, "removed")
    /\ UNCHANGED <<repo, box, orphans, pid, leaked, fd, locked, mine, met, trouble, hand>>
Reopen(p) ==
    /\ pc[p] = "removed"
    /\ Open(p) /\ Goto(p, "reopened")
    /\ UNCHANGED <<repo, box, orphans, leaked, locked, mine, met, trouble, hand>>
FlockAgain(p) ==
    /\ pc[p] = "reopened"
    /\ IF Free(fd[p])
       THEN /\ locked' = [locked EXCEPT ![p] = TRUE]
            /\ Goto(p, "locked")
            /\ UNCHANGED <<repo, box, orphans, path, pid, leaked, fd, mine, met, trouble, hand>>
       ELSE Exit(p)

\* printf '%s' "$$" > "$LOCK_FILE"
WritePid(p) ==
    LET f == IF path = NoFile THEN NewFile ELSE path IN
    /\ pc[p] = "locked"
    /\ path' = f /\ pid' = [pid EXCEPT ![f] = p]
    /\ Goto(p, "look") /\ Meets(Beside(p, Working), "worker")
    /\ UNCHANGED <<repo, box, orphans, leaked, fd, locked, mine, trouble, hand>>

---------------------------------------------------------------------------
MutNothingToDo(l) == l.current = l.target
NothingToDo(l) ==
    l.current = l.target /\ (l.running = NoLabel \/ l.running = l.target)

\* git fetch, git rev-parse twice, the label of the container
Seen == [current |-> head, target |-> origin, running |-> box.label]

MutLook(p) ==
    /\ pc[p] = "look"
    /\ LET l == Seen IN
       IF NothingToDo(l)
       THEN Exit(p)
       ELSE /\ mine' = [mine EXCEPT ![p] = l]
            /\ Goto(p, "preflight") /\ Meets(IF orphans = {} THEN {} ELSE {p}, "build")
            /\ UNCHANGED <<repo, box, orphans, lock, trouble, hand>>
\* A dirty tree stops the run, and so does a container that is what it should be.
Look(p) ==
    /\ pc[p] = "look"
    /\ LET l == Seen IN
       IF (dirty /\ ~AllowDirty) \/ NothingToDo(l)
       THEN Exit(p)
       ELSE /\ mine' = [mine EXCEPT ![p] = l]
            /\ Goto(p, "preflight") /\ Meets(IF orphans = {} THEN {} ELSE {p}, "build")
            /\ UNCHANGED <<repo, box, orphans, lock, trouble, hand>>
FetchFails(p) ==
    /\ pc[p] = "look" /\ (dirty => AllowDirty)
    /\ Troubled /\ Gone(p)
    /\ UNCHANGED <<repo, box, orphans, hand>>

\* A deploy whose success cannot be measured does not start.
Preflight(p) ==
    /\ pc[p] = "preflight"
    /\ IF Healthy \/ AllowUnhealthy
       THEN Goto(p, "reset") /\ UNCHANGED <<repo, box, orphans, lock, mine, met, trouble, hand>>
       ELSE Exit(p)

\* git reset --hard, to the target and, in a rollback, back
Reset(p) ==
    /\ pc[p] \in {"reset", "rollback"}
    /\ head' = IF pc[p] = "reset" THEN mine[p].target ELSE mine[p].current
    /\ dirty' = FALSE
    /\ Goto(p, IF pc[p] = "reset" THEN "up" ELSE "upBack")
    /\ UNCHANGED <<origin, box, orphans, lock, mine, met, trouble, hand>>

\* deploy(): compose builds what the tree holds and stamps it with the commit
\* the script names.  Something may inherit fd 9 on the way.
Wanted(p) == IF pc[p] = "up" THEN mine[p].target ELSE mine[p].current
Leak(p) == leaked' = leaked \cup {fd[p]} /\ Troubled
Up(p) ==
    /\ pc[p] \in {"up", "upBack"} /\ head \in Builds
    /\ box' = [code |-> head, label |-> Wanted(p)]
    /\ Goto(p, IF pc[p] = "up" THEN "health" ELSE "healthBack")
    /\ Leak(p) \/ UNCHANGED <<leaked, trouble>>
    /\ UNCHANGED <<repo, orphans, path, pid, fd, locked, mine, met, hand>>
UpFails(p) ==
    /\ pc[p] \in {"up", "upBack"} /\ head \notin Builds
    /\ IF pc[p] = "up"
       THEN Goto(p, "rollback") /\ UNCHANGED <<repo, box, orphans, lock, mine, met, trouble, hand>>
       ELSE Exit(p)

\* healthy(), for up to $HEALTH_TIMEOUT
MutHealth(p) == pc[p] \in {"health", "healthBack"} /\ Exit(p)
Health(p) ==
    /\ pc[p] \in {"health", "healthBack"}
    /\ IF Healthy \/ pc[p] = "healthBack"
       THEN Exit(p)
       ELSE Goto(p, "rollback") /\ UNCHANGED <<repo, box, orphans, lock, mine, met, trouble, hand>>

---------------------------------------------------------------------------
\* The script is killed with everything it started, or (TimeoutStartSec under
\* KillMode=process) alone, and the build goes on.
Killed(p) ==
    /\ pc[p] # "idle"
    /\ Troubled /\ Gone(p)
    /\ \/ UNCHANGED orphans
       \/ /\ Orphans /\ pc[p] \in {"up", "upBack"} /\ head \in Builds
          /\ orphans' = orphans \cup {[code |-> head, label |-> Wanted(p)]}
    /\ UNCHANGED <<repo, box, hand>>
OrphanUp(image) ==
    /\ box' = image /\ orphans' = orphans \ {image}
    /\ UNCHANGED <<repo, lock, pc, mine, met, trouble, hand>>

\* The lock file is on a tmpfs; the container comes back as it was.
Reboot ==
    /\ Troubled
    /\ path' = NoFile /\ leaked' = {} /\ pid' = [f \in Files |-> Nobody]
    /\ pc' = [p \in Runs |-> "idle"] /\ orphans' = {}
    /\ fd' = [p \in Runs |-> NoFile] /\ locked' = [p \in Runs |-> FALSE]
    /\ mine' = [p \in Runs |-> Nothing] /\ met' = [p \in Runs |-> {}]
    /\ UNCHANGED <<repo, box, hand>>

\* Whatever inherited the descriptor exits.
Unleak(f) ==
    /\ leaked' = leaked \ {f}
    /\ UNCHANGED <<repo, box, orphans, path, pid, fd, locked, pc, mine, met, trouble, hand>>

Others == UNCHANGED <<box, orphans, lock, pc, mine, trouble>>
Unseen == Meets({p \in Runs : PastLook(p)}, "person")
Push(c) == ByHand /\ origin # c /\ origin' = c /\ UNCHANGED <<head, dirty, met>> /\ Others
Pull ==
    /\ ByHand /\ ~dirty
    /\ head' = origin /\ Unseen /\ UNCHANGED <<origin, dirty>> /\ Others
Edit ==
    /\ ByHand
    /\ dirty' = TRUE /\ Unseen /\ UNCHANGED <<origin, head>> /\ Others
Tidy == ByHand /\ dirty /\ dirty' = FALSE /\ UNCHANGED <<origin, head, met>> /\ Others
Person == Pull \/ Edit \/ Tidy \/ \E c \in Commits : Push(c)

TakeLock(p) ==
    Flock(p) \/ LeaveAlone(p) \/ CallStale(p) \/ Remove(p) \/ Reopen(p) \/ FlockAgain(p) \/ WritePid(p)
Deploy(p) == Look(p) \/ Preflight(p) \/ Reset(p) \/ Up(p) \/ UpFails(p) \/ Health(p)

Next ==
    \/ \E p \in Runs : Start(p) \/ TakeLock(p) \/ Deploy(p) \/ FetchFails(p) \/ Killed(p)
    \/ Reboot \/ Person
    \/ \E image \in orphans : OrphanUp(image)
    \/ \E f \in leaked : Unleak(f)

Spec == Init /\ [][Next]_vars

\* The timer fires every five minutes, and a script that is not killed goes on:
\* each of its commands has a time limit of its own.
Fairness == WF_vars(Start(Timer)) /\ \A p \in Runs : WF_vars(TakeLock(p) \/ Deploy(p))
FairSpec == Spec /\ Fairness

---------------------------------------------------------------------------

\* "One at a time": two runs are at work together only if one of them met
\* another while it took the lock, that is between opening the lock file and
\* writing its pid; whatever was killed or leaked its lock before.
OneDeployAtATime ==
    \A p, q \in Runs :
        p # q /\ {pc[p], pc[q]} \subseteq Working => "locker" \in met[p] \cup met[q]

\* "It will not clobber local edits": only a person makes a dirty tree clean, or
\* the reset of a run that had looked at the tree before the person edited it.
EditsKept ==
    [][dirty /\ ~dirty' =>
         \/ pc' = pc
         \/ \E p \in Runs : PastLook(p) /\ "person" \in met[p] /\ pc'[p] # pc[p]]_vars

EndsByItself(p) == pc[p] \in Changing /\ pc'[p] = "idle" /\ trouble' = trouble

\* "A bad commit rolls back": a run that found the repository on a healthy
\* commit and ends by itself leaves a healthy container, but for one beside
\* which another run, a person or a left-over build changed tree or container.
EndsServing ==
    [][\A p \in Runs :
         /\ EndsByItself(p) /\ mine[p].current \in Good
         /\ met[p] \subseteq {"locker"}
         => Healthy']_vars

\* "It notices a stale container": what is served is again and again the commit at
\* the origin, unless that is not a good one, the tree is dirty, the container was
\* left down, or it has no label.
Blocked ==
    \/ origin \notin Good \/ dirty \/ box.label = NoLabel
    \/ ~Healthy /\ \A p \in Runs : pc[p] \notin Changing
CatchesUp == []<>(box.code = origin \/ Blocked)
===========================================================================
