---------------------------- MODULE DeployProofs ----------------------------
(* The lock and the rollback of the deploy script, for any number of runs,  *)
(* commits, files and faults.                                               *)
EXTENDS DeployUpdate, FunctionTheorems, FiniteSetTheorems, TLAPS

Places == {"idle"} \cup Locking \cup Working

\* A run past its start has the lock file open; the leaks are as many as the
\* trouble they were, which is what leaves an inode for a new lock file.
Typed ==
    /\ pc \in [Runs -> Places]
    /\ fd \in [Runs -> Files \cup {NoFile}]
    /\ locked \in [Runs -> BOOLEAN]
    /\ path \in Files \cup {NoFile}
    /\ pid \in [Files -> Runs \cup {Nobody}]
    /\ mine = [p \in Runs |-> mine[p]]
    /\ met \in [Runs -> SUBSET Meetings]
    /\ \A p \in Runs : pc[p] # "idle" => fd[p] \in Files
Leaks ==
    /\ leaked \in SUBSET Files /\ IsFiniteSet(leaked)
    /\ trouble \in Nat /\ trouble <= MaxTrouble
    /\ Cardinality(leaked) <= trouble

\* A run that met nobody while it took the lock did so alone, on the file the
\* path names, and once at work it holds the lock of that file, which names it:
\* whoever opens it then finds it held, and its holder alive.
Alone(p) == "locker" \notin met[p]
LockInv ==
    /\ \A p, q \in Runs : Alone(p) /\ pc[p] \in Locking /\ pc[q] \in Locking => p = q
    /\ \A p \in Runs : Alone(p) /\ pc[p] \in {"opened", "reopened", "locked"} \cup Working =>
          fd[p] = path /\ path # NoFile
    /\ \A p \in Runs : Alone(p) /\ pc[p] \in {"locked"} \cup Working => locked[p]
    /\ \A p \in Runs : Alone(p) /\ pc[p] \in Working => pid[path] = p
    /\ \A p, q \in Runs : Alone(q) /\ pc[q] \in Working =>
          /\ pc[p] \notin {"stale", "removed", "reopened", "locked"}
          /\ pc[p] = "opened" => fd[p] = path

---------------------------------------------------------------------------
\* There is always an inode left for a new lock file.
LEMMA FilesLeft ==
    ASSUME Typed, Leaks, path = NoFile
    PROVE  NewFile \in Unused /\ NewFile \in Files
<1> DEFINE Opened == Range(fd)
<1>1. Opened = {fd[q] : q \in Runs}
  BY DEF Typed, Range
<1>2. fd \in Surjection(Runs, Opened)
  BY Fun_RangeProperties DEF Typed
<1>3. IsFiniteSet(Opened) /\ Cardinality(Opened) <= Cardinality(Runs)
  BY <1>2, FS_Surjection, DeployAssumption
<1>4. /\ Cardinality(Opened) \in Nat /\ Cardinality(leaked) \in Nat
      /\ Cardinality(leaked \cap Opened) \in Nat /\ Cardinality(Runs) \in Nat
  BY <1>3, FS_CardinalityType, FS_Intersection, DeployAssumption DEF Leaks
<1>5. /\ IsFiniteSet(leaked \cup Opened)
      /\ Cardinality(leaked \cup Opened) <= Cardinality(leaked) + Cardinality(Opened)
  <2>1. /\ IsFiniteSet(leaked \cup Opened)
        /\ Cardinality(leaked \cup Opened)
             = Cardinality(leaked) + Cardinality(Opened) - Cardinality(leaked \cap Opened)
    BY <1>3, FS_Union DEF Leaks
  <2> QED BY <1>4, <2>1
<1>6. Unused # {}
  <2> SUFFICES ASSUME Unused = {} PROVE FALSE
    OBVIOUS
  <2>1. Files \in SUBSET (leaked \cup Opened)
    BY <1>1, DeployAssumption DEF Unused
  <2>2. Cardinality(Files) <= Cardinality(leaked \cup Opened)
    BY <1>5, <2>1, FS_Subset
  <2>3. Cardinality(Files) \in Nat /\ Cardinality(leaked \cup Opened) \in Nat
    BY <1>5, <2>1, FS_Subset, FS_CardinalityType
  <2> HIDE DEF Opened
  <2> QED BY <1>3, <1>4, <1>5, <2>2, <2>3, DeployAssumption DEF Leaks
<1> QED BY <1>6 DEF NewFile, Unused

\* Opening the lock file, which is there afterwards.
LEMMA OpenFile ==
    ASSUME Typed, Leaks, NEW p \in Runs, Open(p)
    PROVE  /\ path' \in Files
           /\ fd' = [fd EXCEPT ![p] = path']
           /\ pid' \in [Files -> Runs \cup {Nobody}]
           /\ path # NoFile => path' = path /\ pid' = pid
<1>1. CASE path = NoFile
  BY <1>1, FilesLeft DEF Open, Typed
<1>2. CASE path # NoFile
  BY <1>2 DEF Open, Typed
<1> QED BY <1>1, <1>2

\* Who meets what.
LEMMA MetSome ==
    ASSUME Typed, NEW ps, NEW m \in Meetings, Meets(ps, m)
    PROVE  /\ met' \in [Runs -> SUBSET Meetings]
           /\ \A q \in Runs : met'[q] = IF q \in ps THEN met[q] \cup {m} ELSE met[q]
BY DEF Typed, Meets

LEMMA NotAlone ==
    ASSUME Typed, NEW ps, NEW m \in Meetings \ {"locker"}, Meets(ps, m)
    PROVE  \A q \in Runs : Alone(q)' = Alone(q)
<1>1. m \in Meetings
  OBVIOUS
<1>2. \A q \in Runs : met'[q] = IF q \in ps THEN met[q] \cup {m} ELSE met[q]
  BY <1>1, MetSome
<1>3. \A q \in Runs : "locker" \in met'[q] <=> "locker" \in met[q]
  BY <1>2
<1> QED BY <1>3 DEF Alone

\* The steps that move one run and let the lock be.
LEMMA Moved ==
    ASSUME Typed, LockInv, NEW p \in Runs, NEW l \in Working, pc[p] \in Working,
           Goto(p, l), UNCHANGED <<path, pid, fd, locked>>,
           mine' = [q \in Runs |-> mine'[q]],
           met' \in [Runs -> SUBSET Meetings], \A q \in Runs : Alone(q)' = Alone(q)
    PROVE  Typed' /\ LockInv'
<1>1. /\ pc' \in [Runs -> Places]
      /\ pc'[p] = l /\ \A q \in Runs \ {p} : pc'[q] = pc[q]
  BY DEF Goto, Typed, Places
<1>2. l \notin Locking /\ l # "idle" /\ pc[p] # "idle" /\ pc[p] \notin Locking
  BY DEF Working, Locking, Changing
<1>3. Typed'
  BY <1>1, <1>2 DEF Typed
<1>4. l \notin {"opened", "reopened", "locked", "stale", "removed"}
  BY <1>2 DEF Locking
<1> QED BY <1>1, <1>2, <1>3, <1>4 DEF LockInv

\* A run that is gone leaves a file that names nobody, and no lock.
LEMMA GoneStep ==
    ASSUME Typed, LockInv, NEW p \in Runs, Gone(p)
    PROVE  Typed' /\ LockInv'
<1>1. /\ pc'[p] = "idle" /\ \A q \in Runs \ {p} : pc'[q] = pc[q]
      /\ fd'[p] = NoFile /\ \A q \in Runs \ {p} : fd'[q] = fd[q]
      /\ \A q \in Runs \ {p} : locked'[q] = locked[q]
      /\ path' = path
      /\ \A q \in Runs \ {p}, f \in Files : pid[f] = q => pid'[f] = q
      /\ pc' \in [Runs -> Places] /\ fd' \in [Runs -> Files \cup {NoFile}]
      /\ locked' \in [Runs -> BOOLEAN] /\ pid' \in [Files -> Runs \cup {Nobody}]
  BY DEF Gone, Goto, Typed, Places
<1>2. /\ mine' = [q \in Runs |-> mine'[q]]
      /\ met' \in [Runs -> SUBSET Meetings] /\ \A q \in Runs \ {p} : met'[q] = met[q]
  BY DEF Gone, Typed
<1>3. Typed'
  BY <1>1, <1>2 DEF Typed
<1>4. "idle" \notin Locking \cup Working \cup {"opened", "reopened", "locked", "stale", "removed"}
  BY DEF Locking, Working, Changing
<1>5. \A q \in Runs : Alone(q) /\ pc[q] \in Working => path \in Files
  BY DEF LockInv, Typed
<1>6. \A q \in Runs \ {p} : Alone(q)' = Alone(q)
  BY <1>2 DEF Alone
<1>7. LockInv'
  BY <1>1, <1>4, <1>5, <1>6 DEF LockInv
<1> QED BY <1>3, <1>7

\* Every leak is a trouble.
LEMMA LeakStep == Typed /\ Leaks /\ [Next]_vars => Leaks'
<1> SUFFICES ASSUME Typed, Leaks, [Next]_vars PROVE Leaks'
  OBVIOUS
<1>1. MaxTrouble \in Nat
  BY DeployAssumption
<1>2. ASSUME NEW p \in Runs, Up(p), Leak(p) PROVE Leaks'
  <2>1. pc[p] # "idle"
    BY <1>2 DEF Up
  <2>2. fd[p] \in Files
    BY <2>1 DEF Typed
  <2>3. IsFiniteSet(leaked)
    BY DEF Leaks
  <2>4. Cardinality(leaked) \in Nat
    BY <2>3, FS_CardinalityType
  <2>5. /\ IsFiniteSet(leaked \cup {fd[p]})
        /\ Cardinality(leaked \cup {fd[p]}) =
              IF fd[p] \in leaked THEN Cardinality(leaked) ELSE Cardinality(leaked) + 1
    BY <2>3, FS_AddElement
  <2>6. /\ Cardinality(leaked \cup {fd[p]}) \in Nat
        /\ Cardinality(leaked \cup {fd[p]}) <= Cardinality(leaked) + 1
    BY <2>4, <2>5
  <2> QED BY <1>1, <1>2, <2>2, <2>4, <2>5, <2>6 DEF Leak, Troubled, Leaks
<1>3. ASSUME NEW f \in leaked, Unleak(f) PROVE Leaks'
  <2>1. IsFiniteSet(leaked)
    BY DEF Leaks
  <2>2. Cardinality(leaked) \in Nat
    BY <2>1, FS_CardinalityType
  <2>3. /\ IsFiniteSet(leaked \ {f})
        /\ Cardinality(leaked \ {f}) = Cardinality(leaked) - 1
    BY <2>1, FS_RemoveElement
  <2> QED BY <1>3, <2>2, <2>3 DEF Unleak, vars, Leaks
<1>4. CASE Reboot
  BY <1>1, <1>4, FS_EmptySet DEF Reboot, Troubled, Leaks
<1>5. CASE leaked' = leaked /\ (trouble' = trouble \/ Troubled)
  <2>1. Cardinality(leaked) \in Nat
    BY FS_CardinalityType DEF Leaks
  <2> QED BY <1>1, <1>5, <2>1 DEF Troubled, Leaks
<1>6. ASSUME NEW p \in Runs, Start(p) \/ TakeLock(p) \/ FetchFails(p) \/ Killed(p)
      PROVE  leaked' = leaked /\ (trouble' = trouble \/ Troubled)
  BY <1>6 DEF Start, TakeLock, Flock, LeaveAlone, CallStale, Remove, Reopen, FlockAgain,
              WritePid, FetchFails, Killed, Exit, Gone, lock
<1>7. ASSUME NEW p \in Runs, Deploy(p), ~(Up(p) /\ Leak(p))
      PROVE  leaked' = leaked /\ trouble' = trouble
  BY <1>7 DEF Deploy, Look, Preflight, Reset, Up, UpFails, Health, Exit, Gone, lock
<1>8. CASE Person \/ (\E image \in orphans : OrphanUp(image)) \/ UNCHANGED vars
  BY <1>5, <1>8 DEF Person, Pull, Edit, Tidy, Push, Others, OrphanUp, lock, vars
<1> QED BY <1>2, <1>3, <1>4, <1>5, <1>6, <1>7, <1>8 DEF Next

\* A run that takes the lock, step by step.
LEMMA LockStep ==
    ASSUME Typed, Leaks, LockInv, NEW p \in Runs, Start(p) \/ TakeLock(p)
    PROVE  Typed' /\ LockInv'
<1> USE DEF Locking, Working, Changing
<1>0. Nobody \notin Runs /\ NoFile \notin Files
  BY DeployAssumption
<1>1. ASSUME NEW l, Goto(p, l), l \in Places
      PROVE  /\ pc' \in [Runs -> Places]
             /\ pc'[p] = l /\ \A q \in Runs \ {p} : pc'[q] = pc[q]
  BY <1>1 DEF Goto, Typed
<1>2. met' = met => \A q \in Runs : Alone(q)' = Alone(q)
  BY DEF Alone
<1>3. CASE Start(p)
  <2>1. /\ pc[p] = "idle" /\ Open(p) /\ Goto(p, "opened") /\ UNCHANGED <<locked, mine>>
        /\ Meets(Beside(p, Locking), "locker")
    BY <1>3 DEF Start
  <2>2. /\ pc' \in [Runs -> Places]
        /\ pc'[p] = "opened" /\ \A q \in Runs \ {p} : pc'[q] = pc[q]
    BY <1>1, <2>1 DEF Places
  <2>3. /\ path' \in Files /\ fd' = [fd EXCEPT ![p] = path']
        /\ pid' \in [Files -> Runs \cup {Nobody}]
        /\ path # NoFile => path' = path /\ pid' = pid
    BY <2>1, OpenFile
  <2>4. "locker" \in Meetings
    BY DEF Meetings
  <2>5. /\ met' \in [Runs -> SUBSET Meetings]
        /\ \A q \in Runs : met'[q] = IF q \in Beside(p, Locking) THEN met[q] \cup {"locker"}
                                                              ELSE met[q]
    BY <2>1, <2>4, MetSome
  <2>6. Typed'
    BY <2>1, <2>2, <2>3, <2>5 DEF Typed
  <2>7. fd'[p] = path' /\ \A q \in Runs \ {p} : fd'[q] = fd[q]
    BY <2>3 DEF Typed
  <2>8. \A q \in Runs \ {p} : pc[q] \in Locking => ~Alone(q)' /\ ~Alone(p)'
    BY <2>5 DEF Alone, Beside
  <2>9. \A q \in Runs \ {p} : pc[q] \in Working => Alone(q)' = Alone(q)
    BY <2>5 DEF Alone, Beside
  <2> QED BY <1>0, <2>1, <2>2, <2>3, <2>6, <2>7, <2>8, <2>9 DEF LockInv
<1>4. CASE Flock(p)
  <2>1. /\ pc[p] = "opened" /\ UNCHANGED <<path, pid, fd, mine, met>>
        /\ locked' = [locked EXCEPT ![p] = Free(fd[p])]
        /\ Goto(p, IF Free(fd[p]) THEN "locked" ELSE "held")
    BY <1>4 DEF Flock
  <2>2. Free(fd[p]) \in BOOLEAN
    BY DEF Free
  <2>3. /\ pc' \in [Runs -> Places]
        /\ pc'[p] = (IF Free(fd[p]) THEN "locked" ELSE "held")
        /\ \A q \in Runs \ {p} : pc'[q] = pc[q]
    BY <1>1, <2>1 DEF Places
  <2>4. locked'[p] = Free(fd[p]) /\ \A q \in Runs \ {p} : locked'[q] = locked[q]
    BY <2>1 DEF Typed
  <2>5. Typed'
    BY <2>1, <2>2, <2>3, <2>4 DEF Typed
  <2>6. Free(fd[p]) => \A q \in Runs : Alone(q) => pc[q] \notin Working
    BY <2>1 DEF Free, LockInv
  <2> QED BY <1>2, <2>1, <2>3, <2>4, <2>5, <2>6 DEF LockInv
<1>5. CASE LeaveAlone(p)
  BY <1>5, GoneStep DEF LeaveAlone, Exit
<1>6. CASE CallStale(p)
  <2>1. /\ pc[p] = "held" /\ ~HolderLive /\ Goto(p, "stale")
        /\ UNCHANGED <<path, pid, fd, locked, mine, met>>
    BY <1>6 DEF CallStale, lock
  <2>2. /\ pc' \in [Runs -> Places]
        /\ pc'[p] = "stale" /\ \A q \in Runs \ {p} : pc'[q] = pc[q]
    BY <1>1, <2>1 DEF Places
  <2>3. \A q \in Runs : Alone(q) => pc[q] \notin Working
    BY <1>0, <2>1 DEF HolderLive, LockInv
  <2>4. Typed'
    BY <2>1, <2>2 DEF Typed
  <2> QED BY <1>2, <2>1, <2>2, <2>3, <2>4 DEF LockInv
<1>7. CASE Remove(p)
  <2>1. /\ pc[p] = "stale" /\ Goto(p, "removed") /\ path' = NoFile
        /\ UNCHANGED <<pid, fd, locked, mine, met>>
    BY <1>7 DEF Remove
  <2>2. /\ pc' \in [Runs -> Places]
        /\ pc'[p] = "removed" /\ \A q \in Runs \ {p} : pc'[q] = pc[q]
    BY <1>1, <2>1 DEF Places
  <2>3. Typed'
    BY <2>1, <2>2 DEF Typed
  <2>4. \A q \in Runs : Alone(q) => pc[q] \notin Working /\ (q # p => pc[q] \notin Locking)
    BY <2>1 DEF LockInv
  <2> QED BY <1>2, <2>1, <2>2, <2>3, <2>4 DEF LockInv
<1>8. CASE Reopen(p)
  <2>1. pc[p] = "removed" /\ Open(p) /\ Goto(p, "reopened") /\ UNCHANGED <<locked, mine, met>>
    BY <1>8 DEF Reopen
  <2>2. /\ pc' \in [Runs -> Places]
        /\ pc'[p] = "reopened" /\ \A q \in Runs \ {p} : pc'[q] = pc[q]
    BY <1>1, <2>1 DEF Places
  <2>3. /\ path' \in Files /\ fd' = [fd EXCEPT ![p] = path']
        /\ pid' \in [Files -> Runs \cup {Nobody}]
    BY <2>1, OpenFile
  <2>4. Typed'
    BY <2>1, <2>2, <2>3 DEF Typed
  <2>5. fd'[p] = path' /\ \A q \in Runs \ {p} : fd'[q] = fd[q]
    BY <2>3 DEF Typed
  <2>6. \A q \in Runs : Alone(q) => pc[q] \notin Working /\ (q # p => pc[q] \notin Locking)
    BY <2>1 DEF LockInv
  <2> QED BY <1>0, <1>2, <2>1, <2>2, <2>3, <2>4, <2>5, <2>6 DEF LockInv
<1>9. CASE FlockAgain(p)
  <2>1. CASE Free(fd[p])
    <3>1. /\ pc[p] = "reopened" /\ UNCHANGED <<path, pid, fd, mine, met>>
          /\ locked' = [locked EXCEPT ![p] = TRUE] /\ Goto(p, "locked")
      BY <1>9, <2>1 DEF FlockAgain
    <3>2. /\ pc' \in [Runs -> Places]
          /\ pc'[p] = "locked" /\ \A q \in Runs \ {p} : pc'[q] = pc[q]
      BY <1>1, <3>1 DEF Places
    <3>3. locked'[p] = TRUE /\ \A q \in Runs \ {p} : locked'[q] = locked[q]
      BY <3>1 DEF Typed
    <3>4. Typed'
      BY <3>1, <3>2, <3>3 DEF Typed
    <3> QED BY <1>2, <3>1, <3>2, <3>3, <3>4 DEF LockInv
  <2>2. CASE ~Free(fd[p])
    BY <1>9, <2>2, GoneStep DEF FlockAgain, Exit
  <2> QED BY <2>1, <2>2
<1>10. CASE WritePid(p)
  <2> DEFINE f == IF path = NoFile THEN NewFile ELSE path
  <2>1. pc[p] = "locked" /\ (Alone(p) => path # NoFile /\ fd[p] = path /\ locked[p])
    BY <1>10 DEF WritePid, LockInv
  <2>2. /\ path' = f /\ pid' = [pid EXCEPT ![f] = p] /\ Goto(p, "look")
        /\ UNCHANGED <<fd, locked, mine>> /\ Meets(Beside(p, Working), "worker")
    BY <1>10 DEF WritePid
  <2>3. /\ pc' \in [Runs -> Places]
        /\ pc'[p] = "look" /\ \A q \in Runs \ {p} : pc'[q] = pc[q]
    BY <1>1, <2>2 DEF Places
  <2>4. f \in Files
    BY FilesLeft DEF Typed
  <2>5. path' \in Files /\ pid'[path'] = p /\ pid' \in [Files -> Runs \cup {Nobody}]
    BY <2>2, <2>4 DEF Typed
  <2>6. /\ met' \in [Runs -> SUBSET Meetings]
        /\ \A q \in Runs : Alone(q)' = Alone(q)
    BY <2>2, MetSome, NotAlone DEF Meetings
  <2>7. Typed'
    BY <2>1, <2>2, <2>3, <2>5, <2>6 DEF Typed
  <2>8. \A q \in Runs : Alone(q) => pc[q] \notin Working /\ (q # p => pc[q] \notin Locking)
    BY <2>1 DEF LockInv
  <2>9. Alone(p) => fd'[p] = path' /\ path' # NoFile /\ locked'[p]
                    /\ \A q \in Runs \ {p} : pc[q] \notin Locking
    BY <2>1, <2>2 DEF LockInv
  <2> HIDE DEF f
  <2> QED BY <2>3, <2>5, <2>6, <2>7, <2>8, <2>9 DEF LockInv
<1> QED BY <1>3, <1>4, <1>5, <1>6, <1>7, <1>8, <1>9, <1>10 DEF TakeLock

\* A run at work moves on, or is gone.
LEMMA WorkStep ==
    ASSUME Typed, LockInv, NEW p \in Runs, Deploy(p) \/ FetchFails(p) \/ Killed(p)
    PROVE  Typed' /\ LockInv'
<1>1. CASE Gone(p)
  BY <1>1, GoneStep
<1>2. CASE ~Gone(p)
  <2>1. ~Exit(p) /\ Deploy(p)
    BY <1>2 DEF Exit, FetchFails, Killed
  <2>2. \E l \in Working : /\ pc[p] \in Working /\ Goto(p, l)
                           /\ UNCHANGED <<path, pid, fd, locked>>
                           /\ mine' = mine \/ mine' = [mine EXCEPT ![p] = Seen]
    BY <2>1 DEF Deploy, Look, Preflight, Reset, Up, UpFails, Health, Working, Changing, lock
  <2>3. mine' = [q \in Runs |-> mine'[q]]
    BY <2>2 DEF Typed
  <2>4. met' = met \/ \E ps : Meets(ps, "build")
    BY <2>1 DEF Deploy, Look, Preflight, Reset, Up, UpFails, Health, lock
  <2>5. met' \in [Runs -> SUBSET Meetings] /\ \A q \in Runs : Alone(q)' = Alone(q)
    <3>1. CASE met' = met
      BY <3>1 DEF Typed, Alone
    <3>2. CASE \E ps : Meets(ps, "build")
      BY <3>2, MetSome, NotAlone DEF Meetings
    <3> QED BY <2>4, <3>1, <3>2
  <2> QED BY <2>2, <2>3, <2>5, Moved
<1> QED BY <1>1, <1>2

LEMMA LockInit == Init => Typed /\ Leaks /\ LockInv
<1> SUFFICES ASSUME Init PROVE Typed /\ Leaks /\ LockInv
  OBVIOUS
<1>1. Typed
  BY DEF Init, Typed, Places
<1>2. Leaks
  BY FS_EmptySet, DeployAssumption DEF Init, Leaks
<1>3. LockInv
  BY DEF Init, LockInv, Locking, Working, Changing
<1> QED BY <1>1, <1>2, <1>3

LEMMA LocksHold ==
    Typed /\ Leaks /\ LockInv /\ [Next]_vars => Typed' /\ LockInv'
<1> SUFFICES ASSUME Typed, Leaks, LockInv, [Next]_vars PROVE Typed' /\ LockInv'
  OBVIOUS
<1>1. ASSUME UNCHANGED <<path, pid, fd, locked, pc, mine>>,
             met' \in [Runs -> SUBSET Meetings], \A q \in Runs : Alone(q)' = Alone(q)
      PROVE  Typed' /\ LockInv'
  BY <1>1 DEF Typed, LockInv
<1>2. CASE Reboot
  <2>1. Typed'
    BY <1>2 DEF Reboot, Typed, Places
  <2>2. LockInv'
    BY <1>2 DEF Reboot, LockInv, Locking, Working, Changing
  <2> QED BY <2>1, <2>2
<1>3. CASE UNCHANGED <<path, pid, fd, locked, pc, mine, met>>
  BY <1>1, <1>3 DEF Typed, Alone
<1>4. CASE Person
  <2>1. UNCHANGED <<path, pid, fd, locked, pc, mine>> /\ (met' = met \/ \E ps : Meets(ps, "person"))
    BY <1>4 DEF Person, Pull, Edit, Tidy, Push, Others, Unseen, lock
  <2>2. ASSUME NEW ps, Meets(ps, "person") PROVE Typed' /\ LockInv'
    BY <1>1, <2>1, <2>2, MetSome, NotAlone DEF Meetings
  <2> QED BY <1>3, <2>1, <2>2
<1>5. CASE UNCHANGED vars
  BY <1>3, <1>5 DEF lock, vars
<1>6. CASE \/ \E image \in orphans : OrphanUp(image)
           \/ \E f \in leaked : Unleak(f)
  BY <1>3, <1>6 DEF OrphanUp, Unleak, lock
<1> QED BY <1>2, <1>4, <1>5, <1>6, LockStep, WorkStep DEF Next

\* Two runs are past the lock together only if one of them met another while
\* it took the lock, whatever was killed before, whoever leaked the lock and
\* whatever the file still names (prism-update.sh: "One deploy at a time").
THEOREM OneAtATime == Spec => []OneDeployAtATime
<1> DEFINE Inv == Typed /\ Leaks /\ LockInv
<1>1. Inv => OneDeployAtATime
  BY DEF LockInv, OneDeployAtATime, Alone
<1>2. Init => Inv
  BY LockInit
<1>3. Inv /\ [Next]_vars => Inv'
  BY LocksHold, LeakStep
<1> QED BY <1>1, <1>2, <1>3, PTL DEF Spec

---------------------------------------------------------------------------
\* The tree a run works on is the one it found clean, or a person edited it since.
CleanInv == \A p \in Runs : PastLook(p) /\ dirty => "person" \in met[p]

\* What a run does to itself.
LEMMA RunMoves ==
    ASSUME Typed, NEW p \in Runs,
           Start(p) \/ TakeLock(p) \/ Deploy(p) \/ FetchFails(p) \/ Killed(p)
    PROVE  /\ \A q \in Runs \ {p} : pc'[q] = pc[q] /\ mine'[q] = mine[q]
           /\ PastLook(p)' => PastLook(p) \/ Look(p)
<1> USE DEF PastLook, Working, Changing
<1>1. CASE Gone(p)
  BY <1>1 DEF Gone, Goto, Typed
<1>2. CASE ~Gone(p) /\ (Start(p) \/ TakeLock(p))
  BY <1>2 DEF Start, TakeLock, Flock, LeaveAlone, CallStale, Remove, Reopen, FlockAgain,
              WritePid, Exit, Goto, Typed, lock
<1>3. CASE ~Gone(p) /\ Deploy(p)
  BY <1>3 DEF Deploy, Look, Preflight, Reset, Up, UpFails, Health, Exit, Goto, Typed
<1> QED BY <1>1, <1>2, <1>3 DEF FetchFails, Killed

\* A run at work forgets nothing it met.
LEMMA Remembers ==
    ASSUME Typed, [Next]_vars, NEW p \in Runs, pc[p] \in Working, pc'[p] \in Working
    PROVE  met[p] \subseteq met'[p]
<1> USE DEF Working, Changing
<1>1. ASSUME NEW q \in Runs, Gone(q) PROVE met'[p] = met[p]
  BY <1>1 DEF Gone, Goto, Typed
<1>2. ASSUME NEW ps, NEW m \in Meetings, Meets(ps, m) PROVE met[p] \subseteq met'[p]
  BY <1>2, MetSome
<1>3. "locker" \in Meetings /\ "worker" \in Meetings /\ "person" \in Meetings /\ "build" \in Meetings
  BY DEF Meetings
<1>4. ASSUME NEW q \in Runs, ~Gone(q),
             Start(q) \/ TakeLock(q) \/ Deploy(q) \/ FetchFails(q) \/ Killed(q)
      PROVE  met[p] \subseteq met'[p]
  <2>1. met' = met \/ \E ps : \E m \in Meetings : Meets(ps, m)
    <3>1. CASE Start(q)
      BY <1>3, <3>1 DEF Start
    <3>2. CASE TakeLock(q)
      BY <1>3, <1>4, <3>2 DEF TakeLock, Flock, LeaveAlone, CallStale, Remove, Reopen,
                              FlockAgain, WritePid, Exit, lock
    <3>3. CASE Deploy(q)
      BY <1>3, <1>4, <3>3 DEF Deploy, Look, Preflight, Reset, Up, UpFails, Health, Exit, lock
    <3> QED BY <1>4, <3>1, <3>2, <3>3 DEF FetchFails, Killed
  <2> QED BY <1>2, <2>1
<1>5. CASE Reboot
  BY <1>5 DEF Reboot
<1>6. CASE Person
  <2>1. met' = met \/ \E ps : Meets(ps, "person")
    BY <1>6 DEF Person, Pull, Edit, Tidy, Push, Unseen
  <2> QED BY <1>2, <1>3, <2>1
<1>7. CASE \/ \E image \in orphans : OrphanUp(image)
           \/ \E f \in leaked : Unleak(f)
           \/ UNCHANGED vars
  BY <1>7 DEF OrphanUp, Unleak, lock, vars
<1> QED BY <1>1, <1>4, <1>5, <1>6, <1>7 DEF Next

\* Only a run that resets the tree, or a person, touches the repository.
LEMMA RepoKept ==
    ASSUME NEW p \in Runs, ~Reset(p),
           Start(p) \/ TakeLock(p) \/ Deploy(p) \/ FetchFails(p) \/ Killed(p)
    PROVE  UNCHANGED repo
BY DEF Start, TakeLock, Flock, LeaveAlone, CallStale, Remove, Reopen, FlockAgain,
       WritePid, FetchFails, Killed, Deploy, Look, Preflight, Up, UpFails, Health,
       Exit, repo

LEMMA CleanStep ==
    ASSUME ~AllowDirty, Typed, CleanInv, [Next]_vars
    PROVE  CleanInv'
<1> SUFFICES ASSUME NEW p \in Runs, PastLook(p)', dirty' PROVE "person" \in met'[p]
  BY DEF CleanInv
<1> USE DEF PastLook, Working, Changing
<1>1. ASSUME NEW q \in Runs, Start(q) \/ TakeLock(q) \/ Deploy(q) \/ FetchFails(q) \/ Killed(q)
      PROVE  PastLook(p) /\ dirty
  <2>1. ~Reset(q)
    BY DEF Reset
  <2>2. dirty' = dirty
    BY <1>1, <2>1, RepoKept DEF repo
  <2>3. CASE q # p
    BY <1>1, <2>2, <2>3, RunMoves
  <2>4. CASE q = p /\ Look(p)
    <3>1. ~Exit(p)
      BY DEF Exit, Gone, Goto, Typed
    <3> QED BY <2>2, <2>4, <3>1 DEF Look
  <2>5. CASE q = p /\ ~Look(p)
    BY <1>1, <2>2, <2>5, RunMoves
  <2> QED BY <2>3, <2>4, <2>5
<1>2. CASE Edit
  <2>1. PastLook(p) /\ Meets({q \in Runs : PastLook(q)}, "person")
    BY <1>2 DEF Edit, Others, Unseen
  <2> QED BY <2>1 DEF Meets
<1>3. CASE \/ Pull \/ Tidy \/ (\E c \in Commits : Push(c)) \/ UNCHANGED vars
           \/ (\E image \in orphans : OrphanUp(image)) \/ (\E f \in leaked : Unleak(f))
  <2>1. PastLook(p) /\ dirty
    BY <1>3 DEF Pull, Tidy, Push, Others, OrphanUp, Unleak, repo, vars
  <2> QED BY <2>1, Remembers DEF CleanInv
<1>4. ~Reboot
  BY DEF Reboot
<1>5. PastLook(p) /\ dirty => "person" \in met'[p]
  BY Remembers DEF CleanInv
<1> QED BY <1>1, <1>2, <1>3, <1>4, <1>5 DEF Next, Person

\* A deploy that refuses dirty trees never takes away what somebody has edited on
\* the box, but for an edit made after its look at the tree (prism-update.sh:
\* "It will not touch a dirty working tree").
THEOREM EditsAreKept == ~AllowDirty => (Spec => EditsKept)
<1> SUFFICES ASSUME ~AllowDirty PROVE Spec => EditsKept
  OBVIOUS
<1> DEFINE Inv == Typed /\ Leaks /\ LockInv /\ CleanInv
           Kept == dirty /\ ~dirty' =>
                     \/ pc' = pc
                     \/ \E p \in Runs : PastLook(p) /\ "person" \in met[p] /\ pc'[p] # pc[p]
<1>1. Init => Inv
  <2>1. Init => CleanInv
    BY DEF Init, CleanInv
  <2> QED BY <2>1, LockInit
<1>2. Inv /\ [Next]_vars => Inv'
  BY LocksHold, LeakStep, CleanStep
<1>3. Inv /\ [Next]_vars => [Kept]_vars
  <2> SUFFICES ASSUME Inv, Next, dirty, ~dirty' PROVE Kept
    OBVIOUS
  <2>1. ASSUME NEW p \in Runs, Reset(p)
        PROVE  PastLook(p) /\ "person" \in met[p] /\ pc'[p] # pc[p]
    <3>1. PastLook(p) /\ pc'[p] # pc[p]
      BY <2>1 DEF Reset, PastLook, Working, Changing, Goto, Typed
    <3> QED BY <3>1 DEF CleanInv
  <2>2. ASSUME NEW p \in Runs, ~Reset(p),
               Start(p) \/ TakeLock(p) \/ Deploy(p) \/ FetchFails(p) \/ Killed(p)
        PROVE  FALSE
    BY <2>2, RepoKept DEF repo
  <2>3. CASE Reboot \/ (\E image \in orphans : OrphanUp(image)) \/ (\E f \in leaked : Unleak(f))
    BY <2>3 DEF Reboot, OrphanUp, Unleak, repo
  <2>4. CASE Person
    BY <2>4 DEF Person, Pull, Edit, Tidy, Push, Others
  <2> QED BY <2>1, <2>2, <2>3, <2>4 DEF Next
<1> QED BY <1>1, <1>2, <1>3, PTL DEF Spec, EditsKept

---------------------------------------------------------------------------
\* Two runs at work have met.  Beside a run that has met nobody since it looked no
\* build is left over; a rollback then builds the commit it found and leaves it
\* in the container.
Undisturbed(p) == met[p] \subseteq {"locker"}
WorkersMet == \A p, q \in Runs : p # q /\ {pc[p], pc[q]} \subseteq Working => "worker" \in met[p]
ServeInv ==
    \A p \in Runs : PastLook(p) /\ Undisturbed(p) =>
        /\ orphans = {}
        /\ pc[p] = "upBack" => head = mine[p].current
        /\ pc[p] = "healthBack" => box.code = mine[p].current

LEMMA WorkersStep == Typed /\ WorkersMet /\ [Next]_vars => WorkersMet'
<1> SUFFICES ASSUME Typed, WorkersMet, [Next]_vars, NEW p \in Runs, NEW q \in Runs, p # q,
                    pc'[p] \in Working, pc'[q] \in Working
             PROVE  "worker" \in met'[p]
  BY DEF WorkersMet
<1>1. CASE pc[p] \in Working /\ pc[q] \in Working
  BY <1>1, Remembers DEF WorkersMet
<1>2. CASE ~(pc[p] \in Working /\ pc[q] \in Working)
  <2>1. ASSUME NEW r \in Runs, WritePid(r), r = p \/ r = q PROVE "worker" \in met'[p]
    <3>1. \A s \in Runs \ {r} : pc'[s] = pc[s]
      BY <2>1, RunMoves DEF TakeLock
    <3>2. p \in Beside(r, Working)
      BY <2>1, <3>1 DEF Beside
    <3>3. Meets(Beside(r, Working), "worker")
      BY <2>1 DEF WritePid
    <3> QED BY <3>2, <3>3 DEF Meets
  <2>2. ASSUME NEW r \in Runs, pc[r] \notin Working, pc'[r] \in Working PROVE WritePid(r)
    <3> USE DEF Working, Changing
    <3>1. ~Reboot /\ ~Gone(r)
      BY <2>2 DEF Reboot, Gone, Goto, Typed
    <3>2. pc' # pc
      BY <2>2
    <3>3. PICK s \in Runs : Start(s) \/ TakeLock(s) \/ Deploy(s) \/ FetchFails(s) \/ Killed(s)
      BY <3>1, <3>2 DEF Next, Person, Pull, Edit, Tidy, Push, Others, OrphanUp, Unleak, vars
    <3>4. s = r
      BY <2>2, <3>3, RunMoves
    <3>5. ~Deploy(r) /\ ~FetchFails(r) /\ ~Killed(r)
      BY <2>2, <3>1 DEF Deploy, Look, Preflight, Reset, Up, UpFails, Health, FetchFails, Killed
    <3>6. ~Start(r)
      BY <2>2 DEF Start, Goto, Typed
    <3> QED BY <2>2, <3>1, <3>3, <3>4, <3>5, <3>6
        DEF TakeLock, Flock, LeaveAlone, CallStale, Remove, Reopen, FlockAgain, Exit, Goto, Typed
  <2>3. CASE pc[p] \notin Working
    BY <2>1, <2>2, <2>3
  <2>4. CASE pc[q] \notin Working
    BY <2>1, <2>2, <2>4
  <2> QED BY <1>2, <2>3, <2>4
<1> QED BY <1>1, <1>2

\* What a run at work rests on is not touched by another it has not met.
LEMMA ServeOther ==
    ASSUME Typed, WorkersMet, Next, NEW p \in Runs, PastLook(p), PastLook(p)',
           Undisturbed(p)', ~Deploy(p), ~FetchFails(p), ~Killed(p)
    PROVE  /\ pc'[p] = pc[p] /\ mine'[p] = mine[p] /\ head' = head
           /\ orphans = {} => orphans' = {} /\ box' = box
<1> USE DEF PastLook, Working, Changing
<1>0. Undisturbed(p)
  BY Remembers DEF Undisturbed
<1>1. \A q \in Runs : q # p => pc[q] \notin Working
  BY <1>0 DEF WorkersMet, Undisturbed
<1>2. ASSUME NEW q \in Runs, Start(q) \/ TakeLock(q) \/ Deploy(q) \/ FetchFails(q) \/ Killed(q)
      PROVE  /\ UNCHANGED <<orphans, box, head>> /\ q # p
  <2>1. CASE Start(q) \/ TakeLock(q)
    BY <2>1 DEF Start, TakeLock, Flock, LeaveAlone, CallStale, Remove, Reopen, FlockAgain,
                WritePid, Exit, repo
  <2>2. CASE Killed(q)
    BY <1>1, <2>2 DEF Killed, repo
  <2>3. CASE Deploy(q) \/ FetchFails(q)
    BY <1>1, <2>3 DEF Deploy, Look, Preflight, Reset, Up, UpFails, Health, FetchFails
  <2> QED BY <1>2, <2>1, <2>2, <2>3
<1>3. ~Reboot
  BY DEF Reboot
<1>4. ASSUME Pull \/ Edit PROVE FALSE
  <2>1. Meets({q \in Runs : PastLook(q)}, "person")
    BY <1>4 DEF Pull, Edit, Unseen
  <2>2. "person" \in met'[p]
    BY <2>1 DEF Meets
  <2> QED BY <2>2 DEF Undisturbed
<1>5. CASE Tidy \/ \E c \in Commits : Push(c)
  BY <1>5 DEF Tidy, Push, Others
<1>6. CASE \E image \in orphans : OrphanUp(image)
  BY <1>6 DEF OrphanUp, repo
<1>7. CASE \E f \in leaked : Unleak(f)
  BY <1>7 DEF Unleak, repo
<1> QED BY <1>2, <1>3, <1>4, <1>5, <1>6, <1>7, RunMoves DEF Next, Person

LEMMA ServeStep ==
    ASSUME Typed, WorkersMet, ServeInv, [Next]_vars
    PROVE  ServeInv'
<1> SUFFICES ASSUME NEW p \in Runs, PastLook(p)', Undisturbed(p)'
             PROVE  /\ orphans' = {}
                    /\ pc'[p] = "upBack" => head' = mine'[p].current
                    /\ pc'[p] = "healthBack" => box'.code = mine'[p].current
  BY DEF ServeInv
<1> USE DEF PastLook, Working, Changing
<1>1. PastLook(p) => /\ orphans = {}
                     /\ pc[p] = "upBack" => head = mine[p].current
                     /\ pc[p] = "healthBack" => box.code = mine[p].current
  BY Remembers DEF ServeInv, Undisturbed
<1>2. CASE UNCHANGED vars
  BY <1>1, <1>2 DEF vars, repo
<1>3. CASE Next /\ (Deploy(p) \/ FetchFails(p) \/ Killed(p))
  <2>1. ~Gone(p)
    BY DEF Gone, Goto, Typed
  <2>2. CASE Look(p)
    <3>1. /\ Goto(p, "preflight") /\ UNCHANGED orphans
          /\ Meets(IF orphans = {} THEN {} ELSE {p}, "build")
      BY <2>1, <2>2 DEF Look, Exit
    <3>2. orphans # {} => "build" \in met'[p]
      BY <3>1, MetSome DEF Meetings
    <3>3. pc'[p] = "preflight"
      BY <3>1 DEF Goto, Typed
    <3> QED BY <3>1, <3>2, <3>3 DEF Undisturbed
  <2>3. CASE Preflight(p) \/ UpFails(p) \/ Health(p)
    <3>1. pc'[p] \in {"reset", "rollback"} /\ PastLook(p) /\ UNCHANGED <<orphans, mine>>
      BY <2>1, <2>3 DEF Preflight, UpFails, Health, Exit, Goto, Typed
    <3> QED BY <1>1, <3>1
  <2>4. CASE Reset(p)
    BY <1>1, <2>4 DEF Reset, Goto, Typed
  <2>5. CASE Up(p)
    BY <1>1, <2>5 DEF Up, Goto, Typed
  <2> QED BY <1>3, <2>1, <2>2, <2>3, <2>4, <2>5 DEF Deploy, FetchFails, Killed
<1>4. CASE Next /\ ~Deploy(p) /\ ~FetchFails(p) /\ ~Killed(p)
  <2>1. PastLook(p)
    <3>1. ~Start(p) /\ ~(TakeLock(p) /\ ~PastLook(p))
      BY RunMoves DEF Start, TakeLock, Flock, LeaveAlone, CallStale, Remove, Reopen,
                      FlockAgain, WritePid, Look
    <3>2. ~Reboot
      BY DEF Reboot
    <3> QED BY <1>4, <3>1, <3>2, RunMoves
        DEF Next, Person, Pull, Edit, Tidy, Push, Others, OrphanUp, Unleak
  <2> QED BY <1>1, <1>4, <2>1, ServeOther
<1> QED BY <1>2, <1>3, <1>4

\* A deploy that found the repository on a healthy commit, met nothing that
\* changed tree or container beside it and ends by itself leaves a healthy
\* container: it checked what it built, or rolled back to what there was
\* (prism-update.sh: "A bad commit rolls back").
THEOREM BadCommitsRollBack == Spec => EndsServing
<1> DEFINE Inv == Typed /\ Leaks /\ LockInv /\ WorkersMet /\ ServeInv
           Ends ==
             \A p \in Runs :
               /\ EndsByItself(p) /\ mine[p].current \in Good
               /\ met[p] \subseteq {"locker"}
               => Healthy'
<1>1. Init => Inv
  <2>1. Init => WorkersMet /\ ServeInv
    BY DEF Init, WorkersMet, ServeInv, PastLook, Working, Changing
  <2> QED BY <2>1, LockInit
<1>2. Inv /\ [Next]_vars => Inv'
  BY LocksHold, LeakStep, WorkersStep, ServeStep
<1>3. Inv /\ [Next]_vars => [Ends]_vars
  <2> SUFFICES ASSUME Inv, Next, NEW p \in Runs, EndsByItself(p), Undisturbed(p),
                      mine[p].current \in Good
               PROVE  Healthy'
    BY DEF Undisturbed
  <2>1. UpFails(p) \/ Health(p)
    <3>1. pc[p] \in Changing /\ pc'[p] = "idle" /\ trouble' = trouble
      BY DEF EndsByItself
    <3>2. ~FetchFails(p) /\ ~Killed(p) /\ ~Reboot
      BY <3>1 DEF FetchFails, Killed, Reboot, Troubled, Leaks
    <3>3. ~Start(p) /\ ~TakeLock(p) /\ ~Look(p) /\ ~Preflight(p)
      BY <3>1 DEF Start, TakeLock, Flock, LeaveAlone, CallStale, Remove, Reopen, FlockAgain,
                  WritePid, Look, Preflight, Changing
    <3>4. ~Reset(p) /\ ~Up(p)
      BY <3>1 DEF Reset, Up, Goto, Typed
    <3>5. pc'[p] # pc[p]
      BY <3>1 DEF Changing
    <3> QED BY <3>2, <3>3, <3>4, <3>5, RunMoves
        DEF Next, Deploy, Person, Pull, Edit, Tidy, Push, Others, OrphanUp, Unleak
  <2>2. CASE UpFails(p)
    <3>1. pc[p] = "upBack" /\ head \notin Builds
      BY <2>2 DEF UpFails, EndsByItself, Goto, Typed
    <3>2. head \in Good
      BY <3>1 DEF ServeInv, PastLook, Working, Changing
    <3> QED BY <3>1, <3>2, DeployAssumption
  <2>3. CASE Health(p)
    <3>1. Exit(p) /\ (Healthy \/ pc[p] = "healthBack")
      BY <2>3 DEF Health, EndsByItself, Goto, Typed
    <3>2. Healthy
      BY <3>1 DEF ServeInv, Healthy, PastLook, Working, Changing
    <3> QED BY <3>1, <3>2 DEF Exit, Healthy
  <2> QED BY <2>1, <2>2, <2>3
<1> QED BY <1>1, <1>2, <1>3, PTL DEF Spec, EndsServing
=============================================================================
