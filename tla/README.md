# A verification development of PRISM

PRISM polls RUCKUS ONE venues and reports on them.  These modules model, in TLA+,
the parts of it that decide something: the account file that a server and a command
line both write, sessions and the throttle before them, the roles and territories
that say who sees what, the record of a batch run that a browser drives, the reading
of long lists from a service that fails, what a report computes from what came back
and what of it one reader is served, and the script that deploys a new commit.  TLC
checks them on small instances; TLAPS proves for every value of the constants the
safety of the parts that keep state.  Paths below are relative to the repository.

## The system

| part | state | operations | how it meets the others |
|---|---|---|---|
| accounts (`api/accounts.py`, `api/scripts/prism_admin.py`) | `/data/accounts.json`; per process `_users`, `_stamp`, `_loaded`, `_broken` | create, issue and redeem an invite, set a password, upgrade a hash, update, delete, lookups | two processes share the file and no lock; the last-admin guard asks the role catalogue |
| sessions and gate (`api/auth.py`) | signed cookies, table of failures | login, enrol, change a password, gate, `require_grants` | looks an account up at the gate, the handler runs later |
| SSO (`api/cf_access.py`) | signing keys and their age | fetch, verify | the gate in proxy mode |
| policy (`api/visibility.py`, `api/roles.py`, `api/grants.py`) | `/data/visibility.json`: roles, people, resource groups, with a cache | load, save, resolve, `role_for`, `holders_of`, `scope_for` | read by every request; saved by `PUT /admin/roles` |
| administration (`api/routers/admin_router.py`, `accounts_router.py`) | none | save the policy; create, change, delete an account | two doors to one question: who holds what |
| territory (`api/scope.py`, `api/resource_groups.py`) | none | union of groups, which customers and venues a caller reaches | narrows lists, reports and the roll-up |
| batch runs (`api/batch_runs.py`, `api/routers/batch_router.py`, `src/pages/AdminBatch.tsx`) | `/data/batch-runs.json` and the copy in memory; the dialog's loop | start a run, check a venue, finish | the browser asks for one venue per request, several at once; the answer may be lost |
| roll-up (`api/services/prism/rollup.py`, `api/routers/msp_router.py`) | none | narrow the record to a caller, count | reads the batch record and the policy |
| collection (`api/services/prism/fetch.py`, `collect.py`) | none | one read per source, in threads, joined; walks over paged lists | the R1 client and its token cache |
| R1 client (`api/r1_client.py`, `api/r1api`) | a token per tenant | authenticate, request, page | RUCKUS ONE |
| report (`shape.py`, `checks.py`, `punchlist.py`, `trace.py`) | none | pure functions over what was read | the collection before it, the redaction after it |
| redaction (`api/sections.py`, `redact.py`, `scrub.py`) | none | empty, drop, recount, scrub | the policy says what is hidden from whom |
| baselines (`api/baselines.py`) | a file with a cache | save, resolve a setting, compare | the config tab of the report |
| portal (`src/pages`, `src/context`, `src/hooks`) | React state | select, poll, edit, save | the API |
| deploy (`deploy/prism-update.sh` and its unit) | the lock file, the git tree, the container and its label | a run every five minutes, and by hand | restarts the API, which loses what is only in memory |

The behaviours that are hard: two writers of one file with a cache each; a handler
that decides, waits for minutes and then records; answers that never arrive although
the work was done; a save that fails after memory was changed; restarts anywhere;
guards that protect the last holder of a right through several doors; a list that
changes while it is read page by page; an empty answer that stands for a failed one;
a policy that changes while a report is collected; a lock whose holder may be a
leaked descriptor, a killed script or a live one that has not yet written its name.
`PROJECT.json` lists each at its line under "hazards", with the properties that would
catch it going wrong.

What makes each part correct:

- accounts: a used invite or an old password is never valid again; somebody can
  always administer; a damaged file is never overwritten; a cache never answers
  from rows the file does not hold; all of it together: the store is one table, until one
  process saves over what another saved meanwhile.
- sessions: a cookie proves only what is so now; a rotation ends the sessions it
  should and no other; a withdrawn signing key does not outlive the cache.
- throttle: nobody waits for what did not happen; whoever has the right password
  gets in, however long strangers guess.
- role tier: nobody gives more than they hold, only holders of `admin.roles` change
  roles once there are any, and neither that tier nor the portal is left to nobody by
  the guards' own doors.
- territory: one more group never takes reach away, and losing a file or the last
  group never widens anybody unawares.
- roll-up: no number depends on what the caller may not see.
- batch runs: what the dialog was told is on the file; the last complete check of a
  venue moves only on a complete check and is never lost; loops and runs come to an end.
- collection: a list that is called complete misses no more than what changed under it
  explains; no block is read twice; every walk and every request ends, with a token that is
  still good.
- report: a failed read raises no alarm; what is counted is counted once; the verdict of
  a trace and the comparison with a recommendation are true of the venue.
- redaction: what is served holds nothing withheld.
- deploy: one run at a time unless two met over the lock, no edit lost that was there to be
  seen, a rollback that restores, and a pushed commit that is served in the end.

## Modules

| module | models | builds on |
|---|---|---|
| `AccountOps` | a row, its credentials, what each operation does to it, the guards | - |
| `AccountTable` | the abstract specification: one table, one operation at a time | `AccountOps` |
| `AccountStore` | the file, two kinds of process with a cache each, `_load` and `_mutate` step by step, crashes | `AccountOps`, refines `AccountTable` |
| `Sessions` | cookies of both modes, a change of password split from its gate, restarts, signing keys in proxy mode | composes `AccountTable` |
| `Throttle` | the table of failures, its delays, its limit, every door that counts | - |
| `RoleTier` | role catalogue, both doors, the gate | - |
| `Reach` | scopes, groups, their union, what a scope allows and filters | - |
| `RollUp` | a record of checks narrowed to a scope, and every count over it | `Reach` |
| `Territory` | the policy file and its cache, saves, damage, restarts, batch checks, roll-ups | `RollUp` |
| `BatchRuns` | store, routes and dialog of a batch run | - |
| `Walks` | nine readers of paged lists that change, come in no order, are cut, fail or repeat themselves | - |
| `Report` | requests, threads, waves of reads, the token cache, a policy that changes | - |
| `Findings` | findings, the run over the checks, verdict, punch list | - |
| `Devices`, `Wired`, `Wireless`, `Subnets`, `Channels`, `Identity` | the cards of a report and the checks over them | `Findings` |
| `Trace` | a username followed to its policy, networks, VLAN and access points | `Identity` |
| `Advice` | recommendations by level and group, and clusters of networks compared with them | - |
| `Redaction` | hidden sections, columns and checks; scrubbing | `Findings` |
| `Reading` | one poll of one venue: reads that fail, the cards, the 34 checks, the trace, the config tab, what is served | all of the seven rows above it but `Walks` and `Report` |
| `DeployUpdate` | the update script and what happens around it | - |
| `AccountTableProofs`, `AccountStoreProofs`, `BatchRunsProofs`, `ReadingProofs`, `DeployProofs` | theorems | the module of that name |
| `SessionsProofs`, `RightsProofs`, `CollectionProofs` | theorems | `Sessions` and `Throttle`; `Territory` and `RoleTier`; `Walks` and `Report` |
| `MC*` | small instances for TLC | the module of that name |

Three kinds of module stand side by side.  Those with processes have one action per
step that another process can come between.  Pure algorithms (`Reach`, `RollUp`, the
cards, `Trace`, `Advice`, `Redaction`) are operators over sets and records, which a
module with a state (`Territory`, `Reading`) applies to every case it reaches.
`AccountTable` is an abstract specification, which `AccountStore` implements and
`Sessions` runs as its own table.

### AccountStore

`disk` is the file (a stamp that stands for mtime and size, whether it parses, its
rows), `cache[p]` the copy of a process, `pc[p]` where it stands in `_load` or
`_mutate`.  A lookup that finds its stamp unchanged is no step; one that does not is
`StartLookup` (the stat) and `Read` (read and parse, which may see a later file than
the stat).  A mutation is `StartMutation`, perhaps `Read`, then one of the operations
(which decides on the cache and renames the new file over the old) and `Restamp` (the
stat after the rename).  `GiveUp` is any refusal or failure before the rename,
`Restart` a crash or an exit at any point, `Tampered` a file damaged or mended by hand.
Invites and password hashes are numbers never used twice, `spent` the ones ended.

Nothing keeps the operations of the server and of the command line apart: `_mutate`'s lock
is an `RLock` of one process.  So all of them overlap here as they like.  `overtaken` is history: the
processes whose rows in hand became old because another renamed (or somebody mended or
damaged) the file between their read and their rename, or between their rename and their stat.
The rename of such a process is the lost update; `OvertakenWrite` names it, every property says
what holds of all other steps, and what happens at that one is listed at the end.

### Sessions and Throttle

A cookie is its account and its signature, and a signature is the tuple it is made
over: `AccountKey` and `SigningKey` are the derivations of `_account_key` and
`_signing_key`, and equal tuples are equal keys.  What a cookie was begun with is
remembered beside it for the properties and read by no action.  `Gate` and
`ChangePassword` are two steps, because the handler verifies again what the gate let
through.  `Restart` takes any configuration of `Confs`: the account file outlives a
change of mode, and so do cookies.  `Kids`, `RotatesIn` and `Withdraws` are Cloudflare's
side and external; a signature verifies under its own key only.

In `Throttle` a time is what is left of it, so that time may pass for ever in a finite
space: `Tick` runs down blocks and memories.  `LoginWrong` counts the address and then the name, as
`_record_failure` does, each with a purge of its own.  `blame` and `signedIn` are history.

### RoleTier

`roles` and `people` are the two blocks of the policy, `acct` the accounts, `req[x]` the
request of an account: the gate takes its role down (`Begin`), `require_grants` looks at
the catalogue (`Admit`), the handler runs at once (`PutRoles`, `Create`, `Patch`,
`Delete`), and others run in between.  A role is the set of its grants, cut down to the
three the guards look at.  A document has, beside roles and people, the block `hidden` of the
format before there were roles: `MigratedHidden` makes a role of each key in it that has none,
after the handler judged `body.roles` alone.  `Ghosts` are the identities of the people map, which count as
holders in accounts mode without being able to sign in.  Left out: what a role
shows (`Redaction`), resource groups (`Territory`), and the modes without accounts.

### Territory, RollUp, Reach

`disk` is the policy file, `mem` what the process made of it, `snap` the batch record.
`Policy` is `_load`: the file when its stamp moved and it parses, what is in memory
when it does not.  No handler here waits between reading the policy and using it, so
each is one action.  A process that starts over a file that does not parse has nothing in
memory: `known` is history, whether this process has ever held a policy that was in the file, and `Blank`
a process that has not, over a file it cannot read.  `echoed` remembers that the catalogue saved last was
the built-in group alone.  `Saved` is what `save` writes: an omitted block as memory has it,
and the built-in group not written back unless it was changed.  A scope is either
unrestricted or a map from customers to venues or to `AllVenues`, as in `scope.py`; an
explicit empty list means none.

### BatchRuns

`mem` is the store in memory, `disk` what the last save left, `broken` a file that did
not parse at start (nothing is saved over it).  `drv`, `stopRef`, `halted` and `ask`
are the dialog's loop and what it knows of each venue, `srv` the request for a venue on
its way or at the server.  `check_venue` is two actions, because it awaits the poll:
up to the await, and the record, into the run as it is by then.  A lost answer, a save
that fails, a restart, a closed tab are actions of their own.  The order of checks is
their number, in place of a time.

### Walks and Report

`Reader` holds, for each of nine readers, where it starts, whether page 1 is page 0
again, whether its query asks for an order, whether it drops rows it has, what ends it, after how many
pages at the latest and where its total comes from; `Take` is one turn of any of the loops.  Rows are
numbers, in the order a sorted query has them, so a row that appears or disappears shifts the rows after it.
A query that asks for no order (`property_units`, `identity_groups_all`) gets as many rows as
the block has, but any of them (`Some`), and the one answer of `access_points` any rows up to `Cap`.
`honest` is a service that answers the page it was asked for; the other kind answers every page with
the first.  An id is used once: a row that disappeared does not come back.  Left out: ties of the sort
keys (networks of one name, switches of one sort value) and the client reader's filter on the venue.

In `Report` a request is its route, its wave, what its token has left, its age and the
reads that were lost.  All reads of all requests wait in one queue for `Workers` threads,
the default executor.  A read ends in an answer, a default (`_json`) or an exception,
and `Raised` says who keeps an exception.  `Hide` is an administrator who changes
what the reader is shown while the report is collected.

### Reading and the modules under it

A state is one venue, the reads that failed, and whom it was served to.  `Raw` is what
`build_report` goes on with: the venue's own rows, or the empty value that stands for
a read that raised.  `Cards` are the sections as `shape.py` computes them, `Checks` the 34
functions of `checks.py`, `Report` the paths of the document, `Traced` the trace's own
reads of the same venue, and `Redact` what a reader gets.  A row of RUCKUS ONE keeps the
fields a card or a check asks for; a name, a MAC address or an SSID is a string taken
whole, an address a number of `Bits` bits.  A regular expression is the set of names it
matches, or `Invalid`; a status is one of the words the code tells apart.  `HasCentre` is
`_channel_centre_mhz`: a channel it knows no frequency for has no slot in the chart.  `BuriedKeys` are VLAN and
DPSK settings whose value is a list or a tree with leaves of other names: the fingerprint strips
them and `_cluster_variance` does not see them.

### DeployUpdate

One variable per thing the script reads: the branch at the origin, the head and the
dirtiness of the tree, the container's code and label, the lock file as a path to a file
with a pid and open descriptors, the shell's variables of each run.  Every command that another
process can come between is an action.  `Killed` stops a run at any point, with its
build or leaving it to go on alone (`KillMode=process`); `Leak` is a descriptor
inherited by a process that stays; `Person` is what people do upstream and in the tree.
Runs start, people edit, pull and push at any moment.  `met` is history: what a run went through that it cannot
see, another run that took the lock while it did (`"locker"`), another at work beside it, a
person who touched the tree after its look, a build some killed run left.  `Orphans` lets builds
outlive their script.

## Runs

| run | properties | shows |
|---|---|---|
| `account_store` | `TypeOK`, `CacheCoherent`, `SpentStaysSpent`, `AdminSurvives`, `BrokenNeverOverwritten`, `ImplementsTable` | but for the renames of overtaken processes, the store, its caches and its crashes behave as one table, ended credentials stay dead and somebody can always administer |
| `sessions` | `SessionsCurrent`, `RotationSpares`, `WithdrawnRefused` | a cookie proves only what is so now, through changes of accounts and restarts into other modes; a rotation ends the sessions of its role; a withdrawn signing key is refused once the cache runs out |
| `throttle` | `Deserved`, `RightOneGetsIn` | no key waits for another's failures; a member who keeps coming back gets in while strangers guess |
| `role_tier` | `NoEscalation`, `TierSurvives`, `PortalKept`, `CatalogueGuarded` | nobody hands out more than they hold, the tier and the portal are not left to nobody by the guarded steps, only the tier changes what a role confers, and what others add confers nothing |
| `territory` | `GroupsAdd`, `DamageWidensNobody`, `TurnedOffKnowingly`, `RollUpBlind` | reach only grows with groups, a damaged file widens nobody but under a process that never read one, the groups are not switched off under their holders but by such a process or by the built-in sent back alone, no figure depends on what its reader may not see |
| `batch_runs` | `LastCompleteTrusted`, `ToldMeansKept`, `HistoryKept` | the record under lost answers, failed saves, restarts, damage and a dropped run |
| `batch_loop` | `LoopEnds`, `RunsSettle` | every loop ends, no run reads "running" for ever |
| `walks` | `CompleteMeansAll`, `ReadOnce`, `WalkEnds` | what was told a total and calls itself complete misses no more rows than were removed meanwhile, or, told once or apart, than came or went; no block is read twice; every walk ends, over a service that repeats itself too |
| `report` | `HiddenHonoured`, `MarginHolds`, `RequestsEnd` | no answer shows what was hidden from first to last; no request meets an expired token unless it outlives the margin; every request ends |
| `reading` | `NoFalseAlarm`, `EachCountedOnce`, `ChartTrue`, `VerdictTrue`, `AdviceMeant`, `HiddenStaysHidden` | what the cards, the checks, the trace and the config tab say is true of the venue, a failed read raises no alarm, what is served holds nothing withheld |
| `deploy_update` | `OneDeployAtATime`, `EditsKept`, `EndsServing`, `CatchesUp` | one run at a time but for runs that met over the lock, edits kept that a run could see, rollback where nothing was changed beside the run, and a good commit served in the end |
| `policy_scope` (a violation) | `ScopeReaches` | a policy set that only an identity group names is not in scope, and the trace calls a username rejected that a policy matches |

`PROJECT.json` holds, for each property of a passing run, a mutant: one definition changed
as a bug in that code might change it, under which TLC finds the property violated.

### Bounds, and why they are enough

- `account_store`: two accounts, two names, one server and one command, from an empty file and from two
  files with two people.  The guards speak of an account and of another one; a cache
  goes stale by one other writer, and one rename overtakes one other.  `MaxStamp = 3` gives three
  writes: a grant, its loss and a return of what was lost.  `MaxCred = 6` gives those of the start
  and two more.  The theorems do without any of these bounds.
- `sessions`: three ids for two names, so that a name is deleted and given again;
  six configurations, among them one whose secret is another and three that differ from
  each other in one passphrase; two cookies, which is one of each role.  `MaxCred` gives three
  changes of credentials after those of the start.
- `throttle`: one address everybody shares, one member and one name nobody has: four
  keys and room for three, so that the table overflows.  A cap of 2 and a memory of 3 keep the delays
  growing, capped and forgotten apart.  `MaxCount` is where neither mode tells counts apart any more (its assumption).
- `role_tier`: two accounts, one entry of the people map, three roles, the documents of
  `MCRoleTier`: nothing built, a role below the tier, one above it, the tier moved, the
  tier dismantled, a user who may administer.  Each may come with no hidden block or with
  one that names a built-in and a role nobody stored.  `WholeDocuments`: the portal sends
  roles and people in every save, and the last-holder guard is skipped for a save without people.
- `territory`: two people, two customers with two venues and one, two groups that
  overlap and the built-in one, which one of the catalogues is alone; three writes of the file
  (damage, a start over it, a save, mend) and two runs.
- `batch_runs`: two runs, two venues, room for one run: a second run drops the first
  one while it is driven.  Two troubles (a failed save and a restart, or either twice).
  Outcomes `ok` and `partial`: `failed` differs from `partial` only in its name.
  Runs and venues are symmetric and the properties speak of all of them.
- `batch_loop`: one run over two venues with two workers, one trouble and one silence; no
  symmetry, because it is a liveness run.
- `walks`: pages of two rows of at most five, three pages (`identity_groups_all` asks for one more), a window
  of six rows, enough at five, three APs in the one answer: each stop of each reader is reached before
  the others on some list.  Two rows may appear, or disappear, or one of each: a row removed pulls one
  forward over a page boundary, a second one hides it.  `MaxAsked` is beyond every backstop, so it ends no walk by itself.
- `report`: two requests, one thread, tokens that last two ticks with a margin of one,
  one section and the one thing `config/detail` serves.  The waves hold the reads whose
  answers a later wave needs, and the many others as one.
- `reading`: some 8,300 venues of up to three access points, two switches, two ports, three
  networks, two policies: a venue where all is well and families that each vary one part
  through the cases its checks tell apart; at most one failed read per poll.  Addresses of
  6 bits, where masks, gateways, the bucket and the widest guess of `_smallest_network`
  keep their order.  Two SSIDs are the limit of a group.  Radios on
  channels the band has and on channels it does not; one VLAN setting that is a list.
- `deploy_update`: a timer's run and one by hand, two good commits, one that never
  answers and one that does not build.  Two troubles (failed fetch, kill, reboot, leaked
  descriptor) and two actions of people: a lock that is leaked and then killed, a push and an edit
  under a run.  A second run meets the first with no trouble at all.

`CHECK_DEADLOCK FALSE` stands where a bounded history ends: credentials, writes, runs, changes
used up, a walk that is done, a report that is served.

### Fairness

- `batch_loop`: a request is answered or given up on (the tunnel gives up
  after 100 seconds), a loop whose tab stays open goes on, and time passes
  (`STALE_SECONDS`).  Nothing is assumed of the tab, the stop button or the network.
- `throttle`: time passes (weak), and a member who is refused comes back often enough to
  meet an open door (strong, on `LoginRight`: the door opens and shuts as strangers guess).
  Strangers owe nothing.
- `walks`: a page that was asked for is answered, with rows or an error.
- `report`: the executor and the event loop run, and RUCKUS ONE answers every
  request or breaks the connection.  The client sets no timeout of its own, so this last is an
  assumption about the service and not a fact of the code.
- `deploy_update`: the timer fires (`OnUnitActiveSec`) and a script that
  is not killed goes on: its `curl` and its wait have limits of their own and the unit has
  `TimeoutStartSec`.  Nothing is assumed of people, leaked descriptors or builds left over.

## What is proved

Each theorem is for every value of the constants, from the module's named assumptions
and what is said here.  Where a module proves about two others it extends both, which is why
`Throttle`, `RoleTier` and `Report` call their specifications `ThrottleSpec`, `TierSpec` and
`ReportSpec`; each theorem is of one of the two.

**The account store**, from `RolesAssumption`, `NoRowAssumption`, `StartAssumption` (the
file the store starts from is one the store could have written) and `StoreAssumption`, whatever overlaps:

- `AccountTableProofs`: `TableInv` is an invariant of the abstract table.  That a spent
  credential is not in the table is not inductive: nothing in it says that a credential still
  in use is not issued twice.  `TableInv` adds that credentials are issued in order, that all
  in the table are distinct and already issued, and that a live account's id is used.
  `TableKeepsAdmin` needs the guards only: whoever loses the right leaves another who has it.
- `AccountStoreProofs`: `StoreInv` is an invariant of the store.  Type correctness and
  coherence of the caches are not inductive either.  `FileInv` adds that a stamp in a cache or
  in a snapshot is not ahead of the file's (`OldStamps`), and that a process about to change the file works
  on the file's own rows unless it was overtaken (`WorksOnFile`).  `TablesSound` says of *every*
  table, on the file or in the hands of an overtaken process, that its credentials are distinct and
  already issued and its ids used (`Sound`): an overtaken rename puts an old table back, and nothing after
  it may issue a credential twice.  From it `StoreTypes`, `CachesCoherent`, `StoreLeavesBroken`.
- `StoreImplementsTable`: with `users <- disk.users`, each operation of the store is that
  operation of the table, an overtaken rename aside, and every other step a stutter.
  `StoreSpentStaysSpent` and `StoreKeepsAdmin` follow step by step over this mapping.

**Sessions**, from `SessionsAssumption` and the table's assumptions.  `TableMoves`: every step is a step of
`AccountTable` or a stutter of it, so `TableInv` holds here too.  `SessionInv` adds `Signed`: a
cookie's signature is made over all that it says.

- `SessionsAreCurrent`: a cookie whose signature the account's key makes agrees with the
  row in role and hash; by `TableInv` a hash in the table is not spent.
- `RotationSparesOthers`: with two passphrases that differ, the keys of the two roles differ, and
  a cookie proves the role its passphrase opens.
- `WithdrawnKeysEnd`, from `NoneGone`: a fresh cache holds no key that had been withdrawn when one ran out.

**The throttle** (in `SessionsProofs`): `DelaysAreDeserved`, from `Earned`: no entry counts more
failures than there were, and under backoff no entry delays a key that has not used up its
free attempts.  Purges only forget, so they keep it.

**The role tier** (in `RightsProofs`), from `RoleTierAssumption`: `TypeOK` is inductive, and each action
property follows from it one handler at a time.

- `TierGuardsCatalogue` rests on two lemmas: `Normal`, that dropping unchanged built-ins leaves the same
  roles in force, and `Migration`, that a hidden block changes no role and adds only ones that
  confer nothing.
- `NobodyEscalates`: an answer is the work of the request's own handler (`OwnAnswer`), and
  each handler is either refused or gives what the guard looked at.
- `SomebodyAdministers` and `TierKeepsHolder`: somebody other than the account that is
  changed is left, and nobody touched them.  `TierKeepsHolder` assumes `WholeDocuments`,
  because a save with roles and without people passes `_guard_last_super` by.

**Territory** (`RightsProofs`), from `ReachAssumption` and `TerritoryAssumption`.  `Typed` is inductive.

- `UnionAdds` and `FiltersAgree` are about scopes alone: the union of groups reaches what
  any of them does, and a list filtered by a scope holds what the scope allows one by one.
  `GroupsOnlyAdd` is the first of these in every state of the server.
- `DamageIsHarmless`: `IsTheFile` says that a process that has held a policy has in memory what
  the file last said, whatever became of the file, and that one that has not has none.
- `SwitchedOffKnowingly`: what is saved without groups was sent without groups (`_guard_last_group` judged
  it), or with the built-in alone (`echoed'`), or left out by a process with none in memory (`Blank`).
- `RollUpsAreBlind`, from `NarrowedBlind`: the narrowed record is the same function whether or not
  what is beyond the scope was there; every figure is computed from it.

**Batch runs** (`BatchRunsProofs`), from `BatchAssumption`, for any number of runs, venues,
workers, troubles and silences.

- `CompleteIsTrusted` and `HistoryIsKept`, from `BooksInv`: the record in memory is the file's
  or newer unless the file was unreadable at the last start, and then nothing is written.
- `ToldIsKept`, from `AskInv` and `ToldInv`: what the dialog was told, *or an answer on its way says*,
  is in the file, and in memory too unless the file was unreadable.  The property alone speaks of
  the dialog and is not inductive, because the answer is written before it arrives.

**The deploy** (`DeployProofs`), from `DeployAssumption`.

- `OneAtATime`, with runs started at any time.  `LockInv`: a run at work that met no other over the lock
  (`Alone`) holds the lock of the file the path names, and that file names it; so whoever finds the lock
  held by it sees a live deploy.  `Leaks` bounds leaked descriptors by the troubles they were, so
  that a new file always has an inode.
- `EditsAreKept` assumes `~AllowDirty`, which is the script's own switch; `CleanInv`: a tree that is dirty
  under a run past its look was touched by a person since.
- `BadCommitsRollBack`, with any other runs and people: `ServeInv` says of a run that met none of them past its
  look that no build is left over and that a rollback builds and judges the commit it found;
  `WorkersMet`, that two runs at work have met.

**The walks** (`CollectionProofs`), from `WalksAssumption`, whose lists are finite: a tenant's are.
That a reader has all the rows says nothing of how it came by them, and is not inductive.  `WalkInv`
says what a walk knows at the head of its loop:

- `InTurn`: the pages asked for are the first, second, third the reader has, so that no block
  comes under two numbers (`PagesInTurn`; page 1 of an aliased query is page 0 again).
- `BlocksRead`: a sorted reader that keeps what it gets and goes on has only full blocks, and misses, of the rows
  that were there throughout and rank no higher than those it has, at most as many as were
  removed.  A row that appears only raises ranks (`RankGrows`), so what it pushes over a boundary it
  pushes into blocks still to come; one that is removed lowers the ranks after it by one (`RankShrinks`).
- `Told`: a reader with as many rows as it was told misses at most as many as it has rows that came or went,
  and one that was told apart was told of all that were there throughout.

`BlocksRead` and `Told` are of a service that honours the page asked for.  A reader that knows its rows
needs no blocks, and one whose query has no order can do without them only while no row came twice: with as
many different rows as there are it has each (`AsMany`, `DistinctMiss`).  From these follow
`CompleteHasAll` and `EachBlockOnce`.  The lemmas before them number a finite set of rows by rank
without an induction: ranks are onto because they are one to one (`RankOnto`).

**Requests** (`CollectionProofs`), from `ReportAssumption`.  `RequestInv` says of every request under way
that its token had more than the margin and loses no more than the request ages (`TokenLasts`), and that
what has been hidden ever since it began is hidden now and is not what its route serves unredacted
(`HiddenSince`).

- `MarginIsEnough`: the property speaks of tokens past their time; that needs the sum of both clocks.
- `HiddenIsHonoured`: the page reads the policy when it answers, the PDF when it begins; what is hidden
  from beginning to end is in both.

**A report** (`ReadingProofs`), from `ReadingAssumption`, which says what the parsers of the reads make
sure of: the fields a policy and an access point have, channels and addresses that are numbers, an order
that lists each gateway once, finitely many access points, answers for every id that is asked for, and the
shape of a document of recommendations.

- `NothingHiddenLeaves`: every one of the 34 checks goes by an id of the catalogue, found or crashed
  (`KnownIds` and the lemmas after it), so hiding an id hides its finding, its task and its part of the
  tallies; sections, columns and credentials follow from what `Redact` and `Scrub` make of any document.
- `VerdictsAreTrue`: a trace calls a name rejected or left to the default only when it read every policy of
  the set and none may catch it (`NobodyCatches`), and what the trace reads is the venue's own
  (`TracedPolicies`).  `SceneKnown` carries the assumption on the venues to every state.
- `ChartIsTrue`: a block is a run of slots cut at multiples of its width, so two of its slots
  are less than its width apart (`BlockNear`), and each slot of 20 MHz is a block alone (`AloneAt20`).
  A radio whose channel has no centre has no slot, and is on no block.
  A run has a beginning because every nonempty set of numbers has a least element, proved here
  (`LeastNumber`) from the library's well-foundedness of the numbers: an induction over data by its
  smallest counterexample, with no operator as a parameter.
- `DevicesCountedOnce`: `Counted` says of a grouping under way that each device it has taken is in exactly one
  row, every row holds somebody and, unless its net was clamped, everybody in it, and no net has two rows that are not
  clamped.  The rows the APs report, the row of each gateway in turn (`GatewayCounted`) and the row of a device alone
  (`LooseCounted`) keep it; that blocks of powers of two nest or are apart is `Nets`.
- `AdviceIsMeant`: what the roll-up says of a network and a key, group before level, is what `Meant` makes
  of the document alone (`NetworkMeant`), also where two groups share an id and the first keeps it
  (`GroupsKept`); members of a cluster differ in nothing a row shows (`ClusterRows`), and `DifferencesSaid`
  is the rest: what they differ in, `BuriedKeys` excepted, is in `varies`.
- `AlarmsAreTrue`: `Backed` says of two findings that one raises no more than the other.  Every finding over what
  was read is backed by the same check's over what the venue holds, or is silent, or is one of the 11 `Takers`
  (`FindingsBacked`); one lemma per card.  A read that failed is its empty answer (`ReadOrEmpty`), so a set of rows
  is whole or empty, a pool or a VLAN is there only if the venue has it (`FewerPools`, `FewerVlans`,
  `NarrowerScope`), and a RADIUS group is in use only by a policy that was read (`RadiusBacked`).

Every invariant and every action property of a passing run is a theorem.  Only the liveness properties
(`LoopEnds`, `RunsSettle`, `RightOneGetsIn`, `WalkEnds`, `RequestsEnd`, `CatchesUp`) are only model-checked: they
need fairness and with it ENABLED, out of the prover's reach.

No module uses a RECURSIVE operator, for the prover loses its SMT backend where one is declared.  What the code
does in a loop that carries a result (the placing of addresses under gateways, the powers of two) is a recursive
function, and what is proved of every step of it is proved by the smallest step where it would fail.

## Where the code and what is said of it part

One divergence is a run.  `policy_scope`: `scoped_policy_set_ids` (`shape.py:3154`)
collects the sets that pools and identity groups' rows name, but those rows carry no
set; a set that only an identity group names is in nobody's scope, and the trace, which
follows the group, finds none of its policies.

The others were met while modelling.  The properties are stated so as to hold of what the
code does, each exception by a name of its own (`OvertakenWrite`, `Blank`, `echoed`, `met`, `gone`,
`BuriedKeys`): strike it out of the property and TLC shows, under the same cfg, how the code gets there.
This list says where that is less than what is written.

Accounts, sessions and the throttle:

- The last-admin guard does not hold across the server and the command line
  (`README.md:264-265`): two operations that overlap may each count the other's admin, and the later
  rename leaves none.
- `accounts.py:699-702` has the re-read make the command line safe beside the server; an account it adds
  between the server's re-read and rename is dropped, and a credential ended there comes back.
- `auth.py:478-479` says that only whoever guesses at a name pays for its delay, but the delay is asked
  before the password (`auth.py:1404`): guesses at a name delay its owner.  A
  change of password with a wrong current one is counted and never made to wait.
- At the limit of tracked keys the whole table is dropped, counts of blocked keys included.
- Disabling an account and enabling it again revives its old cookies; hashing a password anew at
  login ends the account's other sessions.
- `main.py:171` and `191` send operators of accounts mode to the admin passphrase, which that mode does not take.

Roles and territory:

- At the accounts door nobody is stopped from taking away what they do not hold
  (`accounts_router.py:102` against `grants.py:138-143`), and a save of the roles may leave nobody with
  `admin.portal` (`admin_router.py:351` against `grants.py:120-121`).
- Disabling or deleting the last holder of `admin.roles` is not guarded and reopens the
  bootstrap rule; an entry of the people map claims the tier in accounts mode though nobody can
  sign in as it, and outlives its account; a save with roles and without people skips the guard
  (`admin_router.py:184-185` against `234`).
- Rule 1 compares `body.roles` (`admin_router.py:169-182`), and the save takes `body.hidden` too
  (`366`), of which `_migrate_hidden` makes roles: a caller with `admin.portal` alone adds roles, though
  ones that confer nothing, against `grants.py:137`.
- A catalogue that holds only the unchanged built-in group is stored as none, and `_guard_last_group`
  (`admin_router.py:376`, `396`) takes it for a group: the model is off, and everybody unrestricted, while people
  hold groups.  The portal leaves the built-in out (`AdminRoles.tsx:178`); another caller need not.
- An unreadable policy file leaves nothing in force after a restart, and then everybody is
  unrestricted, though `scope.py:11-12` has losing a definition widen nobody.  A save by such a process
  that leaves groups and people out writes a file without them, though `visibility.py:815` has an omitted
  block left alone.  A file that is JSON and no object raises `AttributeError` in `_load`.
- `_strip_checks`: a venue listed as clean for a reader may have tasks of a check hidden from that reader.
- A runner with a narrow scope narrows the directory of the customer for everybody (`AdminBatch.tsx:309`, `366`).

Batch runs and the deploy:

- A venue whose answer was lost is on record although the dialog calls it not recorded (`AdminBatch.tsx:408-411`).
- A second run between `flock` and the writing of the pid takes a live lock for a leaked
  one, and two are at work (`prism-update.sh:153`, "One deploy at a time"); an edit between the look
  (`205`) and the reset (`357`) is thrown away (`14`, "It will not touch a dirty working tree"); a build may
  outlive its script and meet the next one; after a pull by hand a rollback goes to
  the tree's commit, which may be the one that failed, and not to the one that was served.

Collection:

- Units and identity groups are walked with no sort order and counted with what is repeated (`fetch.py:209-210`,
  `785-786`), though `fetch.py:883-890` and `switches.py:15-19` say that unsorted pages repeat and lose rows: such
  a walk may call itself complete and miss a group, over a list that does not change.  Over a sorted list
  a row removed under the walk pulls the next one past the reader, whose count is then right.
- A walk whose first page failed was told no total and calls itself complete (`fetch.py:797-799` against `777`), and
  an answer that `_json` replaced by its default is an empty section (`fetch.py:100`), though `fetch.py:16-17` says "never".
- The token endpoint's JSON without a token becomes `Bearer None`; requests have no
  time limit; `get_msp_ecs` sends no page size; the switch walk's `completeness` is never used.
- Of the 34 checks, eleven take a failed read for an empty venue (`Takers` in `Reading`), though
  `checks.py:4-7` has a check that could not run say so.  The other 23 never do (`NoFalseAlarm`).

Report, trace and config tab:

- A cluster's representative speaks for all its networks (`shape.py:2311`), whose VLANs, DPSKs,
  passphrases and names may differ; `AdviceMeant` leaves those settings out and asks that the row say which
  vary.  The row does so for settings that are one value (`2242`) and not for lists and trees, which the
  fingerprint strips all the same (`2209-2213`); `2221-2223` promises the reader the ones that truly vary.
- `aps_in_group` falls back to the group's name; an activation on some groups that names
  none is counted on the whole venue by `ssid_rows` and on no group by the limit per group.
- `_smallest_network` stops at /16, so an inferred subnet may not hold its devices; rows
  of subnets depend on the order RUCKUS ONE lists gateways in; "every AP sits in X" is said with an AP offline and without an address.
- PoE draw is summed by the switch's name; wired clients match an AP by
  `neighborPortMacAddress`, other cards by more; `slowLinks` stops at 25.
- Radios of 40 MHz on 2.4 GHz, those on a tail that bonds with nothing and those on a channel whose centre
  is not known are in no block of the chart.
- In the trace a policy of a higher priority whose conditions were not read is not
  flagged, a failed read of members is an empty set, and `unclaimed` is said when not everything was read.

Redaction and baselines:

- The download reads what is hidden before it waits for the reads, the page after (`prism_router.py:241` against
  `237-239`): a section hidden meanwhile is in the download.
- `config/detail` is refused when all three of its sections are hidden and served whole when
  any is not (`prism_router.py:294`), though `sections.py:17-23` has the filter and not the page enforce.
- A hidden column may be read in the evidence and scopes of findings; a crashed check's finding survives
  hiding; with `overview.verification` hidden the punch list says that nothing is outstanding.
- An unreadable baseline file keeps the last values although the log says that the column is empty; the
  editor's document replaces the file without asking for its version.

## Not modelled, and why

- `api/r1api/services`: one method per endpoint, which builds a request and returns
  its answer.  What is decided there, the walks over pages, is in `Walks`.
- Signing in to RUCKUS ONE as another tenant, and retries by status: no state outlives the call.
- Wording, labels, the cards of venue settings and ports as rows, the PDF's layout: nothing to
  check beyond their text.
- The file of baselines and its editor: one document replaced as a whole, as above.
- The pages of the portal but for the batch dialog.  Nothing orders the answers of two polls
  (`PRISM.tsx:642`): the report of a venue chosen before may appear under the one chosen since, and
  the code makes no promise about it.
- Proxy mode's identities in `RoleTier`; the versions of the policy file and its retired keys; the
  gate's list of paths that need no session.
- The application's start, logging and configuration, and scripts that only print.
