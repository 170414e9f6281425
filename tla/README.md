# bcpfs: models and proofs

This directory specifies the core of bcpfs in TLA+: `bcpfs-perms`, which keeps
the toplevel directories of a filesystem, their ACLs and the sharing between
org units in line with a configuration file, and `bcpsucd`, the privileged
daemon that sets quotas.  The modules are translated from the Go sources and
the shell scripts embedded in them; `PROJECT.json` names, for each definition,
the lines that it models.

    tlc -config Nesting.cfg MCNesting.tla     # model-check a run
    tlapm NestingProofs.tla                        # check the proofs

Each `.cfg` is a run of the same name.

## The system

| component | state | operations | talks to |
|---|---|---|---|
| configuration, organization (`bcpcfg`, `bcp`, `grp`) | none beyond a run | validate the config, list, deduplicate and sort Unix groups, combine both | all the others, as their input |
| filter (`bcpfilter`) | none | decide whether an org unit uses a service | apply, check |
| apply (`fsapply`) | toplevel directories, ACLs, symlinks | one mkdir, setfacl or symlink after the other | check, sharing (same files), users |
| apply, recursive (`fsapply/apply-sh.go`) | owning groups, SGID bits and ACLs of all that is below | four pipelines `find`, `xargs` | sharing (same ACLs), users |
| check (`fsck`) | none | compare the filesystem with the expected entries | apply |
| sharing, compilation (`bcpsharing`) | none beyond a run | check exports, compute real shares, traversal, trees | real shares, traversal, trees |
| sharing, nesting checks | a tree of prefixes, during the check | enter paths, return early | compilation |
| sharing, real shares and traversal (`bcpsharingapply`) | ACLs of all files below shares | read ACLs, run `find`, `xargs`, `setfacl` | apply (same ACLs), users |
| sharing, trees (`bcpsharingapply`) | directories and symlinks below `<org>/<ou>/shared` | walk, remove, create | compilation, users, other runs |
| daemon (`bcpsucd`, `grpcd`, `quotad`) | socket, goroutines, calls, quotas of the kernel | listen, SetQuota, shut down | `bcpctl`, `setquota` |
| credentials, status, ping, scripts, libraries | none | see `PROJECT.json` | |

What makes it hard:

* Nothing is locked and nothing is transactional.  A run of `bcpfs-perms` is a
  sequence of commands on a filesystem that users work in, that another run may
  work on, and of which the state is all that the next run knows about this one.
  Whether repeated runs lead to the configured state, from whatever kills,
  failures and former configurations have left, is the central question.
* Decisions are made from what has been read earlier: ACLs of directories stand
  for all that is below; a walk decides what is removed later.
* ACL entries have several owners: `apply` sets those of the managing groups,
  sharing those of others, in the same ACLs.
* Path arithmetic: two logical paths may lead to one directory, prefixes decide
  who manages it, and the number of `..` whether a link leads anywhere.
* Three parts of the program read the same configuration on their own and have to
  come to the same result: `bcp.New()`, `bcpsharing.NewBcpfs()` and the filter.
* The daemon has goroutines that meet only in the gRPC server, commands that
  outlive their callers, and a shutdown that is to be graceful and bounded.

## Modules

| module | models |
|---|---|
| `Paths` | prefixes of paths |
| `NestingSpec`, `Nesting` | `checkNoNesting()`, `checkNoRealpathNesting()`: what they promise, and their loop with its tree |
| `NestingProofs` | theorems about `Nesting` |
| `Bcpfs` | `bcpsharing.Bcpfs`: realpaths, managing groups, names of groups |
| `SharingProducts` | the pure functions of the compilation |
| `SharingCompile` | `Compile()`: checks in their order, then the products |
| `SharingCompileProofs` | theorems about `SharingCompile` |
| `SharingApply` | `EnsureRealShares()`, `EnsureTraversal()`, with their pipelines |
| `SharingApplyProofs` | theorems about `SharingApply` |
| `ShareTrees` | `EnsureShareTrees()` |
| `ShareTreesProofs` | theorems about `ShareTrees` |
| `ListOps` | the loops over lists that `SharingProducts` and `Organization` share |
| `Toplevel` | organization and filter, shared by the next ones |
| `FilterPatterns` | the anchored expressions of filter rules |
| `Organization` | from the config file and the Unix groups to the organization; composes `Toplevel`, `Bcpfs` and `FilterPatterns` |
| `OrganizationProofs` | theorems about `Organization` |
| `Fsck` | `CheckPermissions()`, a predicate on a filesystem |
| `FsApply` | `EnsurePermissions()` |
| `FsApplyProofs` | theorems about `FsApply` and `Fsck` |
| `Recursive` | `apply --recursive` below one toplevel directory |
| `RecursiveProofs` | theorems about `Recursive` |
| `QuotaService` | what `bcpctl setquota` promises |
| `Sucd` | `bcpsucd` and its clients, which implement `QuotaService` |
| `SucdProofs` | theorems about `Sucd`, the refinement among them, and about `QuotaService` |
| `MC...` | instances for TLC |

`NestingSpec` is the abstract specification of `Nesting`: a verdict that looks at
all pairs of paths.  `Nesting` instantiates it and TLC and TLAPS check that it
implements it.  `QuotaService` is that of `Sucd`: calls set their lines one by one, may be
given up at any time, and are answered ok only when all lines are set; TLC and
TLAPS check that the daemon with its shutdowns, crashes and orphans implements
it.  `Fsck` plays the same part for `FsApply`: the code of `fsck`
"deliberately shares little code with `fsapply`", and `CheckAcceptsApplied` says
that what a successful run leaves passes the check.  `MCSharingApply` and
`MCShareTrees` compose the models of what is applied with the model of the
compilation: their configurations are compiled from exports by the operators of
`SharingProducts`.

Operators that are preceded by a comment "A bug: ..." are not part of the
models.  Each is a mutated form of a definition; `PROJECT.json` lists, for each
property of a run, the mutation that it detects.

### How the models correspond to the code

**Nesting.**  A path is a sequence of names.  `tree` is the map of the same name;
an action is an iteration of the loop over prefixes, or the end of
`checkPath`.  The check of realpaths differs in how it treats duplicates
(`dupsAllowed`).

**SharingCompile.**  An action is a call that `Compile()` makes.  The patterns of naming
policy and imports are the sets of paths that they match.

**SharingApply.**  `acl` and `dfl` are the named group entries of each file, `mask`
the mask of its ACL.  `getfacl` at the start of a phase is a step that fills
`facls` (or fails, when a line has an `#effective` comment).  A pipeline is two
kinds of steps: `find` lists the paths, then `setfacl` visits the next path, a
directory before what is in it, siblings in any order.  A file that has gone
makes `xargs` return an error after the rest has been visited.  New files inherit
the default entries and the default mask of their directory.  Removal of a group removes the entry and the default entry.
Failure of a run is `End("failed")`; the next run starts from the configuration
file and the filesystem alone.

**ShareTrees.**  The state of a run is the walk (a position, `existing`, `rm`), then
the list of what is removed, then of what is created.  Each `Remove`, `Mkdir`,
`Symlink` is a step and fails as the system call would.  Two runs may overlap.

**FsApply.**  `ProgramOf` is the list of operations that a configuration leads to, in
the order of `EnsurePermissions()`; `pc` walks through it.  A script is several
operations: mkdir (with its chown and chmod), `setfacl -M`, `setfacl -X`.  mkdir
inherits the default ACL of the parent.  `-X` recalculates the mask.  An
operation that fails ends the run, as `st.err` and `ot.err` do.  `NotEmpty` are the
directories with something in them, which `os.Remove()` refuses.

**Recursive.**  The attributes of each file are a record of what the scripts look at and
set: owning group, SGID bit, whether the owning group and others are shut out,
ACL, mask, default ACL, default mask.  A pipeline is a `find`, which lists what is
to be visited, and visits in the order of the list as far as it matters; a file
that has gone sets `broken`, and the pipeline fails when it is through
(`pipefail`).  `Inherited` is what the kernel gives to a new file.  The script for
the toplevel directory is one step, as `FsApply` has it in detail.

**Organization.**  `pc` walks through `MustLoadConfig()`, `MustLoadGroups()` and
what follows by `command`: `apply` (and `check`, which begins in the same way)
ends if `unconf` reports a service that no facility lists, otherwise
`MustCompileFilter()` is next; `describe` prints the organization, and ends so only with
`--strict`.  The loops of `SelectGroups()` and `DedupGroups()` are a step
for each group, with the maps `byName` and `byGid`.  A name is a sequence of
syllables, so that prefixes, suffixes and patterns are computed as in the code,
not assumed.  `Apply` and `Sharing` are instances of `Toplevel` and `Bcpfs` on the
result: the one has the organization, the other, as `NewBcpfs()`, the
configuration alone.

**Sucd.**  `main` is where `main()` is; `serving` is the goroutine of `Serve()`.
`Files` are the files that clients read, line by line: Parse() skips comments,
refuses the file for an invalid line, and never sees what follows a line that the
scanner does not take.  Each call has a handler and a command of its own, whose steps are lines of the
batch.  `socket` is the file: a killed daemon leaves it "stale".

## What the runs check

| run | question | bounds |
|---|---|---|
| `Nesting` | does the tree mirror the paths; does the loop implement its specification, that is, come to the right verdict | both checks, all lists of up to 3 of the 14 paths of depth up to 3 over two names: enough for a leaf above, below and beside inner nodes, and for the early return to meet a chain |
| `SharingCompile` | what the products grant; do links, traversal and trees fit together; do managing groups depend on the directory only; when do ACLs and traversal spare them | lists of up to 3 exports of 8 paths and 5 ACLs, 2 naming policies, 2 import filters: pairs of paths to one directory, nested, too short, duplicate groups |
| `SharingApplyBetween` | is each share applied to all that is below it, when users act between runs only | 9 paths, 5 groups, 5 acts; the configuration and masks may change at any step |
| `SharingApplyMidRun` | what holds with users, configurations and kills at any step; do runs converge | 3 acts at any step, shares by both paths of a directory |
| `ShareTrees` | do trees become what is configured; are right files left alone; do overlapping runs converge | 2 runs, 2 configurations with a link in one where the other has a directory, 1 act |
| `FsApply` | does `check` accept what `apply` leaves; do entries of sharing, links, and access of users stay; do runs succeed at last | 3 configurations, 3 acts |
| `Recursive` | does a run repair what is below, and is what users create afterwards right by inheritance; do entries of shares stay; do runs succeed at last | 4 files (a directory with a directory and a file in it, a link), 4 policies, 2 kinds of foreign attributes, 3 acts |
| `Organization` | are conflicting groups found; does the organization have each service that a facility lists, complete, and report the others; does the filter decide what the rules say; does sharing manage what apply has set; is what apply and check get what they rely on | 22 config files, half of them invalid in one way each, 218 group databases: two orders of a good one, each group missing, each of 11 groups inserted at each place or in place of one; 3 commands |
| `Sucd` | do answers mean what they say; does the daemon implement the abstract service; is the exit graceful; no `log.Fatal()`; does SIGTERM end the daemon, and the next one come up | 3 calls of 2 clients, files of 3 lines, one of them a comment, 2 stops |

Acts are what users, the administrator, or a kill do besides; `MaxActs` bounds
them over a behaviour, while runs go on for ever.  After the last act the system
has all the time it needs, so that convergence is a real question; three acts
suffice for a kill, a change of the configuration and a user who gets in the
way, in any order.  `MaxCalls` and `MaxStops` do the same for the daemon: one client
calls again after its deadline while the other one's call is under way, and a
daemon is killed and the next one told to stop while an orphan goes on.

### Disagreements

Three runs end with a counterexample.  Each shows a statement of the sources that
the code does not keep; `PROJECT.json` quotes them under "findings".

| run | property | in short |
|---|---|---|
| `SharingApplyMasked` | `RunsConverge` | `#effective` makes every later run fail |
| `FacilityOwnership` | `FilterDecidesAsConfigured` | the owner of a service is found by a prefix of a name: `em2-facility` for `em` |
| `SucdHung` | `ShutdownEnds` | the grace period starts after what it is to limit |

The passing runs of the same properties use instances without the cause.

Two more statements about services are not kept.  Their invariants are in
`Organization`, next to `ServicesAreComplete`; either of them, added to the `INVARIANTS` of
`Organization.cfg`, is violated on the instance as it is.

| property | the sources | the code |
|---|---|---|
| `NewGroupsAreHarmless` | "`bcpfs-perms` handles service Unix groups that are not mentioned in the configuration gracefully, so that new Unix groups can be added without affecting cron jobs that still use the old configuration" (`CHANGELOG.md:88-90`) | `cmdApply()` and `cmdCheck()` end by `logger.Fatal()` when there is such a group, before they look at a directory (`main.go:150-156`, `:212-218`): a cron job that runs `apply` does nothing from then on.  Only `describe` without `--strict` goes on (`main.go:319-343`) |
| `OwnedBySingleFacility` | "Every service must be owned by a single facility" (`bcp.go:34-35`), "must be assigned to exactly one facility" (`generic-example-bcpfs.hcl:54-56`) | `parseServices()` puts services into the map `facilityBySrv` without looking whether they are there (`bcp.go:226`): the last facility that lists a service has it, with its access policy and its ops group, and `apply` goes on |

`ServicesAreComplete` is what `bcp.New()` does keep in both cases, whichever command goes
on with it: a service that two facilities list has everything from one of them, and one
that no facility lists is reported and takes nothing from the others.

Other passing properties have causes that their instances leave out, too; the right
column says what to change in the `.cfg` or the MC module to see the property
violated.

| run | property | holds unless | to see |
|---|---|---|---|
| `SharingCompile` | `OwnPathsSpareManagers`, as `ManagersAreSpared` | an export path is `<facility>/<service>/<ou>`: the scope check (`bcpsharing.go:566`) compares the first component, and the managing org unit is the last | `ExportPaths <- FacilityPaths`, `INVARIANTS ManagersAreSpared` |
| `SharingCompile` | `ManagersOfDirectory` | an export path has a leading slash: `compileExports()` takes the managing groups from the untrimmed path | `ExportPaths <- SlashPaths` |
| `SharingCompile` | `LinksLeadToShares` | an export path names a facility that does not operate the service, which `Realpath()` does not look at | `ExportPaths <- ForeignPaths` |
| `SharingApplyBetween` | `SharesAreApplied` | a run is killed in a pipeline: later runs find the directory of the share as it should be | `"kill"` in `Acts` and `ActsMidRun` |
| `SharingApplyBetween` | `SharesAreApplied` | a file is created between `find` and `setfacl` | `"create"` in `ActsMidRun` |
| `SharingApplyBetween` | `SharesAreApplied` | a share moves to a directory above: what is below is not looked at | `Exports <- ExportsNested` |
| `SharingApplyBetween` | `SharesAreApplied` | an org unit is shared as a whole: its traversal entry replaces the one of the share in each run | `Exports <- ExportsOfTop` |
| `SharingApplyMidRun` | `SettledIsFixpoint` | an export ACL names a group twice: `faclNeedModify()` misses one of the two entries in each run | `Exports <- ExportsTwice` |
| `FsApply` | `RunsConverge` | a service gets another facility: the destination of the link differs, and `os.Symlink()` fails in each run (`apply-ou.go:114`) | `Config <- MCNewFacility` |
| `Organization` | `SharingManagesAsApply` | `opsSuffix` or `facilitySuffix` are configured: `NewBcpfs()` and `FsGroups()` have suffixes of their own (`bcpsharing.go:288`, `:311`) | `opsSuffix` in `Good` |
| `Organization` | `SharingManagesAsApply` | an org unit has a subdir with the name of a service | `subdirs` in `Good` |
| `Organization` | `FilterDecidesAsConfigured` | a rule has a single pattern with alternatives: `^a\|b$` is anchored at one end each (`bcpfilter.go:150`) | `Files <- MCFilesBar`, `Databases <- MCDatabasesBar` |

Others are visible in the models without a property.  `RemoveUnexpectedLinks`
removes the explicit symlinks in directories of org units, which the end of each
run creates again.  A second block for an org unit replaces the directories of
the first one (`bcp.go:362`).  A group `srv_x-ops` is never a service, whichever
facility lists `x-ops`.  A line that is too long for the scanner ends a file of
limits without an error (`quota.go:62`): `LimitsOf` with "too long" in `Files`.

### Fairness

* A run that has started goes on (`WF` of its steps): a process is scheduled.
  Kills are acts and not fair.
* Runs start again and again (`WF` of `StartRun`): `apply` is meant to be
  run periodically.  The configuration and users are not fair.
* The goroutines and handlers of the daemon are fair, and so is its restart,
  which the repository leaves to an init system.  Commands are fair unless
  `Hangs`; clients and signals are not.

* The start of `bcpfs-perms` (`Organization`) is sequential: `WF` of all its steps.

`CHECK_DEADLOCK FALSE` stands where the system stops: a compilation, a check or the
start ends, and a daemon is idle when clients have made their calls.

## What is proved

TLAPS checks the proofs for every value of the constants under the named
assumptions.

**NestingProofs** assumes that paths are non-empty sequences, closed under prefixes,
and that the lists are lists of paths (`PathAssumption`, `ListsAssumption`).

* `TypeCorrect`: `Spec => []TypeOK`.
* `MirrorCorrect`: `Spec => []TreeMirrorsPaths`.  The tree has a leaf for each path
  entered and an inner node for each of their proper prefixes.  While a path is
  being entered, its prefixes are there only from some level down; the inductive
  invariant says from which.  The early return of `checkPath` is right because
  the node that it meets has all its prefixes in the tree already.
* `VerdictCorrect`: `Spec => []VerdictIsRight`.  Nested paths among those entered
  would be one node that is both leaf and inner node.  The run checks it as part of
  `Implements`.
* `LoopImplementsSpec`: the safety part of `Implements`, the refinement of
  `NestingSpec`: initial states are initial states, steps are steps or stutters.

**SharingCompileProofs** assumes that lists are lists, that export paths have names
between the slashes, none of them `..`, and that modes are modes (`ConfigAssumption`: the
parser and the cleaning of paths see to it); that org units and services are in directories
of their own, and that each service is that of a facility (`DirAssumption`: `NewBcpfs()`).

* The loops of the code are folds of sequences.  `FoldExists` and `LoopInduction` say
  that they have a value and what carries over from step to step; `AclUnionFacts`,
  `MergeEntriesFacts`, `FlattenFacts` and `PassingFacts` what each loop amounts to.  `Merges` is
  the invariant of the merging loops: each entry of the result is made of entries of its path, whose
  permissions it has together, none is lost, and it keeps the other fields of one of them.
* `StagesFollow`: `Spec => []SInv`, the inductive invariant: at each stage the exports are
  what the checks so far have let pass, and in the end the products are made of these.
* `TypeCorrect`: `Spec => []TypeOK`.
* `AccessIsGrantedAndImportedCorrect`: `Spec => []AccessIsGrantedAndImported`.  The import
  filter takes the first rule that applies (`ImportedFacts`), and merging realpaths that
  several exports lead to changes nobody's permissions (`MergedPermissions`).
* `TreesAreTreesCorrect`: `Spec => []TreesAreTrees`.  A file that replaces another one at
  its path has the same target (`TreeIsExact`), because exports that have passed
  `checkNoNesting()` do not nest.
* `ManagersOfDirectoryCorrect`, `OwnPathsSpareManagersCorrect`: under `PlainPaths`, export paths
  without slashes at the ends.  A real share keeps the managing groups of one of its
  exports; those of each are determined by its realpath (`ManagingFacts`).
* `TraversalSparesManagersCorrect`: `Spec => []TraversalSparesManagers`.  Nobody compares the groups of
  a traversal entry with those that manage the directory.  It is right because the guarded
  directories above a real share have the managing groups of the share itself
  (`ManagersOnTheWay`), which the scope check has kept out of its ACL unless the path is that of
  a facility (`OwnPathsAreScoped`).
* `TraversalIsNarrowCorrect`, `LinksLeadToSharesCorrect`, `SharesAreReachableCorrect`: under
  `OwnFacilities`, the path of a facility leads to a service of its own.  Then the service links
  and `Realpath()` agree (`ResolveFacts`).  `LinkLeads` goes through a relative target part by
  part: its `..` lead up to `<org>`, from where the path of the share goes on.
* `CompiledMayBeApplied`: under `PlainPaths`, what is compiled without an export by the path of a
  facility is as `SharingApply` and `ShareTrees` assume of a configuration in their
  `ConfigAssumption` (`MayBeApplied`): whatever is below a real share is managed by the managing groups
  of the share and by no others (`ManagersBelow`), no entry is for one of them, on a share or on the
  way to it, and the file of a tree is in its root or in a directory of it.  The
  theorem has `ManagersOf` where `SharingApply` has `Managers`, the groups that `apply` has given entries.
  With an export by the path of a facility the conclusion may be wrong (`ManagersAreSpared` in the table above).

Neither hypothesis can be dropped: `SlashPaths` and `ForeignPaths` in the table above are their
counterexamples.  `OrdinaryPaths`, which TLC evaluates in each run, says that the exports of the
passing run satisfy both.

**SharingApplyProofs** assumes of the configurations (`ConfigAssumption`) that they
name managing groups of a directory in no ACL and list them as managing groups.
`Compile()` guarantees it for exports by paths of org units without stray
slashes, as the theorems on `OwnPathsSpareManagers`, `TraversalSparesManagers` and
`ManagersOfDirectory` say, and not otherwise (`FacilityPaths`, `SlashPaths`).

* `TypeCorrect`: `Spec => []TypeOK`.
* `ManagersUntouchedCorrect`: `Spec => ManagersUntouched`.  What a run modifies
  comes from an ACL, and what it removes is no managing group of the share.  The
  inductive invariant ties the parameters of a running pipeline to the
  configuration of the run, for every file that it has yet to visit.
* `ManagersKeepAccessCorrect`: `Spec => []ManagersKeepAccess`.  Every file has the
  entries of the managers of its toplevel directory, because it has inherited
  them from a directory that had them by default.
* `RunsKeepGrantsCorrect`: `SharesApart => (Spec => RunsKeepGrants)`.  `SharesApart` says that
  shares do not nest, which is the verdict of `Nesting`, and that no share contains a
  directory with a traversal entry.  All instances satisfy it but `ExportsOfTop`, an org
  unit that is shared as a whole, where the traversal entry does take away
  what the share grants.  The proof needs that the pipeline for files visits no
  directory, and that the entries of a directory come from one share.
* `SettledIsFixpointCorrect`: `SharesApart /\ PlainShares /\ MasksSuffice => (Spec =>
  []SettledIsFixpoint)`.  `PlainShares` says that shares are directories whose ACLs name a
  group once, and none that manages them; `MasksSuffice` that masks let pass what is
  granted and no user changes them (`SharingApplyMasked` is without it).  Nothing is assumed of earlier
  runs: they may be killed, or users come between.  The invariant `TopInv` follows a run that nothing
  has disturbed so far: the directory of a share that is still ahead is as it was when
  it was read, so that the pipelines do what is missing; one that has been
  passed is as its share wants it, and stays so, because no other pipeline and no
  traversal entry comes near it; a traversal entry that is missing is still to be set.
  `MaskInv` adds that masks stand, so that nothing that is read is masked.
* `SharesAreAppliedCorrect`: `SharesApart /\ SharesStayPut /\ PlainShares /\ InitiallyEven /\
  RunsUndisturbed => (Spec => []SharesAreApplied)`.  A run looks at the directory of a share alone,
  and leaves what is below if that is as it should be.  What makes this enough is the
  invariant `BelowInv`: in a directory that may be shared, all that is below
  has the default entries of the directory, at any time but while a pipeline is
  going through it; of the pipeline it says what has been visited and what is
  still ahead.  A file that is created takes over the default entries of what it is in.
  The hypotheses are those without which the property fails, and the table above has the
  counterexamples: a kill, a file created or removed in the middle of a run
  (`RunsUndisturbed`; configurations and masks may change then), a share that moves above another or above a
  traversal entry (`SharesStayPut`), an org unit that is shared as a whole (`SharesApart`), an ACL
  that names a group twice (`PlainShares`), and directories that differ to begin with (`InitiallyEven`).

`MCSharingApply` has `OrdinaryExports`, an assumption that TLC evaluates in each run: the
exports of the passing runs satisfy all hypotheses on configurations.

**ShareTreesProofs** assumes that each org unit has a tree of its own, roots that do not
nest, and trees in which every file is in a directory of the tree (`RootsAssumption`,
`ConfigAssumption`; the latter is `TreesAreTrees`, a theorem about `SharingCompile`); that the files
that may exist are below the roots (`NodeAssumption`); and that files are in
directories at the beginning (`InitialAssumption`).

* `TypeCorrect`: `Spec => []TypeOK`.  What files are in stays a directory, because only
  childless files are removed and files are created only in directories.
* `TreesAreAppliedCorrect`: `Spec => []TreesAreApplied`.  The invariant says of a run that
  is alone, at each file of its walk: what it has found to be right is right; what
  it is going to remove is in its tree and is not; every other file of the tree
  is still ahead, at or below a path that it has yet to visit; and the trees
  before are applied.  The last part holds because a path is in one tree only.
* `RightFilesStayCorrect`: `Spec => RightFilesStay`, from the same invariant.

The order of removals and creations matters only for getting to the end, that
is for `TreesConverge`: no theorem uses `SortedAssumption`.

**OrganizationProofs** assumes that databases are sequences of lines
(`DatabasesAssumption`), that files are records with the blocks of each kind
(`FilesAssumption`), that the separators and default suffixes are among the
syllables (`SyllablesAssumption`), that all names are sorted (`NameOrderAssumption`), and
that no facility is called `NoFacility` (`NoFacilityAssumption`).

* `TypeCorrect`: `Spec => []TypeOK`.
* `DedupCorrect`: `Spec => []DedupIsRight`.  The invariant says of each place in the
  loop that the groups before it are those of the result, that the maps hold
  these, by name and by gid, and that no two of them conflict; so that a group
  that is in conflict with any of them is found in one of the maps.  What the
  selection loop hands over is the set of selected groups.
* `ServicesCorrect`: `Spec => []ServicesAreComplete`.  The invariant `OrgInv` says what has been
  settled at each place: that `bcp.New()` gets the selected groups, each once and none in
  conflict (`Chosen`, from `DedupIsRight` and `SortFacts`: a stable sort is a
  permutation), and that what it returns is right in each part (`OrgIsRight`) and has the
  services of facilities and reports the others (`HasAll`), whatever the command does then.  The rest is about names: what
  prefixes and suffixes take away, concatenation puts back (`PrefixFacts`, `SuffixFacts`), so
  that different groups give different names, and a service has the ops group that its
  facility is given by the last block that lists it (`FacilityFacts`).
* `FilterCorrect`: `Spec => []FilterDecidesAsConfigured`, if patterns outside lists have one
  alternative (`OneAlternative`) and the org unit of a facility begins with the name of no
  other one (`FacilitiesApart`).  `ConfigInv` adds that the configuration is what
  `MustLoadConfig()` has made of the file.  An anchored alternative matches whole names
  (`AlternativeFacts`), so that the first compiled rule that matches is the first rule
  that is about the service and the org unit; a prefix that is not the facility itself
  is what the second hypothesis excludes.  Both are needed: without the second one there
  is the run `FacilityOwnership`, and the first one is in the table above.
* `SharingCorrect`: `Spec => []SharingManagesAsApply`, if suffixes are the default ones
  (`DefaultSuffixes`) and no directory of an org unit has the name of a service
  (`DirsAreNoServices`), both of them in the table, too.  The groups of apply come
  from the organization and those of sharing from the configuration; they agree
  because of what `OrgIsRight` says of names, and because an org unit that is no facility
  cannot be called like the org unit of one.

* `SoundCorrect`: `Spec => []ConfigurationIsSound`, the assumption on configurations in `FsApply`
  (`ConfigIsSound`, which is stated in `Toplevel` for both).  `SoundInv` says of the organization that
  its services and org units are lists, with the access of a facility and with names of
  their own; an org unit gets the directories of one block or none (`SubdirsFacts`), and
  a block that has passed `MustLoadConfig()` and `parseOrgUnits()` has no duplicates
  and no unknown policy (`BlockFacts`).  The path of an explicit symlink is one name here,
  and a list of them there; both theorems need only that it is not empty.

TLC checks the four hypotheses on the files and databases of the passing run
(`OrdinaryFiles` in `MCOrganization`).

**RecursiveProofs** assumes that the tree and the attributes that users bring about
are well formed (`NodeAssumption`, `AttrAssumption`).

* `TypeCorrect`: `Spec => []TypeOK`.
* `OtherEntriesStayCorrect`: `Spec => OtherEntriesStay`.  A step of a run visits one file,
  and what it does to the file keeps the entries of groups that the policy does
  not name, because `setfacl -M` changes only what it is given.
* `RecursionRepairsCorrect`: `Spec => []RecursionRepairs`.  The inductive invariant follows a
  run that nothing disturbs through its pipelines: the list of a pipeline has every file
  that was not right when `find` looked, what has been visited is right, and what one
  pipeline has made right no later one spoils; when the run is over all is right.

**FsApplyProofs** assumes of the configurations what `SoundCorrect` says of those that
`Organization` yields (`SoundAssumption`: services, org units and the dirs of an org unit have
names of their own, access and policies are known), that sharing is with groups of org units and shares nothing as
short as the directory of a service (both are so in `bcpsharing`), and what nothing but the naming
conventions ensures (`ConfigAssumption`: no path is a directory in one configuration and a
symlink in another, no explicit symlink replaces a service link, and the two roots differ).

* What a configuration leads to comes first (`ProgramFacts`): the operations of
  `EnsurePermissions()` are exactly those for the directories and links that `check`
  lists on its own (`MostOpsAre`), each directory is made before what is in it, and
  explicit symlinks come after the last removal of links.  The loops are concatenations of
  sequences, of which `FlattenFacts` says what they consist of.  Paths tell the
  expected entries apart (`SameEntry`).
* `TypeCorrect`: `Spec => []TypeOK`.  The inductive invariant `BaseInv` adds that only files that
  some configuration knows are there, that what the run has made is still there, and
  that no entry allows more than its directory may (nobody may write into the
  directory of a service), so that the mask that `setfacl -X` computes is known.
* `SharedEntriesCorrect`, `AccessCorrect`, `ServiceLinksCorrect`: `Spec => SharedEntriesStay`,
  `Spec => AccessStays`, `Spec => ServiceLinksStay`, from what each operation does to the ACLs and links
  in a state of `BaseInv`.
* `CheckAcceptsAppliedCorrect`: `Spec => []CheckAcceptsApplied`.  The invariant `RunInv` says of
  a run that nothing disturbs that all operations so far have achieved what they are
  for (`IsAchieved`), and of one that has succeeded, that all have.  Each kind of operation
  achieves its part, and no later step of any kind undoes it (`StaysAchieved`): `setfacl -X`
  removes nothing that `-M` has set and leaves the mask, for some group that is
  to have all that may be allowed stays; what `rmUnexpectedSubdirs()` has kept stays as full as it
  was; `rmUnexpectedLinks()` removes explicit symlinks only before the run gets to them.

**SucdProofs** assumes that lines and stops are numbers and that files are functions on
lines (`SucdAssumption`).

* `TypeCorrect`: `Spec => []TypeOK`.
* `NeverFatalCorrect`, `ExitIsGracefulCorrect`, `OkIsInForceCorrect`.  The inductive invariant
  relates where `main()` is to the socket, to `isShutdown` and to the goroutine of
  `Serve()`; says that no handler is left once `main()` has got past
  `GracefulStop()`, and none runs in a daemon that has just been started; and
  that calls that have been answered are over, and those answered ok have nothing
  left to set.
* `SucdImplementsService`: `Spec => Implements`.  Each step of the daemon maps to a step
  of `QuotaService` or a stutter: a request to `Ask`, a line to `SetOne`, a deadline, a
  refusal, the end of a command and a kill to `GiveUp`, an answer to `Reply`.
* `PromiseIsEnough`: `Service!Spec => []Service!OkIsInForce`.  The promise of the abstract service
  alone implies it, provided that `Unset` is no call: calls that have been answered are
  closed, so that none of them sets limits after a later call has.

Only model-checked is liveness (all `...Converge`, `ShutdownEnds`, `StartsAgain`), which
is beyond the prover: every other property of the passing runs is a theorem.
`SelectSeq` and `SortSeq` have no definition that the provers here can expand, so that the
models say what these do in other words: `Passing` (`ListOps`) concatenates, and `SortGroups`
puts each group at the place that the number of those before it says.

## What is left out

* In `FsApply` and `SharingApply`, entries other than those of named groups and the
  mask; owners and modes.  `Recursive` has owning groups and the entries `group::`
  and `other::`, as one value; `user::` is left out.
* `apply --recursive` on several toplevel directories: their pipelines follow one
  another and do not meet.
* `rmUnexpectedSubdirs()` is one step; `os.Remove` of each directory is atomic and
  commutes with the others.
* The mask of a default ACL in `SharingApply` is that of the toplevel directory,
  one for each: a directory of policy `owner`, whose own mask differs from its
  default one, is not among the instances.  Users do not change default masks.
* A run whose `apply` part fails does not reach sharing, and one that fails in
  real shares does not reach the trees; each of the three models has runs that
  end early instead of a common program.
* The root directory itself, which `check` looks at and `apply` never touches.
* What `apply` leaves to the administrator, such as a directory that is not
  expected any more and has files of users in it: `CheckAcceptsApplied` names
  these exceptions (`LeftToAdmin`).
* Errors of `accept()`, and two daemons on one socket at a time.
* HCL itself, ACL texts, the numbers in quota files, regular expressions beyond
  names, `.*` and alternatives, logging, the scripts in `bin/`, credentials, status
  and ping: `PROJECT.json` has the reasons.

## Plan

Done, in this order: `Nesting` (the algorithm the export checks rest on) with its
specification and proofs; `SharingCompile`; `SharingApply` with its first proofs;
`ShareTrees`; `Toplevel`, `FsApply`, `Fsck`; `Sucd`; `Organization` with its proofs;
`Recursive` with its proofs; `QuotaService`, and the proofs of `Sucd`; the proofs of
`ShareTrees`; the proofs of `FsApply`, and that of `RecursionRepairs`; those of `SharesAreApplied` and
`SettledIsFixpoint`; the proofs of `SharingCompile`; the rest of those of `Organization`;
those that link models: `SoundCorrect` (`Organization` gives what `FsApply` assumes) and
`CompiledMayBeApplied` (`SharingCompile` gives what `SharingApply` and `ShareTrees` assume).

What could follow:

1. A composition of `apply`, real shares and trees as one `cmdApply()`, in which
   sharing and `apply` write the same ACLs, with org units that have their last
   share removed.
2. An abstract specification of an apply-like process (a state that converges to
   what a configuration wants, with what it may touch in between), implemented by
   `ShareTrees` and `FsApply`.
3. The order of removals in `rmUnexpectedSubdirs()`.
4. Overlapping instances of the daemon; the pipelines in `bin/`.
5. `Managers` of `SharingApply` from what `FsApply` sets, so that `CompiledMayBeApplied` speaks
   of the same groups.
