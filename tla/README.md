# Verification of egress-resolver

TLA+ models of `egress-resolver`, the tool that keeps a host's dynamic egress
allow list and a container's hosts file in step with DNS: what its components
promise, how the processes of one box interact and fail, and machine-checked
proofs of the main safety properties. Paths below are relative to the
repository.

## 1. The system

Two oneshot commands share a box with an operator's `toggle` and a container.

| Component | State | Operations |
|---|---|---|
| `resolve` (`resolve.rs`, `main.rs cmd_resolve`) | results per name, one future per pending name | read the uptime; try servers in order; query names concurrently, each with retries; stop at the deadline; replace `answers.json` |
| classification (`resolve.rs classify`) | none | rank one DNS response: addresses, authenticated negative, retryable, not worth retrying |
| answers hand-off (`answers.rs`) | `answers.json`: uptime of generation, result per name | written whole by `resolve`, read by `apply` |
| plan (`plan.rs`) | none; last-known-good addresses live in rule comments | answers + two chains -> new chains and per-name state |
| `apply` (`main.rs run_apply`) | the run's locals; chains, hosts, status | lock; clock and previous status; answers; list chains; plan; restore; verify or re-read; hosts; sweep; status |
| chains (`iptables.rs`) | production (allowed) and maintenance (ever seen) chains in the kernel | list, replace both in one commit |
| sweep (`conntrack.rs`) | conntrack table | compute the kill set, delete one destination after another |
| hosts file (`hosts.rs`) | name -> addresses | replaced from the installed policy |
| status (`status.rs`) | `status.json` | written at the end of a run, read by the next run and by `toggle` |
| `sysutil.rs` | lock file | `flock` with timeout, atomic writes, uptime, mode file |
| validation (`validate.rs`) | none | is an address public unicast |
| configuration (`config.rs`) | constant | load, normalise names, validate |
| process execution (`exec.rs`) | one child and three pipes | feed, drain and reap a command |
| command line (`main.rs`) | none | parse the arguments, dispatch, exit code |

Interaction: `resolve` and `apply` meet only in `answers.json`; `apply` runs and
`toggle` exclude each other with a `flock`; `toggle` reads `status.json`; the
container reads the hosts file and opens connections through the chains at any
time; a connection once allowed lives on in conntrack until it is deleted.

What is hard here:
* **Overlap.** An operator may start either command beside the timer; `resolve`
  takes no lock, so a run that began earlier can write its file later.
* **Partial progress.** A run is eight or more external effects in a row, and it
  can be killed, or a command can fail, between any two of them. The only memory
  is the kernel and `status.json`, and writing the latter may fail unnoticed.
* **Uncertain outcomes.** `iptables-restore` may report an error after its commit.
* **Retries.** A failed update must be retried from the same file; an installed
  file must never count as fresh twice.
* **Deadlines.** `resolve` is dropped at an arbitrary await; `apply` polls for its lock.
* **Reboots.** All times are uptimes, which start again, and files may outlive a boot.
* **Pipes.** A command is fed before it is drained, and each pipe has a capacity.
* **Limits.** `max_addresses`, `MAX_CNAME_HOPS`, attempts.

`PROJECT.json` lists these hazards one by one with the properties that cover them.

## 2. Modules

| Module | Models | Used by |
|---|---|---|
| `Plan` | pure operators of `plan.rs`, `conntrack::kill_set`, `hosts::render` | `Policy`, `Apply` |
| `Policy` | abstract specification: the chains change only by installing a whole plan | `MCPure`; refined by `Apply` |
| `Apply` | all processes of the box | `MCApply*` |
| `Chain` | chains as text: `iptables.rs`, the length check of `config.rs` | `MCPure` |
| `Resolve` | one `resolve` run | `MCResolve` |
| `Classify` | the verdict on one response | `MCPure` |
| `Report` | the whole status, the metrics and the exit code of `apply` | `MCReport` |
| `Boot` | reboots, the boot id, files that outlive a boot | `MCBoot` |
| `Lock` | `lock_exclusive`, poll by poll | `MCLock` |
| `Replace` | abstract specification: a file is replaced in one step | refined by `AtomicWrite` |
| `AtomicWrite` | `write_atomic`, system call by system call | `MCAtomicWrite` |
| `Exec` | `SystemExec::run`, its child and the pipes | `MCExec` |
| `Validate` | `is_global_unicast` on four octets | `MCPure` |
| `Config` | `Config::validate` and the name functions, on characters | `MCPure` |
| `Cli` | `parse_args`, the dispatch and exit code of `main` | `MCPure` |
| `PlanProofs` | lemmas about the plan, `PlanAgrees` | `PureProofs`, `ApplyProofs`, `ReportProofs` |
| `ApplyProofs`, `ReportProofs`, `ResolveProofs` | theorems about the module of that name | |
| `FileProofs` | theorems about `AtomicWrite` and `Boot` | |
| `WaitingProofs` | theorems about `Lock` and `Exec` | |
| `TextProofs` | theorems about `Chain` and `Config`; induction | `PureProofs` |
| `PureProofs` | theorems about `Policy`, `Classify`, `Validate` and `Cli` | |

`Apply` is the centre. `Lock`, `AtomicWrite` and `Exec` open up what it takes for one step
(a lock, a file, a command); `Boot` and `Report` close it up again, so that boots and whole
reports can be looked at; `Validate`, `Config` and `Cli` justify its constants.

Operators named `X_Something` below a `Mutant:` comment are deliberately wrong
variants of `X`. They are used nowhere in a specification; each breaks one
property when put in place of `X`, which shows that the property depends on
that piece of code.

### Plan and Policy
A chain is a function from addresses to the set of names in the rule's comment
(`AddrMap`). `compute` follows the function of that name: per name a fresh
answer, an authenticated negative, or what the chain already holds for the name
(`lkg`); the union of all; the `max_addresses` branch, which keeps the chain and
derives the names from it; the maintenance set, which only grows. Answers are
partial functions from names to replies, and replies are not assumed to be
sensible: `apply` re-validates what it reads, so `ok` without addresses and `ok`
with a private address are among the checked inputs. Which addresses are public
is the parameter `Global`.

`Policy` has the two chains and the answers they hold the plan of. Its only
action is `Install`.

### Apply
One variable per shared object (chains, conntrack table, each file, the lock)
and per process a program counter and a record of the locals of `run_apply`.
Steps, in the order of the code:

| `pc` | Action | Code |
|---|---|---|
| idle | `Start` | the timer or an operator |
| lock | `Acquire`, `LockTimeout` | `lock_exclusive` |
| clock | `ReadClock`, `Abort` | `clock()`, `PrevStatus::load` |
| plan | `ReadAndPlan`, `Abort` | `load_answers`, `read_chain` twice, `plan::compute` |
| firewall | `Unchanged`, `Restore`, `RestoreFails` | the comparison, `apply_restore` |
| verify | `Verify` | `verify_chains` |
| reread | `Reread` | the `else` branch after a failed update |
| hosts | `WriteHosts` | `write_atomic(hosts)` |
| mode | `ReadMode` | `read_mode`, `kill_set` |
| kill | `Kill`, `Publish` | one `conntrack -D`; the status file |
| any | `Crash` | the process is killed; the kernel drops its lock |

Calls are joined in one action only when nothing another process may do in
between can matter: everything from `clock` on is under the lock, so the
chains' maps, the status file and the state file are stable; a resolver writes its
file in one rename and `apply` reads it once. The uptime is in ticks from 1, and
0 stands for `None`. `dirty` says that a chain holds something other than one
rule per address; a foreign rule is one that does not change the address map (no
destination, or a duplicate). Failures are the members of `Faults`, so that each
run can choose which kinds to combine. A lock file that cannot be opened ends
the run before it has done anything, which is a run that never started.

`toggle`, the container, other users of iptables and the firewall's static rules
are not in this repository. They are modelled as far as the code relies on them
(`README.md`, `conntrack.rs`, `status.rs`): `toggle` holds the same lock, enters
production only if `required_satisfied`, and tears down all known flows on its
way to maintenance.

Two history variables, `landed` and `installed`, record the answers whose plan the
chains hold and the generation of the last file that got there. No guard reads them.

### Chain
What stands behind the maps and the Boolean of `Apply`. A text is a sequence of
words, spaces, quotes and backslashes; of a name only its length counts. `Restore`
writes a production map over the accepted endpoints, and a maintenance map merged
from the chain's own listing; `Foreign` lets others add rules. `Line` and `Shown`
are how `iptables -S` prints a rule; a single plain word may come with or without
quotes, so every property is stated for both. `ForeignRules` may have any number of
comments with any atoms in them. The properties compare what
`read_chain` makes of the text with the rules the text was printed from. Every loop over
atoms, words, options, rules or names is a function of how much it has read
(`token_step`, `take_option`, `add_entry`, ...), one step being one round of the code's loop.

### Resolve
`phase` follows `resolve_servers`; `query[n]` is the state of a name's future. A
usable answer is recorded in the same poll in which the future completes, so the
deadline cannot come in between; it may come at every await (connecting, asking,
sleeping between attempts).

### Classify
`chase` is the bounded loop over CNAME records, `follow` one round of it, `collect` the
pass over the A records. The properties do not repeat that algorithm: they take the CNAME
records for a graph and speak of the least set that holds the queried name and is closed under them.

### Report
One apply run is one step: `compute`, an update that is verified, fails, or is committed and
reported as failed, then `Effective`, hosts file, deletions, status. `Status` has every field of
`status.json` but the texts and the marker, `to_metrics` one field per metric family. The
properties compare what each reader sees (the exit code, the gauges, `required_satisfied`
and `required_fresh`, the age of an answer) with the kernel, the hosts file and the flows, and
with a history of when a fresh answer was really installed.

### Boot
Uptimes start again at each boot. `Survives` names the files that outlive one, `IdFails` says
whether the boot id may be unreadable; files carry the boot that wrote them as history, which
only the properties read. In the deployed image `/run` is a tmpfs and nothing survives; the
passing run is the harder setup in which `status.json` does.

### Lock
A tick is one poll interval. A waiting process tries, looks at its deadline, sleeps; a call may be
interrupted, a process may be killed. `Hold` and `Delay` bound how long a holder keeps the lock and
how late a process is scheduled: they are assumptions about the environment, enforced by
`Tick`. `passed` and `intr` are history. `Overtaken` turns the behaviour of a lock without a queue into
a number: with `Timeout` above `Hold + Delay` one holder alone never makes a waiter give up.

### AtomicWrite and Replace
Files are inodes, named by the path and by one temporary name per pid, and held open by writers and
readers. A content is written in two pieces. A writer may fail or be killed between any two calls,
and its pid may return. `Replace` is what `Apply`, `Boot` and `Report` take `write_atomic` for; the
refinement mapping is the content of the inode that the path names. On a tmpfs a power failure takes
everything, so durability is not a question.

### Exec
Parent and child with pipes of `Cap` units. The parent writes all of its input, then drains both
outputs until they end, then reaps. Nothing in the code bounds what a child prints before it has
read its input; `Early <= Cap` is the assumption under which no call deadlocks, and it is
tight: with `Early = Cap + 1` TLC finds parent and child waiting on each other. The commands used
here (`iptables`, `iptables-restore`, `conntrack`) print a line or two before that.

### Validate, Config, Cli
Pure functions on bounded inputs, against references of another kind: intervals of addresses instead
of masks; the language of host names by neighbouring characters instead of label by label, and what is
read back from a comment, a hosts line or a listing; which words of a command line are values, by their
place instead of by a loop. In `Cli` the loop of `parse_args` is a function of the number of rounds
(`LoopStart`, `iterate`): every round takes a word, so there are at most as many as words. In `Config` the
sums over names (`Total`) and joined texts (`join`) are functions of how many names were taken, and an action adds one
character to a configuration. The checks that a number is at least 1 appear as the assumptions on constants of
the other modules.

## 3. What is checked

| Run | Instance | Shows |
|---|---|---|
| `apply_crash` | 1 apply, 1 resolve; kills, lost status, failed and late restores, foreign rules; 1 rule at most | `PublishedWasInstalled`, `DescribesInstalled`, `SweptClean`, refinement of `Policy` |
| `apply_io` | 1 apply, 1 resolve; lock timeout, failing clock, listing, restore, hosts, conntrack | `ProductionReady`, `FreshMeansInstalled` |
| `apply_race` | 2 apply, 2 resolve, 3 ticks; failing restores | `AtRestConsistent`, `NoRollback` |
| `apply_live` | 1 apply, 1 resolve, fairness; kills, failing restores | `FreshAnswersLand`, `RetiredFlowsDie` |
| `resolve` | 2 names, 2 servers, 2 attempts | `NothingLost`, `TransientIsExhaustive`, `NoNeedlessQuery`, `Terminates` |
| `report` | 2 names, 2 addresses, 1 rule at most, 2 ticks; every output fails or not | `ExitZeroMeansReconciled`, `AgeNeverUnderstated`, `MetricsDescribeKernel`, `FailedKillsRetried` |
| `boot` | 2 boots of 4 ticks, maximal age 2; `status.json` survives | `PrevIsOfThisBoot`, `InstalledIsCurrent`, `NewAnswersLand` |
| `lock` | 3 processes, timeout 2, tenure 1, punctual | `Overtaken`, `EveryWaitEnds` |
| `atomic_write` | 2 writers, 1 reader, 2 contents, 4 inodes | `ReadersSeeWhole`, refinement of `Replace` |
| `pure` | six components, one at a time: see below | 12 properties |
| `exec` | pipes of 2, input and outputs up to 4 | `NoCommandLeftRunning`, `OkIsComplete`, `EveryCallEnds` |

The run `pure` checks the components that decide without time, lock or failure. `MCPure` extends all six
and adds a variable `subject`: in a behaviour the subject's own specification runs, and the other
components stay where they are. As the components share no variable, every behaviour
of each of them is among these, and nothing is lost by leaving out their interleavings.

| Subject | Instance | Shows |
|---|---|---|
| `Policy` | 2 names, 3 public and 1 private address, 2 rules at most | `SeenCoversAllowed`, `LkgIsolation`, `AllOrNothing` |
| `Classify` | 3 names, hop limit 2, up to 3 records, or 2 CNAME records and 2 addresses, a public and a private one by `Validate` | `VerdictJustified` (`AddressesBelong`, `NegativeIsProof`), `GoodAnswerAccepted` |
| `Chain` | 3 names of 2, 4 and 1 bytes, room for 7; 2 addresses; one foreign rule between restores | `ReadBack`, `DirtyIsExact`, `SeenAddressesStay` |
| `Config` | all configurations of up to 7 characters; labels of 2, names and comments of 4, chains of 3 | `HostnamesExact`, `TextKeepsNames` (`EndpointsAreKeys`, `CommentsKeepNames`, `StaticLinesFaithful`, `ChainsNotConfused`) |
| `Validate` | every combination of octets around the edges of the blocks, all 33 prefix lengths | `AddressCheckExact` (`ExactlyTheSpecialBlocks`, `InRangeIsInterval`) |
| `Cli` | all command lines of up to 5 words | `CommandLineExact` (`ParseExact`, `ExitTells`) |

Bounds. One name and two addresses let an endpoint move, return, grow beyond the
limit, disappear and come back; interactions between names do not depend on
processes and are checked on `Policy`, with two names that share addresses. Two or
three ticks let a file be new, installed, superseded and too old (`MaxAge` 1 or 2).
Two appliers and two resolvers give every overlap of two; the proofs cover any
number. Two servers and two attempts give a first and a last of each. In `Chain` two names
fill a comment to the last byte and three exceed it, by their separators alone. A hop limit
of 2 with three names gives chains below, at and beyond the limit. In `report` two names compete for one
rule, so that a plan may be refused. Two boots give every order of an old file and a new clock, and 4 ticks
a generation that is new, installed and too old in each. Three pollers let a waiter be overtaken by two others; they are punctual
(`Delay` 0), and late ones are covered by the theorems, which hold for every delay.
In `atomic_write` there is an inode for the path, each temporary name and a replaced file that is still
being read. In `exec` input and output are twice a pipe. Symmetry is
used in the safety runs with interchangeable processes, addresses or inodes and never in the
fair ones.

Some properties are exact about what they exclude. `ProductionReady` is checked without kills
and lost status files: with them, `status.json` may describe an earlier run, which is what a
status file does. `DescribesInstalled` holds with failed and late restores as long as the chains
can be listed; `VerifiedDescribesInstalled` holds even if they cannot. In `apply_race` the hosts
file is always written and no flow deletion fails, so `AtRestConsistent` is about interleaving
alone. Section 4 says for each of them which faults it needs to exclude, and proves it under all the others.

Fairness (`apply_live`): the timer starts runs; a started process that can take
its next step does; `toggle` gives the lock back; a waiting run is not passed over
for ever (`flock` has no queue: this is an assumption on the holders, who hold it
briefly once a minute); `iptables-restore` does not fail for ever. Kills may
happen any number of times, but the conclusions are about behaviours in which they
stop. Nothing is assumed of resolvers, container or `Tick`. In `resolve`, weak fairness says
that awaits end: connecting and queries have timeouts. The deadline is not needed
for termination. In `boot` the timer starts runs, a run that started goes on, and the
update does not fail for ever (strong, because reboots interrupt it); answers may be replaced or grow old,
which `NewAnswersLand` allows for. In `lock` time passes and a process that is due moves, which the kernel's scheduler
provides; nothing is assumed of who wins the lock. In `exec` both processes go on unless a pipe
holds them up; `run()` itself has no timeout, so that a command that hangs hangs the run.

### Disagreements between comments and code
One run is expected to end in a counterexample: `apply_status_lost` (`NoRollback`). The status file
cannot be written, the marker is lost, and an older file of an overlapping `resolve` is
installed over the newer one. `README.md:44-46` promises a comparison with what was actually installed.

Modelling met other places where a comment says more than the code does. The passing runs
exclude them, by the constants or by the wording of the property:
* The restore commits, the chains can be listed neither for verification nor for the re-read, and the
  run falls back to the listing from its beginning (`main.rs:361`), although `main.rs:350` says that what
  follows describes the installed policy. With `"read"` among the `Faults` of `apply_crash`
  `DescribesInstalled` fails; `PublishedWasInstalled` still holds, and the next run repairs it.
* A file beyond `max_addresses` moves the already-applied marker although nothing of it was installed
  (`plan.rs:183`); `main.rs:402-403` says that the marker advances only with an installation. `FreshMeansInstalled`
  is therefore about the times of the names and not about the marker.
* A CNAME loop of more names than `MAX_CNAME_HOPS` is not noticed (`resolve.rs:97`): without A records the answer
  counts as an authenticated negative. The test at `resolve.rs:529` has a loop of two names. `PlainChain` in
  `GoodAnswerAccepted` leaves such chains out, and `NegativeIsProof` does not ask where a chain ends.
* If `/run` were not cleared, an `answers.json` of an earlier boot has a negative age, passes both checks of
  `load_answers` and is installed as fresh: with `"answers"` in `Survives`, `InstalledIsCurrent` fails.
  `main.rs:31-34` says why answers that are not current are ignored.
* An unreadable boot id is the empty string, which equals the one that an earlier boot wrote under the same failure:
  with `IdFails` true, `PrevIsOfThisBoot` fails. `status.rs:79-80` says that anything not of this boot is ignored.
* `normalize_name` strips every trailing dot and accepts a name that ends in two; `config.rs:225` says "a trailing dot".
* `README.md:35-36` says that `resolve` always exits 0. It does so whatever becomes of the names (`Succeeds` in `Cli`),
  but exits 1 when the configuration, the uptime or the writing of `answers.json` fails (`Fails`).

## 4. What is proved

TLAPS checks the following for all values of the constants that satisfy the named assumptions (`Required` and
`Global` are subsets, `Addrs` and `Owners` are finite, bounds are natural numbers, process names differ from
the two lock markers, the output before the input fits in a pipe, a name or an address is no punctuation mark and
any one name fits a comment; others' rules are as section 5 says). Every safety invariant and action property of the runs is among them.

### The plan and the policy
`PlanProofs!PlanAgrees`: a plan's per-name addresses are exactly what the planned
chain holds under each name, within the limit or beyond it. Everything that says "the hosts
file is the chain" rests on this. `PlanBrings` adds that a name called fresh has its answer there, `PlanIsolates`
that a name without a settled answer keeps exactly its addresses, `PlanIsWhole` that a plan is all of the
answers or the old chain, `PlanIsBounded` that it keeps the limit and holds public addresses only.

`PureProofs` has all five properties of `Policy`. The inductive invariant is `TypeOK`,
`SeenCoversAllowed` and `BoundedChain` together; the action properties follow
from it and from these lemmas, which `PolicyKept` uses a second time.

### Apply
None of the properties of `Apply` is inductive. `IInv` adds, per process, what a
run knows where it stands (`Knows`): past `lock_exclusive` it holds the lock; so its
copy of the chains and of the marker is current (`Planned`, `applied`); after a
commit its plan is the kernel's contents; a chain it may fall back on is covered by
the seen set. Mutual exclusion is what carries these facts over the steps of others
(`OthersKnow`), and `Covered(prod)` is what makes the hosts file safe on every
failure path. The proof has one step per action.

These hold under every combination of faults: `TypeOK`, `PublishedWasInstalled`,
`VerifiedDescribesInstalled`, `SweptClean`, `MarkerMonotone`, `FreshMeansInstalled`, and `Refinement`, that
`Apply` implements `Policy`. `PolicyKept` then says what that is worth: the five promises of `Policy` hold of the kernel's
chains while any number of runs overlap, are killed or fail. The chains change only when a planned restore
commits (`StepInstalls`), and the plan was computed from the chains it replaces, because the run held the lock.
The others are false under some faults, so their theorems name those, and only those that their arguments run into:

| Theorem | Excluded | Why the excluded faults break it | Added to `IInv` |
|---|---|---|---|
| `DescribesInstalledThm` | `read` | a run that cannot list the chains falls back on the listing from its beginning | nothing |
| `NoRollbackThm` | `crash`, `read`, `late`, `foreign`, `status` | each leaves a marker behind what the kernel holds: the run dies, or the commit is reported as failed or not verified, or the status is lost; then an older file passes for new | `Marked`: between installation and status the run knows the new marker, otherwise the marker is at `installed` |
| `AtRestConsistentThm` | `crash`, `read`, `hosts`, `kill` | each ends a run with the hosts file or the flows behind the chains | `Quiet` and `Restoring`: the box is consistent unless the holder of the lock has work left, and the work left restores it |
| `ProductionReadyThm` | `crash`, `status` | each leaves a status that still promises what the run has taken away | `Trustworthy`: while `toggle` may look, `required_satisfied` is no more than the chain and the hosts file bear out |

`FreshMeansInstalled` needs no such hypothesis because a name's time moves only in a status file that is written after
a verified commit, and `Bookkeeping` ties the times a run carries to the answers that it or an earlier run brought.

### Report
`ReportProofs` has the four properties of the run. A run is one step, so the proof goes through what one run promises
about its outputs (`Delivers`), whatever fails in it; the invariant (`Stands`) says that nothing that
happens afterwards takes it back: flows may open, but only allowed ones. `AgeNeverUnderstated` is the same
argument with the history `fresh_at`.

### Resolve, Boot, Lock, Exec, AtomicWrite
* `ResolveProofs`: `TypeOK`, `NothingLost`, `TransientIsExhaustive`, `NoNeedlessQuery`, for any names, servers and
  attempts. The invariant ties each future to the phase of its server: no future is alive between
  servers, a settled name has none, and what is unsettled has used up every server before the present one.
* `FileProofs`, reboots: `TypeOK` in every setup; `PrevIsOfThisBoot`, `StatusInThePast` and `InstalledIsCurrent` under
  the hypothesis `HandledSetup`, that `answers.json` does not survive a reboot and the boot id can be read. Neither part
  can be dropped: TLC finds a counterexample with `"answers"` in `Survives` and one with `IdFails` true. The invariant says that everything a run has in
  hand, and every file that bears this boot's id, belongs to this boot and to its past.
* `WaitingProofs`, the lock: `TypeOK`, `WaitBounded` and `Overtaken` for any number of processes and any times. The
  invariant accounts for the time a waiter has spent: so much for each tenure that began during the
  wait, for each signal, and for the tenure under way.
* `WaitingProofs`, processes: `NoCommandLeftRunning` and `OkIsComplete`, for pipes of any capacity and any amount of
  input and output. The invariant (`Together`) ties the parent's place to the child's: the parent leaves its
  input only when all of it is written, a child that exits with 0 has read all of it, and an Ok holds all that was printed.
* `FileProofs`, atomic writes: `ReadersSeeWhole`, `OkLeavesNoLitter`, and `WriteRefinement`, that `AtomicWrite` implements
  `Replace`, for any number of writers, readers and inodes. The invariant says that the inode behind the path is
  whole and that nobody has it open for writing, that temporary names are distinct inodes, and
  that a writer past `Chmod` has its own value in its temporary file.

### The pure parts
What a loop computes needs induction. The code's loops are recursive functions in the models, so it can be had from
the least number of a set: `LeastNatural` in `TextProofs`, and from it `Induction` (a set that holds 0 and with each
number the next) and `Recursion`, `RecursionAt` (a recursive function exists, is typed and satisfies its equation). On
these rest:

* `VerdictJustifiedThm` and `GoodAnswerAcceptedThm` (`Classify`), for every message and hop limit. The invariant of the
  loop (`Followed`): every name seen is reached, each but the present owner leads on to another one seen, and every round
  adds a name until there is no CNAME or a loop. In a `PlainChain` the names seen cannot outnumber the reached ones, so
  that the loop ends in time, and what is seen is then closed, so it is `Reached`.
* `DirtyIsExactThm`, `ReadBackThm` and `SeenAddressesStayThm` (`Chain`), for any number of names, addresses and rules of
  others, and comments of any length. A text is scanned part by part
  (`ScanConcat`); a comment in quotes is one token, with its own quotes and backslashes as characters (`ScanEscaped`,
  `ScanShown`). So each option of a printed rule is read as itself (`MeansOption`), the rule as its destination
  and the words of its comments (`OptionsRead`, `LineRead`), and a listing as the rules in it (`ReadIs`). That is
  all `DirtyIsExact` needs. The inductive invariant (`ChainInv`) says that chains hold rules, that the accepted names fit
  a comment together, and that, until others add something, a chain is what its plan is written as (`AsPlanned`);
  then `ReadBack` follows because a comment made of names that fit has those names for words
  (`CommentIs`, `FewerFit`, `JoinWords`), and `SeenAddressesStay` because a restore writes back every address it has read.
* `HostnamesExactThm` (`Config`), for texts of any length. Labels are cut at the dots; the dots
  next to a character bound its label (`BoundsAround`), so a condition on every label
  is one on every character and its neighbours (`LabelByCharacters`).
* `TextKeepsNamesThm` (`Config`), for files of any size and all limits. A file holds texts (`FileType`); the rest is about
  the functions: a name that was normalized is normal and one field (`NormalAgain`, `OneField`); names joined by blanks
  are their fields again and take the sum of their lengths (`JoinIs`, `FieldsApart`); some of the
  names take no more than all (`TotalOfSome`), so that whichever share an address fit a comment; and the blank after
  a chain's name keeps it from being taken for another that begins with it (`SameChain`).
* `CommandLineExactThm` (`Cli`), for lines of any length. After every round the words before the present
  position are classified as the places say (`Known`, `Looped`); whether a word is a value alternates along a run of
  options (`ValuesAlternate`). An error is raised only at a line that is not `WellFormed`, and at the end nothing is left to
  classify. For the exit code, `CliInv` lists the stages of a command.
* `AddressCheckExactThm` (`Validate`), for every address and network. The mask is taken octet by octet: of
  each octet a comparison of two prefixes is one of two intervals (`InRangeByOctet`), and the octets together order
  addresses as numbers do (`InRangeInterval`); with that the table of blocks is read off (`TableIsRegistry`).

Some properties are proved and not part of any run, because what a small instance
shows of them is contained in the theorem: `MarkerMonotone`, `VerifiedDescribesInstalled`, `BoundedChain`,
`MaintenanceGrows`, `StatusInThePast`, `WaitBounded`, `OkLeavesNoLitter` and each `TypeOK`.

### Left to TLC
Liveness (`FreshAnswersLand`, `RetiredFlowsDie`, `Terminates`, `NewAnswersLand`, `EveryWaitEnds`,
`EveryCallEnds`): it needs fairness and `ENABLED`, which this prover does not treat.

## 5. Not modelled

* Formats: JSON, TOML, the Prometheus text, log and error messages. A file that does not parse or
  has another schema is a file that is missing (`NoAnswers`).
* What `read_chain` does not look at either: ports, protocols and targets of rules, the prefix
  length of a destination. Others' rules on an address are assumed to have host names
  for comments.
* Symlink checks when `answers.json` is opened, and who may write where: file permissions are the
  deployment's.
* TLS and DNS on the wire: a response is what hickory returns.
* A command that never ends: `run()` has no timeout, and the lock is then held for ever.
* A hosts, status or metrics file whose temporary file stays after a failed write
  (`AtomicWrite` shows it; nothing promises otherwise).
* IPv4 ports: the sweep is by destination only.

## 6. Plan

Done: `Plan`, `Policy`, `Apply`, `Resolve`, `Classify`, `Chain`, because the
agreement of chains, hosts file, flows and status under failure is what the tool is for; then `Boot`,
`Validate`, `Report`, `Lock`, `Config`, `AtomicWrite` with `Replace`, `Exec` and `Cli`; and the proofs above.

Next: `Resolve` composed with `Classify`, and `Resolve` as a refinement of the two actions `ResolveStart` and
`ResolveWrite` of `Apply`.
