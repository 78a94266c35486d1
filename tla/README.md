# qemu-test in TLA+

Specifications of `qemu-test`, a harness that boots QEMU virtual machines,
watches their serial consoles, drives them over QMP and ssh, and checks that
small guest programs survive boot, reboot and live migration. The modules are
written from the code under `src/`; each definition's lines are in `PROJECT.json`
(`map`). Model checking is done with TLC, proofs with TLAPS.

    tlc -workers 2 -config MCSerialReader.cfg MCSerialReader
    tlapm SerialReaderProofs.tla

## 1. The system

| component | state | operations | interacts with |
|---|---|---|---|
| serial console reader (`process.rs` 482-572) | position and buffer of the `BufReader`, `partial` of the current poll | `read_chunk`, `poll_line*` | QEMU appends to the same file; the SIGINT handler sets `SHUTDOWN` |
| QEMU process life cycle (`process.rs`) | `Child`, QMP connection, temporary directory, accelerator | `spawn`, `poll_status`, `quit_and_wait`, `Drop` | kernel (fork, SIGKILL, wait), QEMU (socket, QMP) |
| QEMU command line (`process.rs`) | `QemuConfig` of each QEMU | the builder (`with_net`, `with_incoming`, ...), `GuestConfig` to arguments | names directories, images and taps that others own |
| cloud-init disk (`cloud_init.rs`) | key pair, staged files and image in the test's directory | `CloudInitDisk::new`, `create` | ssh-keygen, mkdosfs, mcopy; read by the guest as it boots |
| tap pool (`util.rs` 79-170) | `TAP_POOL`, a mutex around `Option<Vec<usize>>`; the `TapPair`s of running tests and the addresses made from them | `init_tap_pool`, `allocate_taps`, `TapPair::new`, `drop` | tests on all threads of the rayon pool |
| test runner (`main.rs`) | the queue of tests, `SHUTDOWN`, collected results | `main`, `run_test` | everything above |
| test selection and report (`main.rs`, `util.rs`, `config.rs`, `junit.rs`) | `TESTS`, filter, `skip_results` | `TestFilter::parse/matches`, repetition, `format_junit` | registered tests |
| `test_fn` macro (`test-macro/src/lib.rs`) | none at run time | expansion of attributes into entries of `TESTS` | selection |
| live migration tests (`tests/migration.rs`) | two QEMUs, three directories; taps and a disk for the OS variant | `do_migration`, verification | both VMs' QMP and consoles, ssh |
| register-checking guests (`asm/boot_avx2`, `boot_scalar`, `boot_fp_sse`) | registers, a copy in memory | load, delay, spill, compare, print | QEMU under test |
| ssh wrapper and full-OS tests (`ssh.rs`, `tests/full_os.rs`) | the ssh child, the deadline | `ssh_command`, `ssh_fire_and_forget`, `test_os_boot`, `test_os_reboot` | the guest's sshd and console |
| basic tests (`tests/basic.rs`) | none of their own | one spawn, polls of the console | reader, life cycle |
| MMIO, PIO and vmport guests; boot stubs; build, CI, OS image | none that the harness keeps | straight-line programs and scripts | - |

What is hard here, and where nothing is tested: a console that is read while it
is written, with a buffer and a partial line whose life times differ; a child
process that may hang or exit between any two steps of the code that waits for
it; a QMP connection in which a late reply is taken for the next one; taps that
have to outlive QEMUs on every path out of a test, including the ones through
`?`, which only the order of `let` statements arranges; parallel guests on one
bridge, told apart by what each read from its disk; SIGINT at any moment; a
handover of the guest at any of its instructions; an ssh connection that the command it carries tears down. `PROJECT.json` lists these
hazards with their lines (`hazards`).

What makes each component correct:

- reader: every line is taken once, whole and in order; no match is passed over;
  a poll that succeeds leaves nothing of the next line behind; polls end;
- life cycle: after `Drop` the child is gone and was collected; SIGKILL goes to
  the child only; `quit_and_wait` does not claim a clean exit that did not
  happen; a hung QEMU never wedges the thread;
- tap pool: pool and live pairs partition the valid indices; an allocation fails
  only when all pairs are in use; pairs in use share neither device nor address;
- tests and their resources: what a QEMU uses outlives it; QEMUs that live
  together share nothing; source and destination of a migration are the same
  machine; ssh finds the test's own guest; nothing stays behind;
- runner: taps outlive the QEMUs that use them; the exit code is honest, SIGINT
  included; everything is given back; the run ends unless a test body hangs;
- migration: success means that the handover is over; FAIL means that registers
  were lost; a loss of live registers is noticed; a good migration does not end
  in a timeout;
- reboot: success means a second boot, exactly one, and the test ends;
- selection: the expansion is the product the attributes ask for, the filter
  follows the README, every test is run or accounted for in a report that was
  written.

## 2. The modules

`X` is a component, `MCX` its instance for TLC, `XProofs` its theorems. The
definitions that begin with "Fault:" and carry a suffix (`Kill_Unchecked`) are
not part of the specifications: each is a plausible bug, and substituting it for
the definition without the suffix breaks the property that `PROJECT.json` names
(`mutants`), which shows that the property depends on that code.

**LineReader** is the abstract console: a log, a position, and a poll that takes
whole lines one by one until one contains the expected text. **SerialReader** is
the code: `Poll` is the entry of `poll_line_match_timeout`, `Check` the head of
its loop (SHUTDOWN, then the deadline), `FillBuf` and `Consume` one round of
`BufRead::read_until`, `ReadError` its failure, `NoProgress`, `Progress` and
`Line` the three ways to go on after `read_chunk`, and the sleep before the next
round a `pc` of its own. `GuestPrints`, `Tick` and `Sigint` interleave with all of
them. A byte that was read is represented by its position in the log, so `buf`,
`partial` and `line` are sets of positions; a torn or merged line is a set that
is not the positions of one line. Regular expressions and substrings are
represented by two-byte texts, the shortest that can be torn. SerialReader
implements LineReader: `next` is `taken`, the end of the line
handed over last.

**QemuProcess** is one child from `Spawn` to the end of `Drop`, with a QEMU that
binds, listens, serves, hangs, recovers and exits when it likes. `child` is the
kernel's view (none, running, zombie, gone), `status` whether `Child` knows the
exit status, `owned` whether a `QemuProcess` exists (whose `Drop` runs) or only a
bare `Child`. A thread that sent a QMP command is at `handshake`, `query`, `quit` or
`dropQuit` until an answer is there (`Replies`), the process is gone, or
`QMP_IO_TIMEOUT` is over (`TimesOut`): without that timeout it would stay. `stale` records a reply that was not read in time and is taken for
the next. `autoreap` is the case of an ignored SIGCHLD, in which `try_wait` fails.
`Kill`, `Collect`, `Exited`, `NoChild` and `StillRuns` are `std::process::Child`,
which is external. `SpawnFails` is each `?` of `spawn`: from the fork to the
construction of the value it ends without `Drop`.

**TapPool** is `TAP_POOL`. The lock is held for the whole of `allocate_taps` and
of `TapPair::drop`, so each is one step (`Allocate`, `AllocateFails`, `Release`).
`Valid` is `init_tap_pool`'s filter; `SrcTap`, `DstTap` and `HostOctet` are the
devices and the address that `TapPair::new` makes of an index.

**TestRunner** is `main` and `run_test`, and composes with TapPool
(`Pool == INSTANCE TapPool`): idle threads `Claim` tests, `Start` looks at
SHUTDOWN, `Alloc` is a step of the pool, `Spawn` and `Body` may fail, `DropVm` and
`DropTaps` are the drops in reverse order of declaration, `Record` returns the
result, `Finish` decides the exit code or ends in the panic of a report that cannot
be written. Of a QemuProcess it uses what QemuProcess
proves: after its `Drop` no child is left; and that a failed spawn may leave one
(`orphans`). `uses` is about the QEMUs of QemuProcess values; of the others
`TapsInUseAreHeld` and `NothingLeft` say whose they are. A body may fail before it comes to `allocate_taps`, which is why `Alloc`
has a way to `done` that leaves the pool alone.

**TestBody** is the test functions with all that they hold, in parallel. A
plan is what a function and its parameters decide; `Body` is the order of
operations that follows. `todo` is what is left of it and `locals` the values declared
so far, newest last: `Drop` takes the last one, and what dropping means depends on
the value (a directory goes with all that is in it, a pair returns to TapPool, a
QEMU ends, a `CloudInitDisk` has no `Drop`). `Fails` is the `?` of the next operation;
if that is a spawn it may leave its QEMU, with the command line it was started with, in
`orphans`, where nothing ends it. `NothingShared` is about all QEMUs that run (`Alive`),
whoever owns them.
`TempDir`, `AllocateTaps`, `WritePayload`, `KeyGen`, `StageFiles`, `MakeImage`, `CopyFile`,
`SpawnSrc`, `SpawnDst`, `Migrate` and `Observe` are the operations. `Default`, `SrcConfig` and
`DstConfig` are `QemuConfig` and its builder, `Args` the conversion of `GuestConfig` to a
command line: a sequence of options, each a tuple of its name and of what it
refers to. A running guest carries the disk it booted from (`guest`), so that a
property can ask who answers at an address; migration takes it along.
`allocate_taps` and `TapPair::drop` are TapPool's actions. TestBody implements TestRunner:
each test is its own worker there, `Stage` says where `run_test` is, and `uses` is
read off the `-netdev` options of the QEMUs that live. So what TestRunner assumes of
a test body is what the test functions do.

**Migration** is `do_migration` and the avx2, scalar and fp_sse tests, each with
its guest, and the simple and kernel tests, whose guests repeat a line and compare
nothing; the line (`HELLO`, `INIT:ALIVE`) is an "OK" in the model. The guest is a loop over `gpc`; QEMU's migration is external and may
hand the guest over at any point of it, with or without the registers under test.
Each VM has a serial log of its own, so a line that was begun on the source is
incomplete on both. `AwaitReady`, `MigrateIncoming`, `Migrate`, `PollDst`,
`PollSrc` and `Verify` are the calls of the test in order; `TestFails` is the
error path of each.

**TestSelection** is the path from attributes to the report: `Expand` is the
macro (`cartesian_product`, optional parameters, stacked attributes, skip),
`Configure` is `Config`, `Select` the filter closure of `main` for one entry,
`Schedule` the repetition, `Report` the counts, the file and the exit code. A report
that cannot be written is a panic (`junit.rs`), which ends the program at `Panic`. A label is the
set of what a token can find in it: its name, keys and key-value pairs (`Texts`), and the
tokens that are part of one of these, as `os` is of `test_os_boot`. Which are is the
constant `PartOf`, since strings have no structure here; a token has no separator
in it, so that nothing it finds goes beyond one text. `FilterDecides` takes `skip` from the
attributes as written and not from the entries the macro made.

**Reboot** is `test_os_reboot` with `ssh_command` and `ssh_fire_and_forget`:
`AwaitBoot` and `AwaitReboot` are the two polls for the banner, `SshAttempt`,
`SshExecutes` and `SshReturns` the retry loop around an ssh child, `FireAndForget`
and `FireReturns` the reboot command, `CheckUptime` the final assertion, which also
fails on an answer that is no number. The guest
boots, starts sshd before or after the banner, and goes down when it likes.

## 3. What the runs show

| run | states | shows |
|---|---|---|
| `serial_reader` | 374,180 | `WholeLines`, `FirstMatch`, `PollStartsAtLine`, `PollEnds`, and `AbsSpec`: the loop implements LineReader |
| `qemu_process` | 21,136 | `DropLeavesNoChild`, `NoStrayKill`, `QuitOkMeansOwnExit`, `AlwaysEnds` |
| `tap_pool` | 745 | `Conserved`, `NoNeedlessFailure`, `PairsDoNotMeet` |
| `test_runner` | 103,228 | `TapsInUseAreHeld`, `ExitIsHonest`, `NothingLeft`, `RunEnds` |
| `test_body` | 167,144 | `OutlivesQemu`, `NothingShared`, `SameMachine`, `SshFindsOwnGuest`, `NothingStays`, and `RunnerSpec`: the test functions are test bodies as TestRunner has them |
| `migration` | 3,644 | `MigratedMeansHandedOver`, `VerdictIsRight`, `SuccessIsSeen`, for all five guests |
| `test_selection` | 13,560 | `ExpandsToProduct`, `FilterDecides`, `ReportComplete` |
| `reboot` | 3,215 | `PassMeansRebooted`, `RebootsOnce`, `RebootEnds` |
| `qemu_orphan`, `qemu_logs`, `migration_avx2`, `reboot_forget` | | one statement of the repository each that the code does not keep (section 6) |

Every passing run also checks its module's `TypeOK`.

Bounds, and why they are enough:

- SerialReader: logs of up to five bytes over two letters and the newline, a
  buffer of two bytes, a timeout of one tick. Five bytes hold two lines with a
  match and the beginning of a third, or one line that fills the buffer twice; a
  buffer of two is smaller than a line with a match, so that lines straddle it.
  `MaxLog` bounds the model; the proofs hold for every value of it.
- QemuProcess: timeouts of one tick, two for `Drop`. The code compares a time
  with one deadline at a time, so "before" and "after" are what can be told apart.
- TapPool: five threads and four pairs, one pair in the middle missing. The pool
  runs dry, and pairs come back in every order.
- TestRunner: two threads, three tests, any of them with taps (`needsTaps`), and one
  pair: threads compete for it, and a thread runs a second test after its first.
- TestBody: three tests in parallel. Three migrations of the full OS compete for
  two pairs of taps: two run side by side on the bridge, the third finds the pool
  dry or takes a pair that came back. These have no load (stress-ng), which only
  adds two uses of ssh. Three mixes have the other kinds of test, one
  of them a boot of the OS beside a migration with load. A thread that runs two tests one
  after the other does no more than two threads of which one waits, so each test
  has its own. `MaxFailed` follows behaviours up to the second failure of a test: the
  state right after it is still checked, but nothing later. Tests meet only in the
  pool, where a failure gives back a pair as a success does, and the theorems have
  no such bound. The tests are symmetric, since `MCPlans` holds every assignment of
  a mix to them; only safety is checked under the symmetry. MACs, which are
  random, are taken to differ.
- Migration: the guests have finitely many states; no bound is needed.
- Reboot: timeouts of one tick, an uptime limit of three, and room for a third
  boot, so that a second reboot would be seen.
- TestSelection: three sets of test functions (stacked attributes, optional and
  empty value lists, skip in one attribute of two), every filter of one or two
  tokens out of ten (some of them parts of a name or of a value), `TEST_REPEAT` 0, 1 and
  2, report on and off.

`CHECK_DEADLOCK FALSE` stands in the configurations of programs that end:
their last state has no successor. TapPool never ends and is checked for
deadlock; for the others `PollEnds`, `AlwaysEnds`, `RunEnds` and `RebootEnds` say
more than the absence of a deadlock does.

### Fairness

- SerialReader: weak fairness of the polling thread's steps. It runs on a thread
  of its own, and reads of a regular file do not block. None of the guest, the
  clock or SIGINT: the sleeping thread advances `elapsed` by itself.
- QemuProcess: the test thread takes its steps, a test body comes to its end
  (strong fairness, since it may start any number of polls before), and the
  kernel carries out a SIGKILL. Nothing is assumed of QEMU, which may hang for
  ever; that `Drop` and `quit_and_wait` return rests on their kill alone.
- TestRunner: threads run, and what the harness does around a body comes to its
  end: `spawn` has a deadline for each of its waits, and `Drop` kills what does not
  leave; both are part of `AlwaysEnds` in QemuProcess, which claims them
  whatever QEMU does. Nothing is assumed of `Body`, since an established ssh session
  has no timeout. `RunEnds` is therefore conditional: if no thread stays in a body
  for ever, the run ends. `reboot_forget` shows that the condition can fail.
- Reboot: the test's own steps, and the end of an ssh child that is still
  connecting, which `ConnectTimeout` bounds (`HarnessSpec`). `FairSpec` adds that
  established sessions end. Nothing in the code bounds those, and without the
  assumption `RebootEnds` fails where `reboot_forget` does.
- Migration: a VM that runs executes its guest, a source that was stopped
  completes, and the test polls again (`FairSpec`). Nothing says that the handover
  happens, and no timeout is assumed to come: `SuccessIsSeen` begins where the guest
  runs on the destination.
- LineReader, TapPool, TestBody and TestSelection state no fairness: only safety
  is claimed of them.

## 4. What is proved

All constants are arbitrary, subject to the named assumptions of the modules:
`NL` is a byte, `Expected` is a non-empty set of pairs of bytes, `Capacity` is
positive, timeouts are natural numbers, the room for boots (`MaxBoot`) is not zero,
the set of threads is finite and not empty, the sets of tests are finite
(`PoolAssumption`, `TestAssumption`), the guest programs are among the five that the
repository has (`ProgramAssumption`), a plan of a test is one that a test
function and its parameters can make (`PlanAssumption`), no two test functions of a
program have one name and no parameter lists a value twice (`ProgramsAssumption`),
and a filter token has a sign (`InputAssumption`). The compiler sees to the first of these two within
a Rust module; the macro checks neither, but the attributes of the repository are like that,
and with a value listed twice `ExpandsToProduct` would be false: the macro would register
two tests with one label. No theorem assumes a bound on tests, threads, devices, timeouts,
parameters, tokens or bytes. A module with theorems ends in them; what comes before
is the inductive invariant (`IInv`), its parts by name, and one lemma per action
(TestBodyProofs has two more parts, for ssh and for TestRunner).

**SerialReaderProofs**: `TypeCorrect`, `LinesAreWhole`, `NoMatchIsMissed`,
`NoByteIsLost`, and `Refinement`, that SerialReader implements LineReader. `WholeLines`
is about the line handed over last; to know it the proof needs what the bytes
held between two lines are. The inductive invariant therefore adds: `partial` and
`buf` together are the positions from the end of the last line to `pos`, with no
newline in `partial` nor, until a chunk is complete, in `buf` (`Waiting`); the only
newline in a complete chunk is its last byte, and the last line ended in one
(`AtNewline`); and `line` is a line of the log that ends there (`LastLine`). Under
it `Line` maps to `TakeLine`, `Poll` to `Poll`, the three ends to `GiveUp`, the
guest's byte to `Append1`, and every other step to a stutter.

**QemuProcessProofs**: `TypeCorrect`, `DropCollects`, `KillsAreOwn`,
`QuitOkIsHonest`. None of the three properties is inductive alone. `StatusInv` ties
the views of the child together: a known exit status means that the child is
gone, a child that is gone has a known status unless the kernel reaped it, and
there is no child only before the fork or if it failed. So a kill that `Child` lets
through meets a child that is still its own. `BeforeKill`, the steps before the
first kill, have sent none: hence an Ok of `quit_and_wait` excludes one.

**TapPoolProofs**: `TypeCorrect`, `PairsAreConserved`, `NobodyMeets`, `FailsOnlyIfDry`, and from it
`EnoughDevices`, the README's rule: if the devices of all `n` pairs exist and there
are as many threads as jobs, `allocate_taps` finds a pair for every thread that
has none. The invariant adds that a `TapPair` is one index and that before the
first allocation nothing is held; `NobodyMeets` (no device and no address is with
two tests) follows from that and from devices and octets being one-to-one in the
index; `FailsOnlyIfDry` is a pigeonhole argument: with
an empty pool every pair has a holder, and with fewer holders than pairs one test
would hold two. `EnoughDevices` assumes `Cardinality(Worker) = Jobs`: rayon gives as
many threads as `TEST_JOBS`, except for `TEST_JOBS=0` (section 6).

**TestRunnerProofs**: `TypeCorrect`, `TapsOutliveQemuProcesses`,
`ExitCodeIsHonest`, `AllIsGivenBack`, and `NoTestWantsForTaps`. The threads act on
`TAP_POOL` only by TapPool's actions, by the way the module is built; the lemma
`RunnerUsesPool` states it, so that what
TapPoolProofs shows of the pool alone holds inside the runner; `PoolNames` carries it
over. `TapsInUseAreHeld` says nothing of the stage a thread is in and is not
inductive: `Holding` ties the pair and the QEMUs of a thread to its stage. The exit code
is computed from `outcome`, and the property speaks of the bodies that ran:
`Placed` says that every test is in exactly one of three places, the queue, one thread, the
results, and `Honest` that in each of them what is recorded of it is what became of its
body, so that no result is lost, doubled or attributed to another test. SIGINT
changes nothing of that, which is why the theorem needs no case for it.
`NoTestWantsForTaps` is `EnoughDevices` for the composed system: with the devices of
all pairs and as many threads as jobs, no test fails for want of taps.

**RebootProofs**: `TypeCorrect`, `PassProvesReboot`, `AtMostOneReboot`, for all
timeouts, all interruptions and any number of attempts of ssh. The invariant
counts banners: the guest has printed one per boot (`Banners`), the test has taken
one per wait (`Taken`), and before the session of `sudo reboot` nobody told the guest
(`Untold`, `Stages`). So the second wait ends only after the second boot, and from
then on whoever answers is the restarted guest (`Answered`).

**MigrationProofs**: `TypeCorrect`, `OkMeansHandedOver`, `VerdictHolds`. `VerdictIsRight` is about
what is in a log and says nothing of a guest between two prints. `Fate` does: as
long as nothing is lost (`Intact`), what the next comparison reads is the pattern;
once live registers are lost (`Noticed`), they or the copy made of them stay lost until they
are compared and the verdict of that comparison is FAIL, up to a line torn by the handover.
`Owner` (one VM has the guest, the run states tell which), `Driven` (how far the handover is when the
test is where it is) and `Untouched` (the destination has printed nothing before it
runs) are what relates this to the test.

**TestBodyProofs**: `TypeCorrect`, `NothingIsLeftBehind`, `UsedOutlivesUser`,
`QemusAreApart`, for every set of plans, any number of tests in parallel and a
failure at any operation. The argument is one about order. `Rank` numbers what
acquires something; `BodyOrdered` shows that every body, whatever its plan, has its
operations in that order, each at most once. Hence `Stacked`, the centre of the
invariant: the stack of locals is sorted by it, with nothing on it that `todo` has still to
make. What a value needs was made before it (`Homes`: files are in directories
that live; `Machines`: each QEMU is the one the configuration of its plan describes,
and what it uses is there; `HoldsTaps`: a test holds a pair exactly while its `TapPair`
is a local; `Present`: the operations that read what earlier ones wrote), so `Drop`, which takes the greatest, takes nothing away from
what is left. The QEMUs of failed spawns are outside of that order, since nothing ever
drops them: `Abandoned` says that each has the command line of its plan and test, `Blamed` that its
test has failed and has no more than one of them. Hence what the theorems say of
them: they keep sockets and logs of their own, and meet another QEMU on a tap only
when their test has given up its pair. Each action's lemma shows the invariant
for the test that takes it and that it leaves the others alone (`LeavesOthers`); that
QEMUs of different tests are apart follows from the names of their
directories and, for taps, from TapPool's `Conserved` (by the lemma `BodiesUsePool`). `QemuUses`
reads off a command line what it refers to (`ArgsAreOptions`): it is a lemma about `Args`
for every configuration, not a field of the state.

`SshIsAnswered` is in the same module and needs a second invariant, `Reach`, on top of
`IInv`, since nothing there says what is on a disk or in a guest. `DiskIs` says it by position:
`BodyLayout` shows that every body from the OS image copies its three files between the
taps and the spawn (`CopiesAfter`), so how many are on the disk is how many
operations are done since. `GuestIs` follows the guest: it boots when all three
are there, one QEMU has it while the body runs, and a migration takes it along;
`KeyIs` keeps the key where the disk's name for it points. That no other guest
answers (`OnlyOneAnswers`) is TapPool's `Conserved` with `HostOctet` one-to-one. What
makes it more than bookkeeping is that the addresses are written to the disk long
before they are used, and stay there while pairs come and go at other tests.

`MigratesToSameMachine` compares the command lines of source and destination. They
are sequences of unknown length, put together from a dozen parts, of which the
destination has one more (`-incoming`), so that places do not correspond. `Matches`
takes each option that the guest sees from its place in one line to its place in the other, in
order; `AlikeConcat` shows that two such maps of parts make one of the whole; and
`AlikeVisible` that then as many options precede each of them on both sides. The
configurations themselves (`ConfigsAreTwins`) differ in directory, network backend and
`incoming` only, and the MAC is the same with either tap.

The third part of the module is `BodiesAreRun`, that TestBody implements TestRunner. So what
TestRunnerProofs shows of a run holds of the test functions that the repository has, up to
SIGINT, which TestBody leaves to TestRunner. The
view that the runner has of a test (`Stage`, `UsesOf`, `Outcome`) is computed from what the
test has (`Views`, `Places`): it uses its pair exactly while the source is a local, the
others being gone by then or never without it. `Layer` is what that needs
beyond `IInv`: a local is one that the body of its plan makes (`Made`), and a failure
ends the body (`Going`). A lemma per step of TestRunner (`AsClaim`, `AsAlloc`, ...) says
which changes of the view are that step, a lemma per kind of operation (`...Seen`) which of
them it makes. The failing operation is the case with content: the same `?` is an
`Alloc` that finds nothing, a `Spawn` that fails or a `Body` that fails, by what is left
of the body, and it leaves an orphan in the last two only.

**TestSelectionProofs**: `TypeCorrect`, `ProductIsRegistered`, `FilterIsAsWritten`,
`NothingIsDropped`, for all test functions, filters and numbers of repetitions.
Combinations, entries and sums are folds over data of any length, and the induction
theorems of the library cannot be instantiated here. The proofs take a set for the
predicate instead: a set with 0 and every successor has all numbers, or the least one
that it lacks would have a predecessor (`UpFromZero`, by well-foundedness). That
also shows that the recursive functions which `FlattenSeq`, `FoldLeft` and
`FoldFunction` choose exist (`JoinedExists`, `FoldedExists`), so that they can be reasoned
about. What the folds keep is `Lists`: a sequence lists elements, each at one place of its own and
nothing else. One parameter more makes every combination so far with every
value (`Continues`), so the combinations of an attribute list its assignments
(`AttributeLists`), those of a function its choices (`FunctionLists`), and the entries of a program
the choices of all its functions (`ProgramLists`): the bijection that the product's
cardinality needs. The inductive invariant says of each entry the filter closure has looked at on
which side it was put and why (`Sorted`), and of what was made from that, that it is still
what was made (`Made`, `Scheduled`, `Reported`). `SumOfEqual` is the report's
number of tests: equal summands add up to the product in whichever order.

## 5. What is only model-checked

- All liveness (`PollEnds`, `AlwaysEnds`, `RunEnds`, `RebootEnds`, `SuccessIsSeen`): TLAPS does not
  reach properties under fairness here.

Every safety property that a passing run checks is stated by a theorem, and so are the two
refinements (`AbsSpec`, `RunnerSpec`).

## 6. Where code and documents disagree

1. `qemu_orphan`. An error of `spawn` after `Command::spawn` drops a bare `Child`,
   which neither kills nor waits (process.rs:427), while `main.rs` promises
   "proper cleanup" on an interrupt. The run is about a SIGINT that reaches the
   harness only: a Ctrl-C in a terminal goes to QEMU as well. The pair of taps of
   such a test returns to the pool while that QEMU is attached to it, so that the
   next test may find its devices in use. This is the exception in `NothingShared`,
   and the reason why `TapsInUseAreHeld`, `OutlivesQemu` and `NothingStays` speak of
   QemuProcess values and say of other QEMUs only that a failed spawn left them.
2. `qemu_logs`. `KEEP_LOGS` is the "directory to keep logs of all tests"; the copy
   is made by `Drop`, so a test whose spawn fails after the fork leaves none.
3. `migration_avx2`. "Verify YMM registers survived migration": if the handover
   falls between the guest's comparison and its first byte of output, the OK that
   the test accepts on the destination was decided on the source. The scalar test
   has a wider window still: the guest reloads the registers in every round, and
   a loss while it prints or before it loads is overwritten. `VerdictIsRight`
   states precisely where a loss is never missed.
4. `reboot_forget`. `ssh_fire_and_forget` sends a command "without waiting for a
   response", with `Command::output()`, which waits for the ssh child; if the
   guest vanishes without closing the session the call does not return, SIGINT
   included, and with it the run (`RunEnds` excludes this case).

Smaller ones, without a run: `quit_and_wait` says that it prevents `Drop` "from trying
to quit/kill again" (process.rs:581), but leaves nothing behind that `Drop` looks at:
under KVM, `Drop` executes quit on the dead connection, fails, sleeps, and calls
`kill`, harmlessly (`NoStrayKill` holds: `Child` remembers the exit status); `TEST_JOBS=0` is accepted and gives one thread per CPU
and an empty pool, so every test with taps fails however many devices exist;
`basic.rs:74` speaks of a trimming in `poll_line` that the code does not do; values
with capital letters, such as a CPU model, cannot be written as filter tokens.

## 7. What is not modelled, and why

- The wording of QEMU's options, YAML, XML and log messages, and the parsing of
  `info usernet` by `ssh_port`: formatting without control that anything else
  depends on. Options that every command line has alike (`-display`, `-accel`) are
  left out of `Args`.
- MMIO, PIO and vmport guests: straight-line programs that check a device of QEMU
  and keep no state the harness sees. Of the boot stubs and `lm_init.c` only the
  printing loops are in Migration; its `malloc` is taken to succeed. Build
  scripts, CI and the OS image.
- A guest that prints without a newline for ever: `read_until` then stays in its
  loop past any deadline. `MaxLog` excludes it, and `PollEnds` holds for guests that
  print finitely much only.
- Regular expressions in `poll_line_match`. Text inside filter tokens: `PartOf` tells which
  token is part of which text (`smp=1` of `smp=16`), and nothing computes it.
- An error of `read_until` of kind `WouldBlock` or `TimedOut` (process.rs:524). It gives
  `NoProgress` and drops what this call had read; a regular file does not
  return it, so that `ReadError` is the only error in SerialReader.
- The orphan of a failed spawn as a guest. A tap device serves one QEMU, so a test
  that gets its pair fails at its own spawn before it tries ssh; `SshFindsOwnGuest`
  counts the guests of QemuProcess values only.
- More than 253 jobs, with which a host octet (2 plus the index) leaves its range.
- Two guests that draw the same MAC, neighbour caches on the bridge, and the
  snapshot overlay of the OS image, which a migration does not carry over.
- SIGINT in TestBody: a test sees it as an error of a poll or not at all, which
  `Fails` has; when it comes is TestRunner's and SerialReader's part.
- The moment between the end of a command and the harness reading ssh's status:
  `Codes` gives 0 only while the guest that ran the command is still there. A guest
  can restart within it, but only after a reboot command, whose status nobody
  looks at.
- A guest that crashes and restarts by itself during the reboot test; it would
  count as the reboot.
- Registers that `serial_print` itself uses are excluded from the scalar guest's
  loss; the several register groups of the fp_sse guest are one.

## 8. Plan

Written, in this order: SerialReader with LineReader, QemuProcess, TapPool,
TestRunner on TapPool, Migration, TestSelection, Reboot, TestBody on TapPool and
under TestRunner; proofs for all of them.

Next, the model: the MMIO and PIO guests as what their checks can and cannot
detect; QMP as a protocol of its own under QemuProcess, with `stale` shown to be
what its unread replies amount to.
