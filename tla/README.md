# A verification of zk-arche-compare in TLA+

The repository compares three authentication protocols for small devices:
ZK-ARCHE, EDHOC over TCP and mutual TLS. Its own logic is in the ZK-ARCHE
server and client, in Rust (`src/src/bin/`) and again in C
(`src/c_implementation/`). What it measures of them comes from programs in
Python (`src/experiments/`): a runner of tests in emulated networks, three
smaller scripts of that kind, and a benchmark for real devices.

These modules model the Rust server and client and the C server (what threads,
locks, files, crashes and lost messages do to the guarantees that they are built
for), and the programs that measure them (whether a measurement is of the
session that it is said to be of, whatever is late, fails or is interrupted).
The plan below says which parts come next.

## The system

| part | state | operations | what is hard |
|---|---|---|---|
| replay cache (`ReplayCache`) | two generations of keys `(pid, nonce_c)`, dirty flag, count of unsaved inserts, time of the last snapshot | `check_and_insert`, `take_persist_blob`, `serialize`, `load` | rotation at the limit; bookkeeping of what is unsaved |
| authenticated sessions (`handle_auth_common`) | the cache behind a mutex, `replay_cache.bin`, `replay_cache.bin.tmp` | claim a key, write a due snapshot, verify, confirm, write at the end | threads that write with and without the mutex; one temporary path for all; failed writes; crashes |
| enrolment (`handle_setup`) | registry and handle index, each behind a lock; `registry.bin` | look up, exchange proofs, insert, save, acknowledge | check and insert under different lock sections; save fails after the insert; crash before the acknowledgement |
| failure tracker (`FailureTracker`) | per peer: first failure, count, end of a block | `is_blocked` (which prunes), `note_failure`, `note_success` | a window that starts with the first failure; pruning on behalf of others; a block longer than the window |
| accept loop and `handle_client` | `active_connections`, threads | accept, compare-and-swap, spawn, dispatch, drop | the limit against ending threads; the check at the start of a setup, the count at its end |
| ZK-ARCHE client | `device_root.bin`, `device_pub.bin`, `role_cred.bin`, `server_pub.bin` | setup, session, pin | files written one by one with crashes between; the end of a session as each side sees it |
| C server and client | as above, in one thread | as above | a save by two renames; a cache saved only when due; the key the tracker counts by |
| EDHOC and mTLS binaries | byte counters | one exchange per connection | framing |
| Mininet test runner (`mininet_tests_123.py`) | network, traffic, server process and its log, offsets into the log, rows, result files | build, start, enrol, the steps of tests 1 to 3, collect, write, tear down | the server's lines come when they come and are told apart by offsets; a client, the server or the script may fail at any point |
| single-protocol scripts (`*_mininet_50_iot.py`) | network, server process, certificates, rows, one result file | prepare, start, one client after the other, write, stop | a failing client raises in one and makes a row in two; the file is emptied before it is written |
| hardware benchmark (`hardware_resource_benchmark.py`) | run number, a time file for each run, result file | run under `time`, parse, write and flush a row | a stop between two runs |
| benchmark harness | server process, work directories, samplers | start, probe, enrol, run, stop | stale listeners; counting failures as successes |

The parts interact so: the accept loop spawns a thread for each connection that
finds a slot; `handle_client` reads the message type and calls `handle_setup`
or `handle_auth_common`; setups ask the failure tracker first, and every result
is told to it at the end; setups write the registry and the handle index, which
sessions read; sessions claim keys in the replay cache; both files are replaced
through `write_private_file_atomic` and read back by `main` at the next start.
The runner starts a server with its output in a log, enrols the clients one by
one (ZK-ARCHE), starts client processes and waits for them; of clients it reads
what they print, of the server what is new in the log after each step.

What makes each part correct: the cache admits no key twice while it is
remembered, remembers for the documented number of admissions and no longer
than twice that, and loses a bounded number in a crash; an acknowledged
enrolment is never lost and an id stays with its key; index and registry agree;
peers are blocked when and only when they earned it, and not for ever; the
connection limit holds and slots come back; nothing hangs. Of the runner: its
networks have no two hosts with one address and no flow without a sink; a row
is about one session, a session is in one server row at most and under no step
before its own; a full session is the session and the same client's setup;
result files are complete; and whatever fails once the network is built, everything
it started is stopped.

## Modules

| module | models | uses |
|---|---|---|
| `NonceGuard` | the abstract promise of a replay guard: what may be admitted and what refused, given the history | |
| `ReplayCache` | the cache alone, one action per critical section | `NonceGuard` (refinement) |
| `ReplayServer` | threads in `handle_auth_common`, the mutex, both files, failed writes, crashes | extends `ReplayCache` |
| `Enrollment` | threads in `handle_setup`, the registry's lock, both tables, the file | |
| `FailureTracker` | the tracker over discrete time | |
| `Connections` | accept loop, slot counter, `handle_client` around the tracker | extends `FailureTracker` |
| `Device` | the client with its four files and its server: setups, sessions, pinning, resets | |
| `CServer` | the C server's one thread: setups, `registry.bin` and `registry.bak`, sessions, its cache and `replay_cache.bin`, restarts | extends `ReplayCache` |
| `MininetNetwork` | the runner's networks and flows of background traffic, as operators over a profile | |
| `SessionLedger` | the abstract promise of a measurement: each session booked at most once, under no earlier step | |
| `MininetTests` | the runner with clients, server and log around it | extends `MininetNetwork`; `SessionLedger` (refinement) |
| `MininetScripts` | the three single-protocol scripts, which are one program with differences | |
| `HardwareBenchmark` | the hardware benchmark | |
| `ReplayCacheProofs`, `ReplayServerProofs`, `EnrollmentProofs`, `ConnectionsProofs`, `DeviceProofs`, `CServerProofs`, `MininetProofs`, `ScriptsProofs` | theorems | each extends what it is about |
| `MC*` | constants and symmetry for TLC | |

`PROJECT.json` maps every definition to the lines that it models. Some
correspondences deserve a word.

**Keys.** A key of the cache is the pair `(pid, nonce_c)`, a 64-byte string in
the code and a value of `Key` here. Nothing in these models depends on what is
in it.

**History.** `hist` numbers the admissions and says when each key was last
admitted; `verdict` is the last answer. They are what `NonceGuard` is about and
no action of `ReplayCache` reads them. A file carries the history of the time
its snapshot was taken, so that a restart can take `hist` back to it.

**Time.** `last_persist` matters only through "the interval is over", a
Boolean; `IntervalElapses` sets it at any moment. The tracker's instants are
distances from now, and `Tick` changes them. Any number of calls fits between
two ticks.

**Files.** `write_private_file_atomic` is three steps: open with truncation,
write, rename. `fd` says what the file a thread holds open *is* by now: another
thread may have renamed it onto `replay_cache.bin` or replaced it. A file is
missing, garbage, or a snapshot. A crash keeps what was written, as the death
of a process does; loss of unsynced data in a power failure is not modelled.

**The forced snapshot.** Line 1351 takes the guard in the scrutinee of an
`if let`. In edition 2021 that temporary lives to the end of the block, so the
mutex is held through the write. `FinishWrites` says so by keeping `lock`;
the snapshot of line 1214 is bound by a `let` and written unlocked.

**Registry lock.** Setups read under the read lock for one step and write under
the write lock from `Commit` to the end of the save; `writer` is that lock. The
index has its own lock, held for one assignment inside that section.
`registry.bak` is written and never read: it is left out. The registry's own
temporary file is written with the write lock held, so its three steps are one
(`Save`); the registry being replaced in one rename, a crash leaves the old
file or the new one.

**Device.** The client's processes run one after the other over one state
directory. Each file operation of a process is a step, and so is each message,
so that either side may stop between any two. A message is written by one side
and read by the other later, also after the writer is gone; a server thread
whose client has left goes on until it notices, while the device may already be
in its next setup. A secret, a commitment or a key is a number that is used
once; what is derived from a root secret stands under the same number, and a
proof verifies if it was made with the number that it is verified against.
How a session ended is kept with its
connection: `accepted` is the record that the server verified the client with
and the server's own key, `reported` the client's last message if it reported
success, `confirmed` whether the server saw that. Three things are removed from
outside: the server's state directory, the device's, and the device's
`role_cred.bin` alone, which the next process makes anew under the root secret
that is enrolled (line 418). The last happens in the model only when no server
thread is at work any more: otherwise a setup of a client that left may put the
old credential back after the device was told of the new one
(`ToldMeansEnrolled` is violated without that guard, and a session is turned
away though the setup before it ended well).
Fast lookup finds the same record as the scan (that is `IndexMatchesRegistry`
of `Enrollment`) and `--repeat` is a session after the other.

**C server.** One thread serves one connection after another, so a step of
`CServer` is what happens between two points where it can stop: a message, or a
file operation. `replay_cache_check_and_insert` does what the Rust method does
and `CServer` takes its definitions from `ReplayCache`; the difference is that
`dirty` is cleared after the write and that nothing is written at the end of a
session. `save_registry` moves `registry.bin` to `registry.bak` and then renames
a new file into place; `load_registry` reads the first only. The C server does
not start on a file that it cannot read, but with one writer and a rename there
is none. A crash is any end of the process, `SIGPIPE` included, which `main`
does not ignore; errors that only `fflush`, `fsync` or `fclose` would report are
not looked at by the code and not modelled.

**Measurements.** A duration, a byte count or any other measured number stands
for the session that it was measured of, and a sum for the set of its sessions;
`{}` is `None`. So `full = {setup, session}` says that a full session was added
up from the right two numbers. A line of the server's log is a session or some
other line. The runner's steps are numbered: 0 is the enrolment, 1 and 2 are
tests 1 and 2, and `2 + r` is round `r` of test 3; `Selected` are those of
`--test`, and `Continue` goes from one to the next as `run_protocol_tests` does.

**Late lines.** A session is over for its client before the server's thread has
printed its line. `pending` are the lines to come, and `PrintLine` prints any of
them at any moment. The 0.2 s of sleep in `collect_server_metrics` is the guard
that at most `MaxLate` of them are still to come; nothing in the properties
depends on that bound but the size of the state space, and the theorems hold
for every value of it. The wait for setup lines is counted in readings of the
log (20 in the code, `MaxPolls` here) and has no guard on time at all.

**Peers.** ZK-ARCHE's server prints its peer as `Some(10.0.0.2:50000)`, the
other two as `10.0.0.2:50000` (`zkarche_server.rs:1468`). What the runner takes
for the address is the text before the first colon: `PeerHost` is the pair of
what is left of the prefix and the last octet, and `ByIp` finds the clients
whose address it is.

**Finally.** `InTry` are the points inside the `try`; an exception or control-C
there goes to `stop traffic`, the `finally`. Before it, `project` and `next`
(`PrepareRun`: directories, certificates, assignments) go to `failed` with
nothing to clean up. `build_network` is called before the `try` as well (line
1116), and it makes shells, switches and links as it goes: if it raises
(`BuildNetwork` without a gateway) or is interrupted (`BuildInterrupted`), the
run goes to `failed` with `net = "partial"`, which nobody stops. Control-C inside
the `finally` is not modelled. `bound` is whether `locals()` has `bg_procs` yet:
traffic that was started by a call that did not return is in nobody's list.

**Single-protocol scripts.** They have the same shape; what differs (pinning
and setup of ZK-ARCHE, certificates of mTLS, what a failing client does, and
which forms of a metric line the pattern accepts) is written as a condition on
`script`. `Understood` compares the pattern with what the client prints. The
three scripts and the hardware benchmark share nothing, so one run checks them:
`MCMininetScripts` picks one program and runs it.

**Bench mode.** `ZKARCHE_BENCH_MODE` turns persistence and the tracker off. It
is a constant of `ReplayCache`, `FALSE` in all runs; `Connections` has it off.

## Runs

All passing runs finish within three minutes.

| run | question | bounds |
|---|---|---|
| `replay_one_session` | With sessions one after another: is a key remembered as long as promised, do completed sessions survive a crash at any step, does the file always load, is the loss of a crash bounded, do callers see `NonceGuard`? | 5 keys, one thread, generations of 2, 7 payloads (three rotations; the fifth key makes the cache forget the oldest, which come again), a crash, a failed write |
| `replay_threads` | With overlapping sessions: do callers still see `NonceGuard`, does every session end? | 3 keys, 2 threads, 3 payloads, generations of 1, a crash, a failed write |
| `enrolled_devices` | Do acknowledged enrolments survive, do index, registry and file agree, do setups end? With one setup at a time, does an id stay with its key? | all requests over 2 ids, 2 keys and 2 role commitments, 2 threads, a crash, a failed save; each property is about the behaviours that its comment names |
| `connections` | Do the limit, the slots and the blocks do what they are for, does every connection end? | 3 threads for 2 slots, 2 failures within a window of 1 tick, blocks of 2; the state space is closed, no further bound |
| `device` | Does what the device was told hold, are its sessions accepted, do both sides mean each other, is it enrolled in the end? | 2 connections at once, 2 faults of any kind (a stopped client or thread, a failed save, a server restart), one reset of either state directory or of the credential; any number of setups, sessions and pins |
| `c_server` | Is a saved record always in a file, does an id stay with its key, is its cache a `NonceGuard`, is a crash's loss counted? | 2 devices, one of which comes back with another credential, 3 keys, generations of 1, 3 admissions, a crash, a failed rename or write |
| `mininet_tests` | Is every measurement of the runner about what it is said to be about, are the files complete, is everything torn down, does it end? | 2 clients, 2 iterations, 2 readings for the setup lines, one late line, one fault (an interrupt, a failing client or session, a server that dies), five command lines: each test alone and all three, one protocol and all, with and without `--repeat`, over five networks of which one cannot be built |
| `standalone_programs` | Do the three scripts and the hardware benchmark leave whole files and nothing running? | 0, 1 and 3 clients; 0 and 3 runs; any number of faults at any step |
| `replay_stale_file` | Two sessions at once: is a completed session's key in the file? **No.** | 3 keys, 2 threads |
| `replay_torn_file` | Two sessions at once: does the file always load? **No.** | 3 keys, 2 threads |
| `enrolled_rebind` | Two setups at once: does an id stay with its key? **No.** | 2 threads |
| `mininet_server_setup` | Is a server row's full session the setup and the session? **No.** | one run of test 1 with 2 clients, no faults, no late lines |

The bounds are enough for what each run asks: a generation of `n` keys behaves
as one of 2 (rotation happens at the limit and between two rotations nothing
but sets grow), races need two threads and never three (each of the races here
is between one writer and one other step), and a crash after a crash starts
from a state that some single crash also leaves. In the runner, two clients are
what it takes to give one the setup of the other, two iterations what it takes
for a round to follow a round and a late line to land in it; its clients do not
meet each other but in the log. With two faults instead of one the run takes
longer than is practical, and a second fault finds the script in its `finally`
or a client already failed; the theorems of `MininetProofs` have no such bound.

`ReplayServer` bounds the payloads (`MaxArrivals`), so it stops when they are
used up: its runs do not look for deadlock, and `SessionsEnd` says that the
only way to stop is with every session over. The programs in Python end, so
theirs do not look for deadlock either; `RunEnds` and `ScriptRunEnds` say how
they end (the hardware benchmark has no wait in it but for its command). All
other passing runs look for deadlock.

The constants of the code are `REPLAY_GEN_MAX` 25000,
`REPLAY_PERSIST_EVERY_INSERTS` 64, `MAX_ACTIVE_CONNECTIONS` 128,
`FAILURE_WINDOW` 60 s, `FAILURE_BAN` 120 s, `MAX_FAILURES_PER_WINDOW` 8; the
assumptions in the modules (`Window < Ban`, limits positive) hold of them.

### Properties worth a word

- `FloodBanned` has `2 * MaxFailures - 1` failures, not `MaxFailures`: the
  window starts with its first failure and is not sliding, so failures on both
  sides of its end are counted apart. This is the exact bound.
- `FailedSetupsBounded` is exact too: `2 * (MaxFailures - 1)` for two windows
  and `2 * (MaxActive - 1)` for the setups in flight when each fills up.
- `LossBounded` counts one batch for the snapshot being written and one for
  each failed write, because `take_persist_blob` clears `dirty` before the
  write and nothing sets it again when the write fails.
- `CompletedKeysDurable` is about the latest session of a key. A key that was
  forgotten may be admitted again, and until that session completes its new
  claim may be in no file: `ClaimAdmitted` takes the key out of `completed`.
- `IndexMatchesRegistry` holds of devices that do not share ids or keys. With
  the race of `enrolled_rebind`, the index keeps an entry for the key that lost
  its id, until a restart.
- `SessionsAgree` compares two reports. A client that reported success was
  accepted by a server with the key it has pinned, under a record with its id,
  its public key and, unless it asked for the device-only mode and the server
  allows that, the credential that it used. The record may be of an earlier
  setup than the credential (see *Device*), so the role proofs matter: without
  their check the run has a violation. The property does not say that the server confirms every session that the
  client reports as done: the client is done when it has sent its tag (line
  1145), and the server may stop before it reads it.
- `Settles` is what idempotent setups are for: files of an interrupted setup,
  a record of a setup that was not acknowledged, a server thread that is still
  at work for a client that left, and the pin of a server that is no more, none
  of them keeps a device from being enrolled by the server that is there.

- `RowsAreTheLog` and `ImplementsLedger` divide the work: the first says that
  nothing in the log between the first offset and the last is missed or read
  twice, the second what this means for sessions. A session whose line comes
  after the last collection is in no row, and one whose line is late is in a
  row of a later step, with that step's test and round: the ledger allows both
  because the code does both.
- `SetupsExcluded` has the condition that the wait for setup lines was not given
  up. After `MaxPolls` readings the runner goes on, and a setup printed later
  is booked as a session of a test.
- `TornDown` has two exceptions, see *Finally*: traffic while `bg_procs` is
  unbound, and what is left of a network that `build_network` did not return.
  That one is allowed only when the script has failed: the next protocol is never
  begun on top of it, and a network that was returned is always stopped.
- `SavedSurvives` and `BindingKept` of the C server exempt the ids whose records
  a start without `registry.bin` leaves behind (`orphaned`): that start is what
  the code does, see the findings.
- `ResultsComplete` is about the files of client rows, written in one step. The
  collection of server rows may come back short (see `RowsAreTheLog`).
- `FloodBanned` is checked with one peer, whose own entry is what is pruned, and
  `NetworkSound` with 2 clients: the theorems have any number of clients below
  150, and `NetworkIsSound` the boundary at 150.
- `CsvWhole` says that no row says success of a session that was none. It does
  not say the converse, which fails for EDHOC's script, see the findings.

### Fairness

`FairServerSpec` has weak fairness of each thread's steps: threads are
scheduled, file operations return, `IO_TIMEOUT` (5 s) ends every wait for the
client, and the mutex is free again and again. `Enrollment` has strong fairness
for the two steps that wait for the registry's lock: `std::sync::RwLock` queues
its waiters, so a thread does not wait for ever on a lock that keeps being
released. `Connections` has weak fairness of the accept loop's attempt to get a
slot, of each thread and of time; accepting itself is not fair, nobody need
connect. New requests are never fair there. `Device` has weak fairness of
whatever step is possible (scheduled processes, reads and writes that return)
and strong fairness of two things its user does: pinning the server's key and
running the setup. That is an assumption about a person or a script that
retries, not about the code, and `Settles` is meant so.

`FairSpec` of `MininetTests` has weak fairness of the script's own step (it is
one process that is scheduled), of each client's end and of the server's
printing. The runner waits for its clients with no timeout of its own
(`communicate()`), so that they end is an assumption, which the timeouts of
every read and write of the three clients justify. `MCSpec` of `MCMininetScripts` has weak fairness of the scripts'
steps. Faults and interrupts are never fair.

## Findings

Four runs end in a violation that the code really produces.

1. `replay_stale_file`: a snapshot taken at line 1214 is written after the
   mutex is released. Another session then ends, finds nothing dirty (line
   1351 returns `None`), and completes with its key in no file.
2. `replay_torn_file`: all writers use `replay_cache.bin.tmp`. One thread
   truncates the file that another has written and is about to rename; the
   renamed file does not load, and `main` starts with an empty cache
   (line 1531).
3. `enrolled_rebind`: the collision check (line 1012) and the insert (line
   1064) are in different lock sections with two round trips between them.
4. `mininet_server_setup`: `add_zkarche_server_full_session_fields` looks
   clients up by the peer's text before the first colon, which for ZK-ARCHE's
   server is `Some(10.0.0.2`. No client has that address, so no setup measured
   by the server is ever attached, and every full session of a server row is
   the session alone, against the docstring at line 751.

Seen and not turned into a run: `check_and_insert` (line 1208) claims a key
before its proofs are verified, while `src/experiments/security/security_test.py:172`
says that the cache "avoids poisoning on invalid proofs". A block of
`FailureTracker` lasts 120 s and its window 60 s: a failure noted after the
window resets the entry (line 934), the block with it. The C server's
`load_registry` never looks at `registry.bak`, so a stop between the two renames
of `save_registry` makes the next start an empty one (`SavedSurvives` holds up to
that moment); its tracker counts by host and port
(`zkarche_server.c:142-157`), so failures of one host on several connections do
not add up; and after a failed save a device that comes back finds its record in
memory and is acknowledged unsaved (`AckedIsSaved` therefore asks for
`ioErrors = 0`). Its cache is written when a write is due at the claim of a session
(line 1113) and not when a session or the server ends, so a restart forgets the
latest sessions (`LossCounted` says how many). On the Rust server: two ids
enrolled with one key share a handle; tracker entries are pruned by setups
only; one failed `accept` or a failed `thread::spawn` ends the loop. Two clients
started in one directory may each write a root secret.

Of the programs in Python:

- The pattern of EDHOC's script (`edhoc_mininet_50_iot.py:147`) has no place for
  the field `Protocol:` that the client prints (`edhoc_client.rs:245`): no line
  ever matches, every row is `AUTH_FAILED` and has no numbers.
- With 150 clients or more, the addresses of the last clients are those of the
  first background hosts; `NetworkAssumption` excludes that.
- `--gateway-count 0` raises `IndexError` in a multi-tier network (line 601). By
  then core and aggregation switch, the link between them, the server's host and
  link and the first client's host exist, and the call is before the `try`:
  nobody stops them. Control-C while `build_network` runs does the same. Links
  of hosts go with the namespaces of their shells when the script ends; links
  between switches, which are in no namespace of their own, stay until they are
  cleaned up by hand (`mn -c`).
  The single-protocol scripts also build before their `try`, but have only
  links of hosts to lose.
- The generators of UDP flows send to sinks that were started for TCP (without
  `-u`).
- With `--clients 0`, the single-protocol scripts empty the result file and then
  raise at `results[0]`.
- Traffic whose start is interrupted is stopped by nobody, and a time file
  of the hardware benchmark whose run is interrupted is removed by nobody.
- That `--fixed-power-watts` is missing is noticed after the first run.
- Servers are stopped by `pkill -f` on their name: in Mininet that means every such
  server on the machine.
- With `--protocol all`, an exception in one protocol's run ends the others.

## Proofs

`tlapm` checks all theorems; they hold for every value of the constants that
satisfies the named assumptions.

- `ReplayCacheProofs`. The property of interest, `RetentionWindow`, is not
  inductive: that a key is remembered long enough depends on how full each
  generation is. `CacheInv` adds that the generations are exactly the last
  admissions, in order of age (`GenerationsByAge`), that admissions are
  numbered without gaps, and that the older generation is full once there is
  one. The other invariants follow from it and from counting. `Implements`
  shows that every step of the cache is a step of `NonceGuard` or a stutter.
- `ReplayServerProofs`. The same for the server around the cache, with any
  number of threads, failed writes and crashes. `CacheMoves` shows that threads
  touch the cache only in its critical sections. What remains is a restart, which
  reads a file that the threads write through one temporary path. `FilesInv` says that `replay_cache.bin`, the
  snapshots that threads hold, and the temporary file while a thread is about to
  write or rename it, each stand for an earlier moment of the history if they
  load, and for none if they do not. The temporary file of a dead process is
  not covered, since it may be of admissions that the restart lost; that is
  sound because every writer truncates it first. So a restart is a step of
  `NonceGuard`, and `RetentionWindow` holds through it.
  The rest is about a server with one session at a time (`Thread = {u}`), since
  with several the findings show that it fails. `AloneInv` follows its write
  step by step: the file always loads. `DurableInv` keeps the account: what is
  being written is the history as it is, since nothing is admitted meanwhile;
  a session that has got past its claim is in the file or the cache is dirty;
  the file has every completed key with its number; and the admissions that the
  file lacks are those pending, which `UnsavedBounded` bounds, and a batch for each
  cost, where a cost is a failed operation or the write under way. Outside bench
  mode, `CompletedKeysDurable` and `LossBounded` follow.
- `EnrollmentProofs`. Under `OwnIdAndKey` (a request's id determines its key
  and the other way round, as both are derived from one root secret), `Inv`
  adds to the two properties that registry, file and requests in progress hold
  only what was asked for, that what is in the file is in the registry, that a
  setup about to be acknowledged is in the file and that one about to be saved
  is in the registry. `AckedStaysEnrolled` and `IndexIsExact` follow.
  `FileFollows` needs no such condition: the writer's lock is held from the
  insert to the end of the save. `BindingStable`, which two overlapping setups
  violate, is proved in the two cases that exclude this: when setups do not
  overlap (`[]OneAtATime`; `BindInv` says that what the check found still holds
  at the insert, and that a restart goes back to bindings that memory still
  has), and when every device has an id and a key of its own.
- `DeviceProofs`. All safety properties of `device`, for any number of
  connections at once, faults and resets. A message may be older than the
  process that sent it, a server thread may still be at work for a client that
  has gone, and either side may have been reset since. `Inv` therefore says of
  the client process which of its files it has loaded and that they still hold
  that (`ClientInv`), of each connection whose keys are on it, whichever process
  opened it (`Talking`), of the registry that records are under their own key and
  that the file is never ahead of the memory, and of all of them together that
  whoever claims one root claims one credential (`ClaimInv`: records, messages
  under way and requests at work), so that a late setup cannot replace the
  credential of the device. Secrets are numbers not used before (`Used`), so
  that nothing left from before a reset speaks for the device after it.
  What a device was told rests on `PromiseInv`: whoever has been told, or is
  being told, is in `registry.bin`, and no record of it, in memory or on disk, has
  another credential than the one it has and claims (`Settled`). `ReportsAgree`
  rests on `Talking`: a session's request is of the process that has its
  connection open, and a server's answer is under way only to a client which
  still has the values that the accepted record was verified with (`Verified`).
- `CServerProofs`. All six properties of `c_server`, for any number of devices,
  stops and failures. `Inv` says which stage a request is in (`Control`), that
  what is in `registry.bin` was saved and what was saved is in memory, and in
  `registry.bin` or else in `registry.bak` (`Saved`), and that the file of the
  cache stands for an earlier moment of the history (`FileIsEarlier`). The last
  is what makes a restart a step of `NonceGuard`. Of `ReplayCacheProofs`,
  `SlicesOf` says of the generations in the file what `CacheInv` says of those in
  memory, and `AdmissionKeeps` takes the cache from one admission to the next;
  the proofs about both servers rest on the two.
- `ConnectionsProofs`. The counter equals the number of threads that hold a
  guard, and after the load it is at most what was loaded, because only the
  accept loop raises it; hence the limit.
  The tracker is proved by itself (`TrackInv`) and then found in the server:
  `TrackerInside` shows that the server implements `FailureTracker`: every step of
  it is a call of the tracker or none. Its windows do not slide, so an entry does not have the failures of the
  last 60 s. `Tracked` says what it does have: the latest failures are those the
  open window counted, those before it within reach are fewer than the limit
  since a block would have closed them, and the block is as old as the history
  says. `BanEarned` and `FloodBanned` follow by counting. For `FailedSetupsBounded`,
  `LimitInv` adds the setups in flight, which passed the check before the block
  and fail after it: at most `MaxActive - 1` besides the one that fills a window.
- `MininetProofs`. All safety properties of `mininet_tests`, for any number of clients below 150, of
  iterations, late lines and faults, and any set of command lines.
  `NetworkIsSound` is about the operators alone: octets and switches by arithmetic, flows because generators
  and sinks count from one port. `TearsDown` rests on `TearInv` (what is up at
  each point of the script, a partly built network only at its failed end), `EnrolsFirst` and `SessionsAreWhole` on `EnrolInv`
  (the clients before the one whose turn it is are enrolled and measured).
  `RowsFollowTheLog` needs that the offset never exceeds the log (`RowsInv`):
  only then does a line that lands between two readings fall into exactly one
  of the intervals. `ImplementsTheLedger` needs more: that no session is recorded
  twice. `FreshInv` says that sessions pending and printed are disjoint, that no
  line occurs twice, that no recorded session is of a step that is still to
  come, and which sessions of the step at hand may be recorded already. With it
  every step of the runner is a step of `SessionLedger` or a stutter: printing
  records nothing, a collection books, the death of the server loses what
  nobody has booked, and the next protocol opens a new ledger. `ResultsComplete`
  rests on `BookInv`: the rows of each step that is over are one for each of its
  sessions, those of the step at work are the sessions run so far, and the file
  of each test whose steps are over has exactly these rows.
  `SetupsExcluded` is a matter of counting: during the
  enrolment every line of the log is a client's setup and no two are of one
  client (`OnceInv` with `FreshInv`), so as many lines as there are clients are
  all of the setups (`EnoughAreAll`, by an injection), and the offset is put
  after them. A setup recorded later would be a second one.
- `ScriptsProofs`. `RowsOnDisk` of the hardware benchmark, whatever stops the program, for any
  number of runs. `BenchInv` adds where the program is between the end of a run
  and its row, and that the time file holds the usage of that run alone.
  `CsvWhole` of the three scripts: `CsvInv` says how many rows there are at each
  turn, which outcome each is of, and that the file is new only after the last.

Model-checked only: everything temporal under fairness (`SessionsEnd`,
`SetupsEnd`, `ConnectionsEnd`, `BlocksEnd`, `Settles`, `RunEnds`,
`ScriptRunEnds`), which is out of the prover's reach. Every invariant and every
action property of a passing run is a theorem, with these conditions:
`FileAlwaysLoads`, `CompletedKeysDurable` and `LossBounded` for one thread, the
latter two outside bench mode; `AckedEnrolmentDurable` and `IndexMatchesRegistry`
for devices with ids and keys of their own. `BindingStableAlone` of `MCEnrollment`
is `BindingStable` of the behaviours with one setup at a time, which
`BindingStableOneAtATime` proves. Proved without a run of their own: the type
invariants `CacheTypeOK` and `CServerTypeOK`, and `GenerationsByAge`,
`OldKeysForgotten`, `UnsavedBounded` and `AckedIsSaved`, which the theorems of the
checked properties use or imply.

## Plan

In this order:

1. Proofs: for the modules below, as they come. `Burst` and the bound on failed
   setups are exact, which no theorem says: TLC has a counterexample to each
   smaller number.
2. `Harness`: start, probe, enrolment and teardown in `benchmarks/lib`, over the
   client's outcomes of `Device`. `enroll_zkarche_clients` runs `--setup` with
   neither a pinned key nor `--allow-tofu-setup`, which `do_setup` refuses
   (line 836) after the root secret was written, and counts a directory with a
   root secret as enrolled (`protocols.py:187`); the probe of a new server
   succeeds if anything accepts on its port (`runner.py:49`).
3. The C client, whose setup and session differ from the Rust client's in the
   order in which files are written: `Device` with those steps as parameters.
4. The C server's failure tracker, composed with `CServer`.
5. EDHOC and mTLS: message order, framing and the byte counters of the
   baselines.

## Not modelled

Not planned: the arithmetic of the proofs of knowledge and the key schedule
(their outcome is a choice in the models; group arithmetic of that size is out
of TLC's reach), the TLS library behind mTLS, plotting, statistics and power
meters, which are input and output around the programs above. Of the Mininet
programs, what is left out is what no property tells apart: random link
parameters, the layout of tables and progress lines, the columns of rows beyond
the session they are about, and the parsing of units. The archived
`rng_sidechannel_check.py` and `_run_util.py` are one pass of statistics and a
call of a subprocess; neither keeps state.
