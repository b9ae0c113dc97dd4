# Verification of statement-store-tools

TLA+ specifications of the programs in this repository: the two that talk to a
statement store, `statement-latency-bench` (`src/src/bench.rs`) and
`statement-ops-bench` (`src/src/ops_bench.rs`, `src/src/ops/`), and
`setup-allowances` (`src/src/setup.rs`), which writes to the chain; the TLC
configurations that check them on small instances, and proofs that hold for
every instance.

- [1. The system](#1-the-system): components, state, operations, hazards
- [2. Modules](#2-modules): what models what, and how
- [3. Runs](#3-runs): what is checked, with which bounds, and what it shows
- [4. Where documentation and code disagree](#4-where-documentation-and-code-disagree)
- [5. Proofs](#5-proofs)
- [6. Fairness and deadlock](#6-fairness-and-deadlock)
- [7. What is not modelled](#7-what-is-not-modelled)
- [8. Plan](#8-plan)

`PROJECT.json` holds the same information in machine-readable form: which lines
each definition models (`map`), the runs, a mutant for each property, and the
list of hazards with the properties that cover them.

## 1. The system

A *node* keeps a statement store: signed statements, one per account and
*channel*, of which one with a higher priority (expiry in the high half of a
64-bit number, a sequence number in the low half) replaces the one before.
Nodes gossip. The tools use two requests: `statement_submit`, and
`statement_subscribeStatement` with a topic filter, which opens a stream of
events. Each event is a batch of statements and, for the initial dump, the
number `remaining` of statements of the dump still to come.

### 1.1 statement-latency-bench

| part | state | operations |
|---|---|---|
| client task, `run_client` | its round, `successes`, `failures` | wait at the startup barrier; per round: `execute_round`, then pause, look at `peer_failed`, wait at the barrier |
| shared between clients | `barrier` (tokio), `peer_failed` (relaxed atomic) | arrive, be released, time out; store `true` |
| one round, `execute_round` | `sent_count`, `received_count`, the subscription | subscribe to the neighbour's topics, submit one by one, receive until the expected number has arrived |
| `main` | join handles, all results | `collect_results`, `report_results`, exit status |

Clients form a ring: client `c` reads what client `c + 1 mod N` writes. They
run as concurrent tasks and meet at the barrier, in the flag, and in the
statements that go through the nodes.

What is hard: a wait at the barrier that times out is dropped while the barrier
keeps counting it; the flag is read relaxed, and long before the barrier is
waited for; a client that has failed goes on with its rounds alone, without
the barrier, and may run far ahead; a task may panic, with all its results;
statements are counted, not identified; a client's channels are reused by every
round, so that the new statement replaces the old one at the node.

What makes it correct: healthy clients are in the same round; no round succeeds
without the neighbour's statements; replacing a statement loses nothing that is
still waited for; every lost round shows in the results, once; a reported
`PeerFailed` has a peer that failed; whatever fails, all tasks and `main` end,
with a status that tells whether anything was measured.

### 1.2 ops bench

| part | state | operations |
|---|---|---|
| `subscribe` | per endpoint: seed, reads, failures | seed an endpoint (submit a fixed number of statements) unless `--topic` is given; read repeatedly; with `--assert-once` collect the dump and listen until idle; exit status |
| shared readers, `common.rs` | one subscription | `drain_initial_batch`, `collect_initial_dump`, `next_statement_batch`, `collect_until_idle`, each with its timeouts |
| `propagation` | pairs (submitter, subscriber), iterations, counts | per iteration: subscribe, drain the dump, submit, wait for an event |
| `loop` | connections, iterations done, deadline | connect, run an iteration's body, optionally reconnect, pause; stop at `--iterations`, `--duration-secs` or Ctrl-C |
| `submit` | batches, an index and an expiry per statement | submit a batch concurrently, join, count per endpoint |
| `query` | the dump of the endpoint being read, the reports | per endpoint: subscribe, collect the dump, decode, sort by expiry; exit status |
| `admin`, `signer.rs` | the sudo account's nonce | read a quota; set one with a sudo transaction and read it back; choose the key and its password |
| command line, `ops_bench.rs` | the connections | parse values, parse the seed, connect to all endpoints, validate, run a command |
| `rpc.rs` | none | forwards to jsonrpsee; a trait for the mock of the tests |

These run sequentially; the other actors are the nodes and, for `loop`, the
operator. What is hard: nodes may answer late, repeat, close a stream, or stay
silent; the end of the dump is told only by `remaining`; statements given up by
an earlier iteration arrive in a later one; one failed endpoint, read,
iteration or reconnection must be counted and must not stop the rest; Ctrl-C
arrives at any await; an event of a dump may be lost, and its last one be taken
for a live one or the other way round; a text can look like hex and like an
address.

What makes it correct: each failure is counted and nothing else is; an
exactly-once verdict is only given to reads for which it is true; a success
measures the statement it claims to measure; iterations run on the connections
opened for them; the stop reason reported is the real one; no statement of
`submit` takes the place of another; `query` shows what the node had; what the
tools print is read back as the same value; every command ends.

### 1.3 Allowances: setup-allowances and admin set-quota

`setup-allowances` splits the benchmark accounts into `set_storage` calls, and
these into sudo transactions, which it sends one after the other, each once the
one before is finalized, with nonces counted from one that it reads at the start;
then it looks at the storage of each account. `admin set-quota` sends one such
transaction for one account and reads the quota back. Both are signed with the
sudo account, and write the same storage.

What is hard: they may run at the same time, and so may what an earlier,
abandoned run has left with the node; a transaction may be refused, replaced,
forgotten, fail, or succeed around a call that failed; the last chunk may be
incomplete. What makes it correct: no batch is sent unless those before it are
done; success means that all accounts' transactions are finalized, and that a
quota asked for was in force; either command ends.

## 2. Modules

| module | models | builds on |
|---|---|---|
| `Cohort` | `run_client`: barrier, flag, failures, panics; a round is seen only through what peers notice | |
| `LatencyBench` | `execute_round` in full, with the nodes | `Cohort`, which it implements |
| `CohortMain` | `main` after spawning, `collect_results`, `report_results` | `Cohort` |
| `Lockstep` | abstract: nobody completes a round before all have completed the one before | |
| `CohortLockstep` | the mapping by which `Cohort` implements `Lockstep` | `Cohort`, `Lockstep` |
| `SubscribeBench` | `run_subscribe`, both kinds of read, the readers of `common.rs`, exit status | |
| `Propagation` | `run_propagation` over all pairs and iterations, with gossiping nodes | |
| `PeriodicLoop` | `run_loop`, its clock, Ctrl-C | |
| `SubmitBench` | `run_submit` over all endpoints, with the node | |
| `SudoKey` | `signer.rs`: from the options to a key, as pure functions | |
| `Arguments` | the value parsers of `common.rs`, as pure functions, and a reference for them | `SudoKey` (for `Option`) |
| `OpsBench` | `ops_bench.rs` from arguments to exit status; `query` in full, with its node | `Arguments` |
| `Allowances` | `setup-allowances` and `admin set-quota` with pool, chain and finality | `SudoKey` |
| `CohortProofs` | theorems about `Cohort`, the refinement of `Lockstep` included | `CohortLockstep`, TLAPS |
| `LatencyProofs` | theorems about `LatencyBench` and `CohortMain` | these two and `CohortProofs` |
| `...Proofs` | theorems about the module of that name (`Subscribe`, `Submit` for the `Bench`) | that module, TLAPS |
| `MC...` | values of the constants, and properties stated only in order to be refuted | the module of that name |

### 2.1 Cohort

A client's program counter names the await it is at:

| action | code |
|---|---|
| `Arrive` | first poll of `barrier.wait()`: takes a ticket, or opens the barrier |
| `Released` | the wait resolves, its generation being over |
| `TimerFires`, `RecordSyncTimeout` | `timeout` returns `Err`; later, the client pushes `StartupSyncTimeout` or `InterRoundSyncTimeout`, stores the flag and returns. Two steps: others run in between |
| `Publish`, `RoundSucceeds`, `RoundFails`, `Panics` | `execute_round` as peers see it, and what `run_client` does with its result |
| `CheckPeers` | loads `peer_failed`, pushes `PeerFailed` and leaves, or goes to the barrier |

`peer_failed` is kept as the set `stored` of the clients that have stored
`true`. A load by a client that has stored returns `TRUE`; another client's
load may return either value once somebody has stored (relaxed ordering).
tokio's barrier is modelled from its use: `arrived` counts, the N-th arrival
starts a new `generation`, and a dropped wait does not take its arrival back.
As a client has one wait at a time, `ticket` (the generation of its last
arrival) is the whole state of that wait.

`Publish` is a node's step, of any round that the client is in or has lost: a request
that failed may still be served while the client is rounds ahead, or has returned.

### 2.2 LatencyBench

Adds the locals of `execute_round` and a node for each client's statements:
`channel[c][i]` is the round of the statement that a node holds in the channel
of `c`'s `i`-th statement. `Accept` is the node's decision, separate from the
client's `Submit` (the answer), because the client only logs a refusal and
counts the statement as sent. `late` keeps the requests that failed, which a node
may take at any later time, or never (`Unanswered`). An event is the size of its batch, since that is
all the client looks at; `seen` records which statements were pushed, for the
properties, and `repeated` whether one was pushed twice to the subscription.

### 2.3 CohortMain

`ParseMessagesPattern` and `ConnectToEndpoints` are what `main` does before any
task exists; either may be the end. `Join` awaits the handles in the order of their
spawning, and loses the results of a task that panicked. `ReportAndExit` is
`report_results` and the condition under which `main` returns an error.

### 2.4 SubscribeBench

One program counter for the sequential command, and for the endpoint being read
the state of its store and stream. The options `topicOverride` and `assertOnce`
are variables that `Init` chooses and nothing changes, so that one run covers
all combinations that `SubscribeConfig::validate` admits. Of the statements only
their number matters to the reader; two are enough to split a dump and to be one
too many. Time passes in ticks while the reader waits, so that a timeout
restarted by each event and one for the whole dump can be told apart
(`Timeout`); `timeout` looks at the stream once more before it gives up.

### 2.5 Propagation

All pairs and iterations in the order of the nested loops. A statement is the
pair and iteration it was submitted in, plus `Foreign` ones that others have
submitted under the same `--topic`. `sent` holds the statements whose submission no
node has looked at yet. Each node holds a set of statements; `Accept` adds one to the
node it was submitted to and `Gossip` copies one to another node, both at any time,
also long after the iteration gave it up. A live event brings any of the statements
that are to be pushed, also none, which fails the iteration (`Receive`). `drained` records whether the dump brought anything; without
`--topic` that fails the iteration. The option `topicOverride` is chosen in
`Init`. The endpoints' order and repetitions are those of the two sequences
`SubmitSide` and `SubscribeSide`.

### 2.6 PeriodicLoop

A discrete clock up to `Horizon`; `endpoints` is the iteration for which the
open connections were made. The limits and `reconnects` are chosen in `Init`
from given sets. The body of an iteration is one step that may take any time or
hang, and so may the connector. Ctrl-C before the first poll of its future
kills the process; afterwards it makes that future ready, and every `select!`
is `biased` towards it, hence `~cancel` in the guards of the other branches.

### 2.7 SubmitBench

`Build` makes the statements of a batch and polls all requests for the first
time; from then on they are `sent`, and the node takes them (`Takes`) and
answers them in any order. A statement may be taken after its request has
failed, as by a timeout. `Join` is `join_all` and the loop that counts.
`Modulus` stands for 2^32: indices, expiries and counts wrap, saturate or panic
as they do in the code, and `overflowChecks`, chosen in `Init`, tells a debug
build from a release build. The base expiry is any `u32`
(`ExpirySecondsFromNow`), since the clock and the option are truncated to it.
Channels are derived from the URL of the endpoint and an index. The option `repeated`
says whether `--rpc-endpoints` names different nodes or one URL again and again: then
the next entry finds the node as the one before has left it, and uses the same channels.

### 2.8 OpsBench, Arguments, SudoKey

`OpsBench` is the common path of all subcommands: `Parse`, `ParseSeed`,
`Connect`, `Validate` (before connecting for `loop`, afterwards for the others)
and the command. A benchmark is one step with any result there (`RunCommand`),
because it has a module of its own; `query` is spelled out: `Subscribe`,
`ReadDump`, `ReadFails`, and `EndQuery`, which appends the endpoint's report and
after the last one chooses the exit status. The node answers with the matching
statements it holds (`opened`), pushes them in events of any size and order, then
what arrives, and may leave out an event (`lost`), as a node does with a client
that lags. A statement is its topic, its expiry and whether it decodes;
`FromStatement` splits the expiry at `Half`, which stands for 2^32.

Texts are sequences of characters, since the parsers differ in what they make of
single characters. A parser returns a sequence of at most one value. `Spells` is
the reference: what `hex_full` prints, in either case, after a prefix or none.
`Bytes` stands for 32; an SS58 address is an external constant.

`SudoKey` follows `resolve_sudo_keypair` and `resolve_password` through all
sources of a key and of its password. A key is known by whether its account is
sudo; a file that cannot be read and one with wrong contents are values.

### 2.9 Allowances

Two processes, `setup` and `admin`, with a program counter and a nonce each.
`chain` is the sequence of the sudo account's transactions, so that a position is
a nonce; `finalized` is how many of them are final; `pool` is what the node holds
and has not included. A transaction is known by who sent it, in which run, for
which batch, with which nonce; what it writes follows (`Writes`,
`BatchAccounts`), and what an account is allowed at a block is the last write
before it (`AllowanceAt`). `Submit` may be refused because the nonce is used or
another transaction in the pool has it, or replace that one. `SubmitFails` is
`submit_extrinsic` learning that the transaction failed or is no longer known.
`Rerun` is the operator running `setup-allowances` again, `Drop` the node
forgetting a transaction, `Disconnected` a lost connection or a killed process.
The variable `undisturbed`, chosen in `Init`, excludes all failures, and makes the
commands run one after the other; it is there for the second half of `Ends`.

## 3. Runs

`CHECK_DEADLOCK FALSE` is in every configuration because every program modelled
here terminates; that it does, and does not get stuck on the way, is what the
liveness properties say.

### 3.1 Passing runs

| run | instance | what it shows |
|---|---|---|
| `cohort_ring3` | 3 clients, 3 rounds | `BarrierSound`: a client that has not failed is in round r only if all have succeeded in all rounds before r, despite stale loads and abandoned waits. `BarrierAccounting`: a stale arrival counts once. `RoundsAccounted`: one failure per lost round, one more, with its reason, for leaving early. `PeerFailedMeansPeer`. `InLockstep`: every behaviour is one of `Lockstep`. `Termination` |
| `cohort_main_failfast` | 3 clients, 2 rounds, `--fail-fast` | `ReportTrue`: no failure, panic or success is missing from the report, a report without failures means that all rounds succeeded, and the exit status says whether anything was measured. `MainExits` |
| `latency_lossy` | 2 clients, 2 rounds, 2 messages | nodes refuse, delay, lose and repeat. `ImplementsCohort`: the rounds of `LatencyBench` are those of `Cohort`. `CompleteRounds`: a round that succeeds has brought every statement, unless one was repeated. `NothingReplacedUnread`: a channel is only reused once its reader has read it. `Termination` although no node need answer |
| `latency_quiet` | 3 clients, 2 rounds, nothing fails | `QuietCompletes`: ring, barrier and channels do not block one another |
| `subscribe_all` | 2 endpoints, 2 reads, all options | `VerdictTrue`: a read that passes `--assert-once` was given one statement, once, from the opening of the subscription to the end of the window; a plain read with `--topic` that has its subscription fails only because the stream ended, the dump was not completed in time, or the node held nothing and pushed nothing. `ReportTrue`: every endpoint is reported in full, and the exit status of `--assert-once` follows from all reads. `Terminates` |
| `propagation_all` | 2 pairs, 2 iterations, with and without `--topic`, a statement of others | `MeasuresOwn`: with derived topics, late statements of other iterations and pairs are in no dump, and a success has measured its own statement. `AllCounted`, `Ends` |
| `loop_all` | limits 0, 3, none; durations 0, 5, none; interval 2; with and without reconnecting | `LoopReportTrue`, `ConnectionsOfIteration`, `IterationsWithinDuration`; `LoopEnds`: by Ctrl-C even if connector and body hang, and by its bounds if they do not |
| `submit_all` | 2 endpoints, different or twice the same, 1 to 3 batches of 1 or 2, integers modulo 4, with and without overflow checks | `EveryStatementCounted`: once each, and the counts add up. `NothingReplaced`: unless one URL is given twice, no statement of a run takes the place of another, whatever the order in which the node looks at them, also where the expiry saturates. `Ends`, also when nothing is answered |
| `allowances_all` | 3 accounts, chunks of 0 to 2, 2 runs, with `set-quota` next to them | `BatchesInOrder`: a run leaves no gap, whatever takes its nonces. `SetupTrue`, `SetQuotaTrue`: what success means. `Ends`: both end while the chain grows, and succeed if nothing disturbs them |
| `ops_bench_all` | 6 subcommands, all texts of up to 5 of 7 characters, 2 endpoints, 4 statements | `ArgumentsTrue`: a text has one reading, the one it spells, and what is printed is read back; a password file loses one newline at its end, of any kind, and nothing else. `SnapshotTrue`: a report is what the node held when it answered, in order of expiry; with events lost, it is not more than the node ever had. `ExitTrue`: all endpoints are reported, and only all failures together are a failure |

### 3.2 Why the bounds are enough

All safety properties of the passing runs are proved for every value of the
constants as well (section 5); for these the bounds matter only in that the
properties, their mutants and the invariants of the proofs are tried on instances in
which the interesting cases happen. For liveness they are all there is.

*Clients and rounds.* Three clients are the fewest in which a client has a
neighbour, a reader, and another one that is neither; three rounds let a client
fail, run on alone, succeed, and come back to the flag while others are at the
barrier of the round before.
*LatencyBench.* With two messages a batch can be partial, two events can make
up a round, and one channel can be replaced before another. Channels are reused
from one round to the next, for which two rounds suffice. Two clients read each
other; the barrier with more than two is covered by `Cohort`, which this module
implements. `MaxTopics` has the value at which the filter is just not exceeded;
exceeding it is one of the causes of `SubscribeFails`. A request of the first round
can be taken in the second, or after the client has returned.
*SubscribeBench.* Two endpoints and two reads of each: one fails and the other
does not, in either order. `Redelivered` bounds the repeats of one subscription.
*Propagation.* The two pairs have the same submitter, which is also the first
subscriber: one pair without and one with gossip between its sides. Two
iterations, and two pairs, for late statements of either kind; with them, two
statements can be pushed in one event.
*PeriodicLoop.* An interval of 2 has overruns and pauses; `Horizon` leaves room
for an iteration and a pause after the duration, and bounds the time that
iterations may take. The limits are those of the options, and none.
*SubmitBench.* Modulo 4, one to three statements are in range, four overflow the
counts only, and six the indices as well; base expiries from 0 to 3 make the
expiry saturate at once, later, or never. The second endpoint is there for what the
first leaves behind: another node, which finds nothing, or the same one again.
*Allowances.* Three accounts make an incomplete chunk of two and up to three
transactions; sizes from 0 to 2 include the empty chunk, which panics. A run that
is abandoned leaves at most one transaction behind, for which one more run is
enough; `set-quota` gets in once. Of the previous state of the accounts it
matters whether there was an allowance: all have one or none has.
*OpsBench.* With one byte, five characters are enough for a prefix, two digits and
one too many, or for an address with blanks around it; the characters are two
kinds of digits, one in both cases, both prefixes, a letter that is no digit, and
a blank. Statements: two of the same second, an earlier one, one that does not
decode, of two topics; `Half` is 4, so that the order of the halves and that of
the whole expiry could differ. Two endpoints, of which one fails, both or none.

Each property is also checked to be sensitive to the code: `mutants` in
`PROJECT.json` lists, for each property of each passing run, a plausible bug
(a dropped timeout, a missing reset, an off-by-one) under which TLC finds the
property violated. The mutated forms stand before the definitions they replace.

## 4. Where documentation and code disagree

Two have a run that is expected to find a violation of what the text says.

| run | text | code |
|---|---|---|
| `cohort_alone` | `bench.rs:89`: only `--fail-fast` stops on the first failure; `:141` `PeerFailed` | without the option, a client that failed and later succeeds stops on the flag it set itself (shown with one client; it has no peer) |
| `query_connect` | `README.md:330-331`: `query` fails "only if every endpoint fails" | `connect_all` (`ops_bench.rs:564-573`) gives up at the first endpoint that cannot be reached, after it has connected to others |

Others were met while modelling and have no run of their own:

- `bench.rs:630` logs `failed_clients=` of `total_clients=`; it is the number of
  failures, one per lost round, and may exceed the number of clients. `ReportTrue`
  is stated for the number of failures.
- `subscribe.rs:55` and `README.md:217`: `--topic` is the topic "to seed with"; with
  `--topic` nothing is seeded (`NotSeeded`).
- `README.md:154-155` and `:177-178`: `propagation` measures the statement it
  submitted, and prior ones are excluded. With `--topic`, a statement of an earlier
  iteration that arrives late ends the measurement of the current one;
  `MeasuresOwn` is therefore about derived topics.
- `setup.rs:145` says that the allowances "were actually written", but the check
  asks only whether each account has one. A call that failed inside a sudo transaction
  passes if there was an allowance before; `SetupTrue` states no more.
- `README.md:216` describes `--drain-timeout-ms` of `subscribe` as "Max wait for
  the initial subscription dump"; `drain_initial_batch` and `collect_initial_dump`
  start a new timeout for each event, as `query.rs:51` says.
- The comment at `bench.rs:470-471` says that after a timed-out wait "remaining
  waiters block forever"; as its arrival stays counted, the barrier opens one arrival
  early instead, which is what `BarrierAccounting` states and section 5 proves
  harmless.
- `README.md:266` calls `--duration-secs` the "Maximum duration of the loop"; the
  pause between iterations is not cut short by it, so that the loop ends up to an
  interval later.
- `signer.rs:101-102` says that "a single trailing newline (CRLF or LF)" is stripped
  from a password file and that "any other characters" are kept verbatim; the code
  (`:103-104`) also strips a carriage return with no line feed after it. `NewlinesStripped`
  states what is stripped.
- `README.md:119` promises `submit` "a distinct channel per statement"; indices start
  again with each entry of `--rpc-endpoints`, and channels depend on nothing else but
  the URL (`submit.rs:116`, `:129`). If a URL is given twice, the statements of the
  second pass replace those of the first. `NothingReplaced` excludes that case.
- `README.md:78` lists an option `--skip-sync`, which the program does not have.

## 5. Proofs

Every theorem holds for all values of the constants that satisfy the assumption its
module names; these say no more than the types and, where the code validates an
option to be positive or would otherwise have nothing to do, that it is.

### 5.1 What is proved

| module | theorem | statement |
|---|---|---|
| `CohortProofs` | `TypeCorrect`, `BarrierCounts`, `BarrierIsSound`, `RoundsAreAccounted` | `[]TypeOK`, `[]BarrierAccounting`, `[]BarrierSound`, `[]RoundsAccounted` |
| | `PeerFailedIsTrue` | `[]PeerFailedMeansPeer` if `N # 1 /\ MessagesPerClient > 0` |
| | `FailedNeverArrive` | `FailedStaysAway`: a client that has failed never arrives again (in no run) |
| | `CohortInLockstep` | `InLockstep`: `Cohort` implements `Lockstep` |
| | `StreaksAreGapless`, `StreaksWithinOneRound` | what the mapping means, and what `Lockstep` promises of it (in no run) |
| `LatencyProofs` | `BenchImplementsCohort`, `BenchInLockstep` | `ImplementsCohort`; hence `InLockstep` and `[]BarrierSound` of the clients in full |
| | `NothingIsReplacedUnread`, `RoundsAreComplete` | `NothingReplacedUnread`, `CompleteRounds` |
| | `ReportIsTrue` | `MainSpec => []ReportTrue` |
| `PeriodicLoopProofs` | `TypeCorrect`, `LoopReportIsTrue`, `ConnectionsAreOfIteration`, `IterationsAreWithinDuration` | the four invariants of `loop_all` |
| `SubscribeProofs` | `TypeCorrect`, `ReportIsTrue`, `VerdictIsTrue` | `[]TypeOK`, `[]ReportTrue`, `VerdictTrue` |
| `PropagationProofs` | `TypeCorrect`, `AllAreCounted`, `MeasuresItsOwn` | `[]TypeOK`, `[]AllCounted`, `MeasuresOwn` |
| `SubmitProofs` | `TypeCorrect`, `EveryStatementIsCounted`, `NothingIsReplaced` | `[]TypeOK`, `[]EveryStatementCounted`, `NothingReplaced` |
| `AllowancesProofs` | `TypeCorrect`, `BatchesAreInOrder`, `SetupIsTrue`, `SetQuotaIsTrue` | the four invariants of `allowances_all` |
| `OpsBenchProofs` | `TypeCorrect`, `ExitIsTrue` | `[]TypeOK`, `[]ExitTrue` |
| | `ParseTopicTrue`, `ParseAccountTrue`, `HexFullReadBack` | for every text and every number of bytes: a topic or account is accepted exactly if the text spells it (or is its address), and what is printed is read back (about the parsers alone, in no run) |
| | `ArgumentsAreTrue`, `SnapshotIsTrue` | `ArgumentsTrue`, `SnapshotTrue` |

| assumption | says |
|---|---|
| `ParametersAssumption` (`Cohort`) | clients, rounds and messages are naturals, `FailFast` is a Boolean |
| `FilterAssumption` (`LatencyBench`) | `MaxTopics` is a natural |
| `LoopAssumption` | the interval is positive, limits are naturals or absent |
| `ConfigAssumption` (`SubscribeBench`) | reads and the timeout are positive, the statements of a node are finitely many |
| `PropagationAssumption` | there are nodes to submit and to subscribe to, iterations are positive, the statements of others are finitely many |
| `SubmitAssumption` | iterations and batch sizes are positive, the modulus is not zero |
| `SizesAssumption` (`Allowances`) | there are accounts, and runs; sizes are naturals, zero included |
| `EndpointsAssumption` (`OpsBench`) | there is an endpoint; half an expiry has values |
| `StatementsAssumption` (`OpsBench`) | the statements of a node are finitely many, with a topic, an expiry in the naturals, and either decodable or not |
| `TextsAssumption` (`OpsBench`) | what is given as an argument is a sequence of characters |
| `BytesAssumption` (`Arguments`) | a topic has bytes |

### 5.2 The inductive invariants

Few of the properties are inductive as they stand. What is added to them is
in `IndInv` of each module (also `BenchInv`, `LateInv`, `TallyInv` and `MainInv` in `LatencyProofs`,
`TypeInv` and `SnapInv` in `OpsBenchProofs`), as
a conjunction of the parts named below. All of it was checked by TLC on the instance of
the run, except that `ReportsInv` of `OpsBenchProofs` (the reports are a sequence of
something) was checked for the set of all reports.

*Cohort.* `BarrierSound` speaks of rounds and results and says nothing of the
barrier, on which it depends. `IndInv` adds:

- `TicketInv`: nobody is more than one generation behind; a ticket counts
  rounds completed (a client that has arrived in generation g has succeeded in
  the g - 1 rounds before); a client that has not failed holds the ticket of
  its round; who is at the barrier has not failed.
- `RoundInv`: who is about to arrive has succeeded in its round; a client that
  has failed runs ahead of its ticket, hence never satisfies the former again.
- `BarrierAccounting`: `arrived` is the number of clients whose ticket is the
  current generation. When the N-th arrival opens the barrier this set is all
  of `Client` (its cardinality is N), and this is the one place where counting
  turns into "everybody has been here". That waits that timed out stay counted
  is therefore not a weakness but needed: their owners did arrive.

*PeerFailed.* `RingInv` rests on `IndInv`. A client that failed in round r skips
the barrier; to succeed in a later round it needs statements of its neighbour in
that round, and a neighbour that gets there without having failed would have
passed a barrier for which the client had not arrived. So the neighbour has
failed. It is a peer only if `N # 1`, and is needed only if statements are
expected: both conditions are necessary (see `cohort_alone`).

*RoundsAccounted* is about clients that have returned; `AccountInv` says at each
await how many failures there are for the rounds lost so far, the current one being
lost until it succeeds. Each step changes both or neither.

*Lockstep.* The mapping sends a client to its *streak*, the rounds completed
from the first one on without a gap, which can be read off its ticket and its
successes (`StreaksAreGapless`). `StreakInv` says that a client has no success yet
of the round it is in, none of the round in which it failed, and before its first
failure none ahead of its ticket. A step of `Cohort` changes a streak only if a
client that has not failed succeeds in a round; `TicketInv` then says that everybody
has completed the round before, which is the guard of the abstract step.

*LatencyBench implements Cohort.* The variables of `Cohort` are a part of those of
`LatencyBench`, so the mapping is the identity. The first step that needs an invariant
is the success of a round, which `Cohort` allows only if the neighbour has published
in it: `ReadInv` says that whatever a channel holds has been published by its client,
and that who has received something, or has an event waiting, is in a round in which
its neighbour has. A statement taken late is a step of `Cohort` because of `LateInv`:
requests that were given up are of rounds that their client has lost for good, and only
a client that has failed has any. With the refinement, `IndInv` of `Cohort` holds of the detailed
clients; `NothingReplacedUnread` uses it, because it is the barrier that keeps a
writer from the next round while its reader is in this one.

*CompleteRounds.* `received` and the sizes of the events are numbers, while the claim
is about which statements they were. `TallyInv` says that, unless one was repeated,
they are the sizes of disjoint sets of statements that were pushed (`Tally`): the sets
are kept as a function, not summed recursively. If they add up to all messages, the
set pushed is all of them (`IndicesCounted`).

*ReportTrue of main.* `MainInv`: what is collected is what the clients joined so far
have left, all of whom have ended and change nothing any more; there are at least as
many failures as clients with something to report (`Told`). `RoundsAreAccounted` says
that a client without failures has succeeded in all rounds.

*PeriodicLoop.* `LimitsInv`: an iteration is in progress only if the limits allowed
it to begin. `PaceInv`: it began no sooner than as many intervals after the start as
there were iterations before; at each place of the loop the time that says so is
another variable. `ConnectionsInv`: which connections are at hand between iterations.

*SubscribeBench.* `ClosedInv` says that nothing is left over from one read to the
next, `CountsInv` that endpoints before the current one are done and those after it
untouched, `StreamInv` where in the stream the end of the dump can be: while it has
not been read it is there. The verdict of `--assert-once` compares a counter with what
the node pushed: `TallyInv` says that what was collected and what is in the stream add
up to that, by way of partial sums (`AddsUp`, with lemmas for an event appended and
one read), since sums over sequences are recursive.

*Propagation.* `HeldInv`: without `--topic`, whatever any node holds was submitted by
an iteration that is over or is the current one's statement, which is not there before
it is submitted; and so was what is still on its way. `SubscriptionInv`: a subscription brings only what its node holds of
the topic, which is the pair's and the iteration's. Hence the dump is empty, and what
arrives is the statement just submitted, for all nodes, pairs and orders of gossip.

*SubmitBench.* `StatementsInv`: what an endpoint has been sent was built from its index
and nothing else, below the end of the current batch; if the indices are in range, the
channel tells the index, so that no two statements share a channel, unless those of
an earlier entry with the same URL are there as well
(`OfOwnChannel`) and a later batch has greater expiries, saturated ones included
(`BuildOutranks`). `CountsInv`: with each sample, as many statements were counted as a
batch has, up to a multiple of the modulus.

*Allowances.* `SetupInv`: the batches before the current one are done, that is, in the
finalized part of the chain, which only grows (`DoneStays`); `BatchesInOrder` is
inductive with it, since the next batch is sent only then, and with a nonce of its own.
That all accounts are in some batch is `ItemsCovered`, arithmetic about chunks of
chunks whose last ones are incomplete. `AdminInv`: the transaction that is read back is
finalized.

*OpsBench, the way through.* `PathInv`: only `query` gets to an endpoint, with fewer
reports than endpoints; `EndInv`: it ends before the first report with a failure, and
after it with all of them. `TypeInv` is `TypeOK` with what its own steps need: how far
the connections are at each place (`ConnectType`), and that nothing of a subscription
is left when none is open (`NodeType`).

*OpsBench, the snapshot.* `SnapshotTrue` is about the step that makes the report, which
sees only what was collected; that this is what the node held has to be known all the
way. `SnapInv` regards what has been collected and the events not read yet as one row
of chunks (`Chunk`), of which reading an event joins the first two (`ReadsMoves`) and
pushing one adds the last (`PushMoves`):

- `PushedOnce`: no statement is in two places of the row, and each has left the node.
  This holds with lost events too, and is why a report lists nothing twice.
- `DumpComplete`, unless an event was lost: what the node held and has pushed is in a
  chunk that no event ending the dump precedes (`InDump`).
- `DumpPure`, likewise: nothing that arrived later is in such a chunk.
- `DumpInOrder`: the event that ends the dump is in the row once nothing is left to
  push, and not before. Without it, reading up to the first such event would not be
  reading the whole dump.

When the event without `remaining` is read, the two chunks joined are those `InDump`, so
that they are what the node held (`CollectedTrue`). From there on it is about sequences:
`SummaryTrue` says that decoding, counting and sorting lose and repeat nothing. That a
finite set has an order at all, which `SortByExpiry` chooses, is shown by ranking its
elements by how many do not come after them (`OrderExists`), and that the order of the
halves is that of the expiry is `SoonerTrue`.

*OpsBench, the arguments.* `ArgumentsTrue` needs no invariant but the types; the work is
in the parsers. Digits are positions in a row of 22 (`DigitsTrue`), from which a digit
and its value determine each other up to case (`SameDigitTrue`), and a byte and its two
digits as well (`ByteTrue`); a text is then compared to what `hex_full` prints digit by
digit (`HexFullTrue`, `ReadsTrue`). An address is not taken for hex, since it has no
prefix and its characters are not digits.

### 5.3 What is only model-checked

- Liveness (`Termination`, `MainExits`, `QuietCompletes`, `Terminates`, `Ends`,
  `LoopEnds`), which rests on fairness and on `ENABLED`.

All other properties of the passing runs are proved. Where a proof would have needed
what a recursive definition computes, the model or the invariant says the same without
one: sums are kept as functions of partial sums, and an order is chosen from the
sequences that have the right elements.

## 6. Fairness and deadlock

Fairness is weak, and per task or per command: a task is polled by the runtime
until it returns, and whatever it awaits resolves. The barrier and each
`subscription.next()` are wrapped in timeouts; RPC requests have the timeout of
jsonrpsee; sleeps end. Nothing is assumed of the nodes: in `LatencyBench`,
`SubscribeBench` and `Propagation` they may stay silent, refuse, or close the
stream; in particular `Publish` of `Cohort` is in `Next`, not in `Fairness`. Only `QuietSpec` asks them to answer, as it describes the undisturbed
run.

One assumption hides in the bounds: the receive loops restart their timeout at
each event, so a node that pushes events without end would keep them busy. In
the models a node delivers finitely many events to a subscription, as it does
when statements are not repeated forever.

`FairSpec` of `PeriodicLoop` asks only that the loop takes the steps that await
nothing, and sees a Ctrl-C: under it the body and the connector may hang, and
`CancelStops`, the first half of `LoopEnds`, holds nevertheless. The second half,
`BoundedRunEnds`, assumes in addition (`NothingHangs`) that they end and that time
passes.

In `Allowances` nothing but the chain bounds a wait: `submit_extrinsic` is awaited
without a timeout. `FairSpec` asks that either process runs and that the chain
grows, that is, that a transaction with the next nonce is included and blocks are
finalized. That both commands end rests on this: a transaction whose nonce is taken
by another is dropped from the pool, and whoever waits for it learns of it.
`OpsBench` has no fairness and no liveness property: its reader is that of
`SubscribeBench`, whose end `Terminates` states.

## 7. What is not modelled

- `ops/metrics.rs` is not declared in `ops/mod.rs` and is compiled into nothing.
- `ops/rpc.rs` has no state; its contract is what the node actions assume. Its
  `MockRpc` serves the tests only.
- clap's declarations and defaults, logging, and the wording and units of what is
  printed; latencies and their statistics (`calc_stats`, in floating point);
  `hex_short`; jitter and pauses except in `PeriodicLoop`. Of a statement, `query`
  shows more than its topic, expiry and sequence number; the rest is left out.
- `admin show-quota` alone, which changes nothing: it is the read-back of
  `set-quota` (`ShowQuota`).
- What a benchmark does in `OpsBench`, and which connection it runs on in
  `PeriodicLoop`, is in the module of the benchmark; the modules are not composed,
  since the command is the only actor and runs one benchmark after the other. Each
  iteration of `loop` draws a `run_id` of its own, from which topics and channels are
  derived (`periodic_loop.rs:137`), and there is no `--topic`: what earlier iterations
  have left is under other topics and in other channels.
- Failure to install the Ctrl-C handler in `loop`.
- Reorganisations of the chain: blocks are not reverted. Both commands take a
  transaction for done only when it is finalized; only the read-back of `set-quota`
  looks at a block that may not be.
- Expiry of statements: statements live for minutes, which the runs of these
  tools do not reach. Rejection by priority is covered, as a node may refuse. The
  product `(sent_count + 1) * round` of `bench.rs:282`, which overflows with very
  many rounds and messages, is not computed: its outcomes, a panic and a refusal, are
  steps that clients and nodes may take at any time.

## 8. Plan

The cohort came first because it is the only part with real concurrency; the
readers and the loop are what the other commands are made of; then the commands
that need the chain, and the path from arguments to exit status. What is left to
model is listed in section 7 with the reasons, and what is left to TLC in section 5.3.
