# Ocean Liner in TLA+

A verification development for Ocean Liner, a replicated key-value store that
uses Raft and is written in C. The modules here model the program's control
(who may take which step, in which order, with which state), TLC checks them
on small instances, and TLAPS proves the central results for every instance.

All line numbers refer to the sources in `src/` and `include/`.

## 1. Inventory

The repository holds two implementations that share headers.

* `src/main.c` is the server. `main` reads `cluster.txt`, opens the log file
  and the store, connects to the other nodes (`init_cluster`) and starts seven
  threads that talk through queues.
* `src/raft_core.c` (with `command_batcher.c`, `adaptive_timeout.c`,
  `raft_core_adaptive.c`, `kv_state_machine.c`) is a Raft library with elections,
  RPC handlers, a batching client path and an apply thread. The tests drive it.
  `main.c` uses its node structure, but calls a `raft_init` with other
  parameters and reads fields (`last_applied_term`, `last_applied_index`) that
  are not in this commit's `raft_core.h`.

| component | state | operations | interacts with |
|---|---|---|---|
| Raft elections (`raft_core.c`) | role, term, vote, votes received, log | start election, record vote, become follower/candidate/leader, handle RequestVote and AppendEntries | caller's event loop, batch thread (shared log, one mutex) |
| Client path (`command_batcher.c`, `raft_core.c` 703-764) | current batch and its length, `active`, batch thread | add, flush by age or size, start, stop, process batch | node mutex, role and term read without it |
| Election timer (`adaptive_timeout.c`) | timeout, last heartbeat, last request | measure an RPC, reset, missed heartbeat, check | every handler above |
| Apply thread and state machine (`raft_core.c` 517-699, `kv_state_machine.c`) | commit index, last applied, `applying_entries` | apply committed entries (from two threads), start, stop | node mutex, store |
| Server threads (`main.c`) | role and term, five queues, sockets, log file, store | thread_1 batches client commands, thread_3 replicates them, thread_2 handles peers and their vote messages, thread_4 and thread_5 serve clients, thread_7 sends heartbeats, thread_6 sleeps | queues (FIFO, blocking), TCP, UDP to clients |
| Client replies (`client_ops.c`, thread_4, thread_5) | an io_uring, one buffer and one msghdr per batch | look up, prepare, submit; apply and answer | store, kernel |
| Key-value store (`kv_store.c`) | keys and values | open, get, set, delete, each of which may fail | the apply thread, thread_4, thread_5 |
| Log file (`log_file.c`) | an append-only file | append a batch in three writes, read the last header at start | thread_2 and thread_3, without a lock |
| Cluster initialisation (`main.c` 182-343) | listening socket, peer sockets | accept from lower ids, connect to higher ids | the same function on every other node |
| Configuration and start-up (`main.c` 114-180, `main`) | the table of addresses | read `cluster.txt`, open files and sockets | cluster initialisation |
| Hash (`xxhash.h`) | streaming states, secrets | reset, update, digest; the one-shot functions | header of a log batch (`XXH3_128bits`, in one call) |
| Queues (`spsc.c`) | a GLib queue | enqueue, blocking dequeue | server threads |

What is hard here: three threads that read role and term without a lock; a
follower that answers before it writes; answers that arrive after the question
was settled; two queues between a write and a read of the same batch; two threads
that write to one file offset; a mutex held while waiting for a thread that needs
it; a crash between two writes; a stream socket read as if it kept messages apart;
replies that share a buffer the kernel reads later; nodes that wait for one another
to start, some of which fail; a hash state that keeps more from one use to the
next than its length. `PROJECT.json` lists each such hazard at its line with the
properties that would catch it.

What makes each component correct:

* elections: one leader per term, one vote per term, no vote taken back, no vote
  for a candidate whose log has never been as far as the voter's;
* client path: a command is logged once and in order, nothing waits unsent, a
  batch fits its buffer, everything added is logged in the end;
* server: logs agree; what reaches a store was logged, in that order and once; a
  read sees what its node had acknowledged, but for what the store refused; every
  write is answered, unless a process ends or the leader is in another term than its
  last entry;
* apply thread and clients: every committed command reaches the state machine once
  and in order, a stopped thread is gone, a client is told a value its key had, no
  reply is left behind;
* log file: what was appended is found after a crash, and stays whole;
* start-up and initialisation: ids agree, everybody returns connected to everybody,
  and a failure leaves nobody waiting for an answer;
* timer: its length is bounded, a round trip is not measured longer than it was, and,
  with the timeouts the code has, every check reports that it has passed;
* hash: a message hashes to the same value however it is cut, every byte of it counts,
  and no byte is taken from beyond a secret.

## 2. Modules

| module | models | checked by | proved in |
|---|---|---|---|
| `RaftElection` | terms, votes and step-downs of `raft_core.c` on a cluster | `MCRaftElection` | `RaftElectionProofs` |
| `Replication` | the threads of `main.c` on a cluster | `MCReplication` | `ReplicationProofs` |
| `Ledger` | abstract: what a server promises about writes | implemented by `Replication` | `ReplicationProofs` |
| `CommandBatcher` | `command_batcher.c` and the client path of `raft_core.c` on one node | `MCCommandBatcher` | `CommandBatcherProofs` |
| `LogFile` | `log_file.c` with two writers and crashes | itself | `LogFileProofs` |
| `DurableLog` | abstract: what a log file promises | implemented by `LogFile` | `LogFileProofs` |
| `ClusterInit` | `init_cluster` on every node, with processes that fail | `Startup` | `StartupProofs` |
| `Startup` | `main` up to its threads: `parse_ip_addr`, then `ClusterInit` | `MCStartup` | `StartupProofs` |
| `ElectionTimer` | `adaptive_timeout.c` and the places of `raft_core.c` that use it | itself | `RaftElectionProofs` |
| `KvStore` | `kv_store.c` | `StoreUsers` | |
| `ApplyThread` | the apply loop of `raft_core.c` and `kv_state_machine.c` | `StoreUsers` | |
| `ClientReplies` | thread_4, thread_5 and `client_ops.c` | `StoreUsers` | |
| `StoreUsers` | the two above on one store | `MCStoreUsers` | `StoreUsersProofs` |
| `XXHash` | `xxhash.h` | itself | `XXHashProofs` |
| `Flattening` | facts about concatenations of sequences, for the proofs | | itself |

Operators named after a bug ("Mutant of ...") are variants of the definition
below them. Each property of a passing run has one under which TLC finds it
violated; `PROJECT.json` pairs them.

### RaftElection

State: `state`, `current_term`, `voted_for`, `votes_received` and the log (as the
terms of its entries) of every node, and messages in flight as sets, so that they may
be delayed for ever and reordered. Every handler of a message is one action, as it
holds `node->mutex` throughout. The client path does not: a client thread tests the
role (`HandleClientCommand`, `asked`) and adds the command to the batch (`AddCommand`,
`batched`) or makes an entry of it (`CreateClientEntry`); the batch thread makes an
entry of its batch (`ProcessRaftBatch`); either reads the term without the mutex and
appends the entry later under it (`made`, `AppendEntry`), so that an entry of an older
term may follow one of a newer. The library sends nothing
itself; the caller is external and modelled as the smallest event loop that uses
the library as its comments intend: it sends RequestVote to all others, counts a
vote while the election it belongs to is the current one, and steps down on a
response of a newer term. `hung` holds the nodes that wait on their own mutex
(see `CommandBatcher`). `CheckElectionTimeout` is always true for a node that
does not lead, which is what `ElectionTimer` shows of the default timeouts.

`NoVote` is the value 0 of `voted_for`. Taken as a value outside `Node` it is the
cluster the code was written for; equal to a node it is the cluster that
`cluster.txt` describes, whose ids start at 0.

### Replication and Ledger

Every thread of `main.c` is a few actions, split where it can be interleaved: at each
queue, socket, mutex section and file write. `T1Check`, `T1Start`, `T1Recv`, `T1Hand`
are thread_1; `T2...` thread_2; `T3Send`, `T3Ack`, `T3Commit`, `T3Pass` thread_3; `T4`,
`T5` and `T5Answer`, `T7` the others. `T5` takes a write up and tries it on the store,
which may refuse it (`StoreFails`; `taken` has the writes tried, `stored` those the
store took); `T5Answer` reads the role and, on a leader, sends the 200 that `main.c`
sends whatever the store returned. A batch is its term, its index, its writes and its
GETs. Writes are numbered as received; a GET is the set of writes acknowledged when it
was received. Roles and terms at the start and `last_applied_*` are constants, since
the function that sets them is not in the repository and no thread writes the latter; a
candidacy and a change of leader are the external actions `Campaign` and `Elect`.
`T2VoteRequest` is the vote thread_2 gives, `T2VoteResponse` the response, which no
process survives (section 4). `Reads` says what `read()` may return besides one
message: several of them, or part of a batch. Assertions are taken to be enabled (the
default build): a failing one is `Abort`, which empties the node's queues, buffers and
sockets, and the others follow when they meet its closed socket (`PeerGone`). Socket
buffers are taken never to be full. `appended` is what was handed to
`logfile_append_data`, one step here; its three writes, which may be short, cut by a
crash or mixed with those of the other thread, are the steps of `LogFile`, and nothing
in the server reads the file before it is started again.

`Ledger` says what every node promises, with no word on threads, messages or
batches: writes are logged, taken up in the order of the log and each once, tried once
on a store that may refuse them, and acknowledged, stored or not, before the next is
taken up or never. `Replication` implements it, its log being the concatenation of the
writes of the batches in `appended`. A stronger promise, that what is acknowledged is
stored, is one the code does not keep (section 4).

### CommandBatcher

One client thread per command, the batch thread and an event thread that runs
elections and handlers. Sections under `batch_mutex` are one step. `node->mutex`
is a variable, because `raft_become_follower` waits for the batch thread while it
holds it. Role, term and `active` are read without a lock in the code and in steps
of their own here. `BatchTake` may happen whenever the batch holds a command and
must happen when it is half full, for the clock is left out. `BecomeLeader` may fail
to create the batch thread, and leads without one.

### LogFile and DurableLog

The file is a sequence of pieces, one per `write()`; each write may be complete,
short, or cut by a crash. Two threads append: thread_3 what a leader commits,
thread_2 what a follower accepts, without a lock and on one descriptor, whose offset
a `write()` moves before another starts. The file is opened with `O_SYNC`, so
completed writes survive. A restart is `logfile_get_last_tai`. `lseek()` returns into
an `int32_t`: from half its range on, an append or a restart aborts, and beyond the
whole range the offset is wrong but not negative.

`DurableLog` has no file: appends begin and finish, a failure abandons those in
progress, and a recovery answers with a batch that was not over before a finished one
began, or gives up. `LogFile` implements it with the same names for the state both
have and `active` for the batches that threads have in hand.

### ClusterInit and Startup

`ClusterInit` is `init_cluster` on each of `N` nodes: a listening socket's queue of
connections, the accept loop, the connect loop with its retry (`Connect` waits for a
listener), the exchange of ids, the close. Any process may fail before it has
returned (`Exit`); what waits in its queue is reset, and a process that waits for an
answer from one that no longer listens fails too (`Reset`).

`Startup` puts before it what `main` does: each node reads its own copy of
`cluster.txt`, of which `ParseLine` takes, skips, half takes or refuses a line, and
its own id must be in the table. The copies name the same nodes in the same order,
at addresses that differ (`StartupAssumption`); what they hold beside is up to each.

### ElectionTimer

A clock in milliseconds and `last_heartbeat` in seconds. `Computed` are the values
the moving averages may yield. Each handler appears with its effect on role,
timeout and last heartbeat. An RPC that is measured starts, reads the clock without
the mutex, and enters its round trip under it; all RPCs share `last_request`.
`raft_reset_election_timer` shortens the timeout and notes the moment in two steps, as
it does not hold `node->mutex` (`NoteReset`); both checks find out that a heartbeat is
missing and lengthen the timeout in two steps (`CheckMissedHeartbeat`), the election
timeout's with the mutex, which the handlers wait for (`NodeFree`), the heartbeat
status's without.

### KvStore, ApplyThread, ClientReplies, StoreUsers

`KvStore` is a map whose operations may fail without a change, or that could not be
opened, in which case every operation ends the process. `ApplyThread` is
`raft_apply_committed_entries`, called by the apply thread and by one other thread, one
command per step because the store is shared; start and stop of the thread, with the
thread that cannot be created; and what `kv_state_machine_apply` does, which is to
delete and look up but not to set. One caller starts and stops the thread, so that a
start does not fall between the unlock and the join of a stop. Advancing the commit
index and appending are external: nothing in the program does them for a node that
applies. `ClientReplies` is thread_4 with its ring and thread_5. Every prepared send
points to one msghdr and one buffer, so that `slot` is the one reply they all describe;
a kernel may refuse a submission once unclaimed completions fill the ring. `StoreUsers`
interleaves the two on one store, ends all threads with the process, and remembers
which values a key had since its GET was passed on.

### XXHash

A hash is the list of what its function mixes in: which bytes, with which part of
which secret, in which order, with the length. Two hashes are equal when the code
computes the same formula, whatever the arithmetic of a round. `XXH32`, `XXH64`,
`XXH3_64bits` and `XXH3_128bits` are the one-shot functions with all classes of
lengths; `..._update`, `..._digest` and `Reset...` the states, with their buffers
(whose old bytes are `Stale`), the number of stripes so far, the custom secret and
the 32-bit total length that wraps. XXH3 is modelled after its scalar code.
The header is vendored, and of it the program calls `XXH3_128bits` alone, on the header
of a log batch in one piece (`log_file.c` 42); nothing in the repository calls the
streaming functions. The module is about the library that is in the tree, not about
the server, and the modules about the server do not depend on it: there a checksum
fails on whatever is not a whole header.

## 3. Runs that pass

| run | instance | shows |
|---|---|---|
| `RaftElection` | 3 nodes, 2 terms, 3 elections, 2 commands, AppendEntries while nothing else is in flight | `ElectionSafety`, `OneVotePerTerm`, `VoterNotAhead`, `VoteStable` |
| `Replication` | 3 nodes, 2 writes of which one may be refused by a store, reads that bring both batches at once | `LogsAgree`, `ImplementsLedger`, and `EveryWriteAnswered` under fairness |
| `ReplicationLeaders` | 3 nodes of which one is behind, 1 write, 1 GET, 1 failure of a store, 1 heartbeat round, candidacy or change of leader, merged and split reads, processes that abort | `AppliedIsLogged`, `ReadsSeeAcked` |
| `CommandBatcher` | 3 commands for a buffer that holds two small ones or the large one, 4 terms, batcher stopped at any moment | `BatchesInOrder`, `NothingUnsent`, and `AddedIsLogged` under fairness |
| `LogFile` | 2 threads, 3 batches, 2 crashes, 1 short write, offsets negative from 8 pieces on | `CompletedIsWhole`, `NothingCompletedLost`, `ImplementsDurableLog` |
| `Startup` | 5 nodes, the size of `cluster.txt`, lines to skip and refuse, any number of failures | `FullyConnected`, `NobodyStranded`, `IdsAgree`, and under fairness `AllReturn`, `AnswerComes` |
| `ElectionTimer` | the timeouts of the code, 150 to 300 ms, over 2.8 s, 2 RPCs | `TimesOutAtOnce`, `NeverMeasuredLong` |
| `StoreUsers` | a log of 2 entries (a no-op, a batch of two), 3 GETs of 2 keys, 1 SET, a ring of 2 sends | `AppliedOnceInOrder`, `StoppedIsGone`, `ReplyWasHeld`, `RepliesLeave` (`NoReplyLeft` and `RingNeverFull`), and `CommittedIsApplied` under fairness |
| `XXHash` | 37 lengths of a first piece up to 257, up to 3 pieces and 1457 bytes, 3 resets | `XXH32Streams`, `XXH64Streams`, `XXH3Streams`, `EveryByteCounts`, `SecretInside` |

Every module with a run of its own also checks its `TypeOK`, which for
`CommandBatcher` includes that a batch fits its buffer; that of `ElectionTimer` is
called `TimerTypeOK` and includes that the timeout keeps its bounds.

Bounds. Three nodes are the smallest cluster in which a majority is not everybody. Two
terms and three elections let two candidates compete, lose and compete again, and let a
message of the first election meet the second; two commands let the batch thread and a
client thread hold an entry of the first term at once. A voter's log that is ahead of a
candidate's whose own last term has fallen back needs a third term and a third entry,
more than TLC can do; `VotersNotAhead` covers it. Two writes are the smallest number
for which one batch can be in flight while another is formed; `Replication` is bounded
there because its liveness property is checked on the same state graph. Its reads may
bring both batches at once, the case in which a slow follower ends every process; what
is split, and what a second term does, is left to `ReplicationLeaders`. thread_1 is
followed while clients have something left to send (`ClientsSend`); afterwards it makes
and drops empty batches. `ReplicationLeaders` has one write, one GET and one event,
which is what it takes for the write of an old leader to meet a new one, and one event
of the kinds that may abort a process. Four terms in `CommandBatcher` are needed to
lead, step down, lead again and step down again; its three commands are a pair that
makes a batch due and one that does not fit beside them. In `LogFile` three batches let
two overlap while a third follows; two crashes let the second hit what the first left
behind; at 8 of at most 9 pieces the last appends and restarts meet the negative
offset. `StoreUsers` has the smallest ring that is submitted both because it is full
and because a batch ends, and room for one completion, so that the kernel may refuse;
three GETs may come in one batch or in several. In `XXHash` the first lengths lie
around the limits of every class of lengths, the later pieces fill a buffer, exceed it
and exceed a block of stripes, and the total length wraps at 64 instead of 2^32. In
`ElectionTimer` the ticks cross whole seconds, on which the checks depend, and leave a
round trip shorter and longer than the timeouts. The bounds are constants that appear
in guards only. Deadlock checking is off where a bound, a node that hangs or aborts, or
the return of `init_cluster` ends a behaviour. Only `RaftElection` uses symmetry, of
the node ids, in a run of safety properties.

Fairness. `Replication`: thread_1 of the leader keeps running, and some of the other
threads, of whatever node, takes a step while any of them can (weak fairness of the
two disjunctions). That is less than fairness of each thread, and enough because what
these threads have to do comes to an end and only they take it from one another.
Clients, heartbeats, candidacies and elections are not fair.
`CommandBatcher`: started threads keep running, and a batch that holds a
command is due in the end, which needs strong fairness of `BatchTake` because the
batch thread may find it not yet due many times. `Startup`: every process keeps
running; `Connect` retries without end (`main.c` 287-298), so weak fairness of a
node's next step is enough. Failures are not fair: they need not happen.
`StoreUsers`: threads keep running, and the apply thread gets `node->mutex` in the
end although the other caller may take it again and again (strong fairness of its
`Enter`); start, stop, commits and clients are not fair.

`EveryWriteAnswered` leaves out two cases, both of which the code can get into: a
process has ended (in the run: two batches in one `read()`, `main.c` 755, after which
all processes end and the second write is never answered), or the leader is in another
term than its last entry, when no OK matches (817, 1054). The first occurs in the run,
the second is excluded by its constants, in which all nodes are in the term of their
last entry. `AllReturn` says that all return or somebody has failed: the code has no
answer to a failure but that the others fail or wait in their accept loop.
`CommittedIsApplied` leaves out a thread that was stopped and a process that ended.
`AddedIsLogged` leaves out the commands in a batcher that is stopped, which is the
third run of section 4.

## 4. Where the code disagrees with its documentation

Three runs check one sentence of a comment, a test or
`oceanliner-architecture.md` each, and find it violated by what the code does. The
quotes are in `PROJECT.json` under "findings".

| run | property | what happens |
|---|---|---|
| `RaftElectionNodeZero` | `OneVotePerTerm` | A node votes for node 0, which leaves `voted_for` at "no vote", and votes again in the same term. |
| `ReplicationStaleOk` | `CommitHasMajority` | All batches have one index; a late OK for the first counts for the second. |
| `CommandBatcherStop` | `StopProcessesRest` | Stepping down waits for a thread that waits for the mutex. |

The following were seen while reading the code for the models. They are plain at
one place of the code, and no run checks them.

* `raft_core.c` 369: a vote response is filled in before the request's newer term
  is taken over, so it carries the old one.
* `raft_core.c` 195: a timeout of at most 300 ms divided by 1000 is 0, so every check
  reports a timeout, which `TimesOutAtOnce` states. `tests/test_raft_core.c` 36 and 43
  assert that there is none right after `raft_init` and right after
  `raft_reset_election_timer`.
* `raft_core.c` 459: `raft_send_append_entries` adds a number of bytes to
  `next_index`, and `raft_send_request_vote` writes its body over its own header.
* `raft_core.c` 708, 715 and 748, 755: an entry is logged whatever the role, with the
  term read before without the mutex, not of the moment its commands were accepted nor
  of that at which it is appended. An entry of an older term may follow one of a newer,
  and the last term of a log, which votes are compared by, falls back.
* `raft_core.c` 723: the data of an entry is freed while the log points to it.
* `command_batcher.c` 122: when the batch thread cannot be created,
  `raft_become_leader` does not look, and commands that fit a batch wait for a thread
  that does not exist until the node leads again.
* `command_batcher.c` 165: a small command that a nearly full batch refuses takes
  the direct path meant for large ones and overtakes the batch.
* `kv_state_machine.c`: the call that sets a value is commented out; a SET that is
  applied changes nothing.
* `main.c` 841, 867: a follower sends its OK and then writes the batch.
* `main.c` 811: a follower whose last entry is (0, 0) accepts any batch.
* `main.c` 817, 1054: the OK carries the term of the entry before the batch; when it
  differs from the batch's, no OK counts and thread_3 waits for ever.
* `main.c` 755: a batch and a heartbeat that one `read()` returns together make the
  follower abort.
* `main.c` 885: thread_2 grants a vote without looking at `voted_for`.
* `main.c` 900: a vote response announces the length of an append response, so that
  whoever reads it waits for bytes that do not come, and aborts.
* `main.c` 245: connections are counted, not ids. If nodes 0 and 1 are started again
  while node 2 is in its accept loop, node 2 may count node 1 twice and go on without
  node 0. A peer with an invalid id (266-270) uses up an accept as well.
* `main.c` 1225, `client_ops.c` 37-64: the GET replies of one submission share a
  buffer and a msghdr, so that one client is answered with the last reply and the
  others not at all; the msghdr is on the stack of a function that has returned.
* `main.c` 1281, 1291, 1308: thread_5 looks at no result of the store and answers 200
  to a write that was refused, where `client_ops.h` 15 has "500 for server failure". A
  GET misses such a write, which `ReadsSeeAcked` allows for. It compares a GET with
  what its own node had acknowledged: nothing gives a new leader what an earlier one
  acknowledged, so that a GET there may miss that too.
* `main.c` 1478: nobody looks at what `kv_store_init` returns; the first GET or write
  ends the process.
* `globals.h` 17 defines `MAX_NODES` as 256 and `raft_core.h` 18 as 5, the value that
  cuts `cluster.txt` in `main.c`.
* `log_file.c` 42: the checksum covers the size of a pointer, so that a header damaged
  behind its first 8 bytes passes.
* `log_file.c` 83, 113: the result of `lseek` is kept in an `int32_t`, negative from
  2 GiB on.
* `log_file.c` 86: a crash between the writes of a batch leaves a lone header, which
  the next start takes for the last batch.
* `log_file.c` 120: after a torn write the process aborts at every start.

## 5. Theorems

TLAPS proves these for every value of the constants, without the bounds of the
runs (the bounds are constants too).

**`RaftElectionProofs`.** `TypeCorrect`, `VotesStable` and `VotersNotAhead` hold for
every cluster. `ElectionSafe` and `VotesOnce` assume that no node has the id that
means "no vote" (`NoVote \notin Node`), and from the module's assumptions that the
cluster has at most `MAX_NODES` nodes. `ElectionSafety` is not inductive: that two
nodes are not both leaders says nothing about the votes still on their way. The
inductive invariant `IInv` adds

* `VotesRemembered`: a vote of the voter's current term is the one `voted_for` holds;
* `OneVotePerTerm`;
* `AskedOnce`: a voter is asked once per term, so that votes count voters;
* `NotYetCounted`: a vote in flight has not been counted;
* `CountedVoted`: whoever is counted, or about to be, did vote;
* `CountRight`: `votes_received` is the number of counted voters, and a leader's are
  more than half of `MAX_NODES`.

Two leaders of one term would have two majorities of at most `MAX_NODES` nodes; they
share a voter, who by `CountedVoted` voted for both, against `OneVotePerTerm`. Each
action has a lemma, as has the pigeonhole argument on cardinalities.
`VotersNotAhead` says that whoever got a vote has, or has had, a log at least as up to
date as the voter's at the time. Nothing is assumed of the terms of the entries, which
need not be in order: a log only grows, so that a place of it keeps its term
(`AppendKeepsTerms`), and a request describes a beginning of its candidate's log
(`Describes`), with which the voter compared its own.

The same module proves of `ElectionTimer`, for every configuration with min <= initial
<= max and any number of RPCs: `Bounded` (`TimerTypeOK`, which includes the bounds of
the timeout) and `NotLong` (`NeverMeasuredLong`); and, for those whose largest timeout
is below a second, `TimesOut` (`TimesOutAtOnce`), by the bounds. `NotLong` rests on
`LastStart`: `last_request` is the start of some RPC, and none started later.

**`ReplicationProofs`.** For any cluster, any reads and any number of writes, GETs, failures
of stores and events: `TypeCorrect`, `AppliedOnlyIfLogged` (the property `AppliedIsLogged`) and
`ReadsSeeAcknowledged` (`ReadsSeeAcked`). What is applied comes from a queue, and what
is in the queue from two threads, so `AppliedInv` adds `LoggedFirst`: a batch that
thread_2 or thread_3 is about to pass on, and every batch in the queue of thread_5,
was given to the log. Most actions are `Quiet`, that is, log and apply nothing, and
share one lemma. `ReadsInv` follows a GET through the node (`ReadsKnown`): in the
buffer of thread_1, the queue to thread_3, its hands and the queue to thread_4, it
needs only writes that the node has acknowledged. Those were taken up, since the one
that thread_5 is about to acknowledge is the one it took up last (`TakenInv`), and what
was taken up the store has or has refused; all these sets only grow.

`NodesKeepLedgers` is the refinement: `Spec /\ [][OneLeader]_vars => ImplementsLedger`.
`LedgerInv` says of each node that the writes of its log are those taken up, then those
in the queue of thread_5, then those of the batch that thread_2 or thread_3 holds
between the log and that queue (`InStep`); a process that aborted has lost the last
two. Acknowledging is a step of the ledger by `TakenInv`, stored or not. Only one of
the two threads may hold such a batch, and that is `OneWriter`: whoever is not `Leader`
has no commands and sends no batches, so that thread_3 logs on the leader and thread_2
elsewhere. The hypothesis `OneLeader` says that no node but `Leader` is made leader;
candidacies, new terms, aborts and reads that bring too much or too little are in. It
cannot be dropped: with one election and two writes TLC finds a node whose thread_3 has
logged a batch and not passed it on when thread_2 logs one of the new leader and passes
it on first, so that the store does not follow the log.

`OneLog` is `Spec /\ [][NoElection]_vars => []LogsAgree`. `AgreeInv` has one sequence
for the cluster, the batches the leader has sent (`AllSent`): the leader's log is
that sequence but for the batch waiting for its majority, a follower's but for the
batch in the hands of thread_2 and those on the socket, and a node that refuses has an
empty log. A node's log is a prefix of it, and two prefixes of one sequence agree.
`NoElection` excludes new leaders and candidacies alike, and both are needed: TLC finds
logs that differ after one election, since nothing is ever taken out of a log, and
after one candidacy, since a node that has seen the newer term misses a batch and takes
the next one, all batches having one predecessor. The run `Replication` has neither:
its bound on events is 0.

**`CommandBatcherProofs`.** For any commands, sizes and number of terms: `TypeCorrect`,
which has the batch within its buffer, `AllSent` (`NothingUnsent`) by counting the
threads whose append has not been replicated, and `InOrder` (`BatchesInOrder`). `BInv`
adds that the term is below its bound while the event thread steps down, as it is the
only one to start another. `OrderInv` adds what a thread has in its entry at each point
of `process_raft_batch` and that only one thread at a time has batched commands in hand
(`Seats`): the event thread takes the rest of the batcher after it has waited for the
batch thread, and there is no other until it is done. As a refused command bypasses the
batch, `Apart` says that an entry of the log is either of batched commands or of one
that was refused.

**`LogFileProofs`.** For any set of writers and any number of batches, crashes and
short writes: `CompletedFound` (`NothingCompletedLost`), `CompletedStaysWhole`
(`CompletedIsWhole`) and `LogFileIsDurable`, the
refinement of `DurableLog`: initial states map to initial states and every step to a
step or a stutter. The invariant `DInv` adds to the types that a thread's batch has
begun and is no other thread's (`InHand`, `OneThreadEach`), that a batch in progress
was not over before any other began (`ActiveNotOver`), what the histories contain
(`BeforeBegun`, `NotBeforeItself`, `DoneBegun`), and the fact that matters: a whole
header at the end of the file is one that a recovery may answer with (`EndIsRecent`).
`PInv` follows the pieces of a batch while it is written (`InProgress`): they are in
the file in order, at its end unless another thread wrote meanwhile or one of them is
torn, and so is the whole batch once its append has returned (`Completed`).

**`StoreUsersProofs`.** For any log, GETs, writes and ring: `TypeCorrect`,
`StoppedGone` (`StoppedIsGone`), `AppliedInOrder` (`AppliedOnceInOrder`), `NoneLeft`
(`RepliesLeave`) and `ReplyTrue` (`ReplyWasHeld`). `SInv` adds that thread_4 has
prepared what it has counted and where its counter stands at each point of its loop
(`Counted`), and that a reply goes to a client that asked (`Asked`). For the order in
which commands are applied, `Working` says who holds `applying_entries` and how far it
is: the entry after `last_applied`, at a command that is in it.

**`StartupProofs`.** For any number of nodes, failures and copies of `cluster.txt`
allowed by the assumption: `NoneStranded` and `Connected`, by an invariant that ties the
number accepted to the set of lower ids connected (`Counted`), places every node in its
two loops (`Progress`, `Waiting`) and says what each has connected to below and above
itself (`Downward`, `Upward`, `NoSelf`). That a node which has counted as many
connections as there are lower ids has one from each of them is an argument on
cardinalities. `SameIds` (`IdsAgree`) goes through the lines of a copy: after each, the
table holds the nodes named so far at their places, unless the process has aborted
(`LineHolds`). `StartupImplementsInit` shows that `main` implements `init_cluster`
started by itself, so that what is proved of it holds after `parse_ip_addr` too.

**`Flattening`.** The writes of a log, the commands of an entry and the batches on a
socket are concatenations, which `SequencesExt` defines by recursion on the length.
What the proofs need of them (type, the empty sequence, one more element at either
end) rests on induction. The induction theorems of the library take an operator as a
parameter, which the provers cannot instantiate; `Induct` states induction for a set of
numbers instead, as the absence of a least counterexample in a well-founded order.

**`XXHashProofs`.** For any seeds, any size that a caller's secret may have (from
`XXH3_SECRET_SIZE_MIN` on), any number of resets and pieces of any length:
`XXH32StreamsHolds`, `XXH64StreamsHolds`, `XXH3StreamsHolds`, `EveryByteCountsHolds`,
`SecretInsideHolds` and `TypeOKHolds`; for XXH32 whatever its total length wraps at, from
32 on. That two hashes are equal says nothing about the next piece, so the proofs say
what a state has taken.

* `Streamed`: the accumulators of XXH32 and XXH64 have the message's stripes up to a
  multiple of 16 or 32 bytes (`Lanes`) and the buffer has the rest, less than a stripe;
  `large` remembers whether there were 16 bytes, which a wrapped total does not.
* `Hashed`: for some number c of stripes, XXH3 has mixed the first c of the message as
  blocks and a part of one (`Mixed`), `soFar` is how far it is in that block, and the
  buffer begins with the rest, at least one byte of it once c > 0. Behind the rest,
  the buffer's last 64 bytes are still those of the stripe mixed last (`Leaves`), which
  is what a digest completes a last stripe shorter than 64 bytes with. `ResetAs` ties
  what the state keeps from its reset to the call that hashes at once: in particular
  that the custom secret is that of the seed, although `Renew` may leave it.

`consumeStripes` is shown to take a state from `Mixed` of one number of stripes to that
of another, whether it stays in a block, ends one, or passes many (`ConsumeIs`); an
update and a digest follow, each by its cases (`UpdateFits`, `UpdateRefills`,
`UpdateMore`, `DigestInside`, `DigestAcross`). The one call cuts the message with
`(len - 1) / block` and the stream as it comes; both leave the same stripe for the last,
and there is only one way to cut a number into blocks and stripes (`LongUnique`). The
bytes that a hash reads and the offsets in its secret are computed for each class of
lengths, for long messages by induction over the blocks (`BlocksRead`).

Only model-checked: the liveness properties `EveryWriteAnswered`, `AddedIsLogged`,
`AllReturn`, `AnswerComes` and `CommittedIsApplied`, as fairness and ENABLED are
outside the prover. Every other property of the runs that pass has a theorem.
`NodesKeepLedgers` and `OneLog` have the hypotheses above, `ElectionSafe` and
`VotesOnce` theirs; without them the properties do not hold.

## 6. Running

    tlc -workers 2 -config RaftElection.cfg MCRaftElection
    tlc -workers 2 -config LogFile.cfg LogFile
    tlapm RaftElectionProofs.tla

`PROJECT.json` lists the module of each configuration, the properties, and for each
definition the lines it models. `StoreUsers` takes about two minutes, the others one
or less. The proofs take a few minutes per module, those of `ReplicationProofs`, the
longest, up to ten.

## 7. What is left to do

Done: all modules of section 2 and the proofs of section 5. Next would be, most
important first:

1. `ImplementsLedger` and `LogsAgree` with a second leader, under a condition weaker
   than that there is none: what the batches of two terms may do to each other.
2. A restart of the server: what `logfile_get_last_tai` answers becomes
   `last_applied_*`, which joins `LogFile` and `Replication`. It waits for the
   `raft_init` that sets them.
3. A process that is started again during `init_cluster`.
4. `ElectionRace`: `raft_record_vote` and `raft_become_leader` with the sections of
   `node->mutex` as steps, and a caller with several threads.
5. The vector variants of XXH3, which mix the same bytes in another layout.

## 8. Not modelled

* `raft_init(node id, log file)`, which `main` calls, is not in the repository, nor is
  anything that writes `last_applied_*`.
* `thread_2_old`, `thread_4_old`, `thread_5_new`: never started.
* `raft_send_request_vote` and `raft_send_append_entries` build messages and send
  nothing; only their use of the timer is modelled.
* A second caller that starts or stops the apply thread, which could start one between
  the unlock and the join of a stop (`raft_core.c` 671-673) and lose track of it.
* `raft_become_follower` for the node's current term, which would forget its vote: the
  caller, external, steps down for a newer term only.
* `raft_record_vote` with several callers, which would race with a step-down between
  its look at the role and its mutex.
* `raft_destroy`, `command_batcher_flush`, `command_batcher_destroy`,
  `kv_store_destroy`, `logfile_get_data`: called by the tests or by no one.
* What RocksDB kept from an earlier run, and RocksDB itself.
* The kernel's side of a send: when it reads the msghdr of a reply, and what becomes
  of a datagram. A reply counts as taken when it is submitted.
* `spsc.c` wraps a GLib queue; where it is used it is a FIFO whose dequeue blocks. Out
  of memory and destruction are left out.
* `xxhash.h`: the vector variants, the canonical forms, allocation and copies of
  states, and the arithmetic.
* The moving averages and statistics of `adaptive_timeout.c`: floating-point numbers
  of which only the timeout computed is used.
* Parsing of client commands, and the alignment and sleep helpers of `globals.c`.
