# A verification project for chug

chug is a coding-agent harness in Rust: `chug run` drives a language model
through an iteration loop in a working directory until a checked goal is
reached or a budget runs out; `chug chat` does the same turn by turn with a
user; `chug mcp-serve` lets other agents launch, watch, steer and stop runs;
`chug daemon` hosts a judge model for the risk gate; `loopd.sh` restarts runs
day and night. Nearly all state is files under `.chug/` in the working
directory, shared by processes that take few locks, and most of what a run does
is waiting for servers, pipes and child processes that may misbehave. That is
where the hard questions are, and what these TLA+ modules are about.

Contents: inventory - modules - runs - bounds - fairness - proofs -
disagreements found - what the models show beside the runs - what is not
modelled - plan.

To check: `tlc -config <cfg> <module>` for the runs below, `tlapm
DriverLockProofs.tla`, and likewise for the other seven `...Proofs`.

## 1. Inventory

Every component with its state, its operations, what is hard about it, and
what makes it correct. "M" marks what is modelled, "m" what is in part.

| Component | State | Operations | Hard | Correct when |
|---|---|---|---|---|
| M driver lock (`driver_lock.rs`) | `.chug/driver.lock` (a pid), flock on `.chug/` | acquire, refuse, reclaim, release on drop | SIGKILL between any two steps, pid reuse, failing flock/ps/read | one run at a time; nobody else's lock is removed; no hang |
| m iteration loop (`driver.rs`) | iteration, clock, tokens, latches, results window | drain, slash commands, notices, request, tool chain, verify, accounting | order of checks, slash commands that move limits, abort during a request, spec edited under the check | budgets bind, success is earned, refused images stay out, ends unless a call without a limit hangs |
| M transcript and resume (`transcript.rs`, `archive.rs`, `fsatomic.rs`, `driver.rs`) | `.chug/transcript.jsonl`, archives, messages in memory | append, load, cut torn tail, repair, rewrite, rotate | death inside an append, a line or a character, two writers, edits and trims of a history that must pair | the endpoint accepts every request; file = memory; nothing lost |
| m chat session (`chat.rs`) | the same file, no lock | objectives, turns, resume, auto-spec requests | runs beside a run | does not disturb a run |
| M context curation (`live_ctx.rs`, `trim.rs`) | `LIVE_CTX.md`, markers in the messages | mirror, check and splice an edit, plan segments, trim | edits and trims over what earlier ones left | calls stay with their results; the prefix before a marker stays |
| M steering queue (`mcp_serve.rs`, `driver.rs`) | `.chug/steer.jsonl`, staging files | append by any sender, rename-read-remove by any loop | lines written in pieces while the file is renamed away; a file that cannot be read; death in between | a queued note is said once, in order |
| m judge daemon (`daemon.rs`) | `daemon.lock` (flock + pid), `daemon.sock`, client latch | ensure, spawn, wait, serve, stop | stale sockets, races of ensure, stop and bind, refused children | one daemon, reachable; a client never stalls |
| decision providers, risk gate, validation lane (`decision/`, `riskgate.rs`, `valroute.rs`) | gate latch | choose a provider, ask, fail open | a judge that is late or gone | a failure allows, a verdict is obeyed |
| m permissions, hooks, plan mode (`permissions.rs`, `hooks.rs`, `plan.rs`) | rules, hook processes | deny, veto, restrict | a hook whose descendants keep a pipe open | first match wins, before any effect |
| M MCP over stdio (`mcp.rs`) | two pipes, pending map, reader thread, stdin lock | call, notify, answer the server | both ends write and nobody reads; late answers | each call ends, with its own answer, as long as its request can be written |
| M MCP over HTTP (`mcp_http.rs`, `sse.rs`, `auth.rs`) | listen thread, last event id, alive latch | post, retry, listen, reconnect | retry of what was executed, a stream that breaks within an event | no call twice, no event twice or missing |
| m Messages API client (`api.rs`) | attempt, accumulator, downgrade latch | request, stream, retry, watchdog | truncated streams, silent servers | a reply is whole or an error |
| m tools (`tools.rs`, `tgrep.rs`, `webfetch.rs`, `websearch.rs`, `attach.rs`) | child process groups, reader threads | bounded I/O for the model | descendants that outlive a timeout | bounded, and honest about what is missing |
| m event sinks (`observ.rs`, `notify.rs`) | bounded channel, flusher thread | send, drop, batch, drain, shut down | hung endpoints, deadlines | what was accepted is sent; the exit is not held up |
| m MCP server and run control (`mcp_serve.rs`, `delegate.rs`, `commands.rs`) | child handles, run directories | launch, status, wait, steer, cancel, abort | identity of a pid at the time of the signal; verdicts of older runs in the log | signals reach only the run; a waiter wakes; an answer is so |
| m event log (`eventlog.rs`, `events.rs`) | `.chug/events.jsonl` | best-effort append by several processes | torn tails, order against signals | readers can tell how a run ended |
| M fork slots (`fork.rs`, `ledger.rs`) | copies of transcript and ledger | save, restore, drop | a run that starts during a restore; a failure half way | restore loses nothing |
| m todos, decisions (`todos.rs`, `decisions.rs`) | one file each | read-modify-write, append | two writers, a death in a save | the list is what the calls reported |
| m supervisor (`loopd.sh`) | pidfile, STOP, HALTED, counters, timers | cycle, re-exec, launch, judge the outcome | signals between test and use of a file | stops when told, halts after three failures |
| supervisor helpers (`scripts/`) | - | reap orphans, load profiles, flip items | - | - |
| front end (`tui.rs`, `complete.rs`) | screen | draw, keys | - | - |
| one-shot commands (`main.rs`, `autospec.rs`, `build_info.rs`, `install.sh`) | - | parse, dispatch | - | - |

How they interact. The supervisor or `mcp-serve` starts `chug run`; a run takes
the driver lock, loads or rotates the transcript, and enters the iteration
loop. At each boundary the loop drains the steering queue and mirrors its
messages to `LIVE_CTX.md`; it asks the API client for a reply, puts each tool
call through permissions, hooks, plan mode and risk gate (which may ask the
judge daemon over its socket), dispatches what is left to the tools or to an
MCP server, and appends results to the transcript. Events go to the log and to
the sinks; `mcp-serve` and waiting orchestrators read the log back. A chat is
the same loop without the lock. The files are the only channel between
processes, apart from signals, the daemon's socket and pipes.

## 2. Modules

| Module | Models | Uses |
|---|---|---|
| `RunMutex` | what the driver lock promises: a set of owners, at most one | |
| `DriverLock` | `driver_lock.rs`, every system call a step; pids are slots of the process table, so a pid can be reused by a bystander, by another chug or by a run | refines `RunMutex` |
| `DriveLoop` | `drive_loop` of `driver.rs`, the loop that run, chat turn and plan session share | |
| `Messages` | a message as far as the harness looks into it, `pairs_intact`, the splice of runs of messages, images taken out | |
| `Journal` | what the transcript promises: an append-only history, compacted at whole exchanges | `Messages` |
| `Session` | the messages in memory and their copy in the file, from start or resume to end or death, for a run and a chat | `Messages`, refines `Journal` |
| `Curation` | the edits and trims the code chooses, with sizes for texts | `Messages` |
| `Fork` | `fork.rs`: slots, beside sessions that archive and append | |
| `Todos` | `todos.rs` over `fsatomic.rs`: load, change, write aside, rename | |
| `Records` | what a directory keeps | composes `Session`, `Curation`, `Fork`, `Todos` |
| `ApiClient` | `Client::complete`: attempts, the streamed accumulator, the downgrade | |
| `McpHttp` | POSTs with workers that may be left behind; the GET stream and its manager thread | |
| `McpStdio` | caller, reader thread, server, and two pipes of bounded size | |
| `Shell` | `run_shell` and `run_hook`: process group, drainer, feeder, deadline, grace | |
| `SteerQueue` | `chug_steer` and `drain_steering_queue`: files, names, descriptors, pieces of lines | |
| `Sinks` | the channel, batches, drain and exit of `observ.rs` and `notify.rs` | |
| `Exchanges` | what an iteration exchanges with the world | composes the six above |
| `Control` | detached runs; launch, cancel, abort of `mcp_serve.rs`, the wait of `delegate.rs`; process table and event log | |
| `Loopd` | two supervisors over pidfile, STOP, re-exec, builds, strikes | |
| `JudgeDaemon` | `DaemonJudge::judge`, `ensure_at`, `wait_for_socket`, `serve`, `bind_socket`, `stop` | |
| `Operations` | who starts and ends runs, and the judge they share | composes `Control`, `Loopd`, `JudgeDaemon` |
| `DriverLockProofs`, `DriveLoopProofs`, `JudgeDaemonProofs` | their theorems | the module of that name, TLAPS |
| `OperationsProofs` | the theorems of `Control` and `Loopd` | `Operations` |
| `ExchangesProofs` | the theorems of the six peers | `Exchanges`, `SteerQueueProofs` |
| `SteerQueueProofs` | the invariant of the steering queue, and what its recursive functions compute | `SteerQueue` |
| `RecordsProofs` | the theorems of `Session`, `Curation`, `Fork`, `Todos` | `Records`, `CurationProofs` |
| `CurationProofs` | the invariant of `Curation`, and what an edit and a trim compute | `Curation` |
| `MC*` | the instances for TLC | the module of that name |

`Records`, `Exchanges` and `Operations` compose parts that share no variable; a
behaviour of each is about one part and leaves the others at rest, which is all
there is to a product of independent parts. Where a part depends on another it
does so by a choice in its own model, named in the head of the composing
module.

Definitions keep the names of the functions they translate (`pid_alive`,
`dir_mutex`, `verify`, `pairs_intact`, `plan_trim_segments`,
`take_stream_fallback`, `connect_refused`, ...). A definition whose name
has a suffix, like `Rewrite_InPlace`, is a slip: the same step with a plausible
bug, kept beside the real one to show that a property would notice it. No
behaviour of a module uses a slip.

### DriverLock

`pc[p]` says what pid `p` is doing: nothing, something unrelated ("other",
"chug"), or which step of `acquire_with` or `Guard::drop` a run is at. `lock`
is the file, `flock` the holder of the kernel lock on the directory, `seen`,
`tries` and `round` the locals of `acquire_with`. `Kill` takes any run at any
step: its flock goes, its file stays. `Reuse` and `Start` give a free pid to
anybody. `Faults` is the environment: which calls may fail at all.

### DriveLoop

One action per stage, in the order of the code: `Top` (the four checks),
`Drain`, `ApplySlash`, `budget_low_notice`, `MirrorAndReadSpec`, `Call`,
`ToolCall` until `ToolsDone`, then `NaturalStop`, `PlanSubmitted`, `verify` or
`JustWork`, then `Stuck` or `EndTurn`. `Tick` and `OperatorAborts` may happen
between any two of them. A response is a number of calls; which calls they are
is found out one at a time (`ToolCall`), which makes the same sequences with
fewer states. `recent` keeps of the window of results only what the tripwire
looks at: how many equal errors stand at its end. `image`, `mirror` and
`degraded` follow an image block through results, mirror, edits and the
refusal. `Fails` is every `?` that leaves the loop. The chain in front of a
tool is permissions, hooks, plan mode, risk gate, dispatch, in that order; the
check command of `verify` goes through the gates of a bash call. A risk gate
that is on may block any command and let any pass: the verdict is the judge's,
and a judge that is late, absent or in error lets the command pass
(`driver.rs:1384-1406`). `held` is set by `CallHangs` while the loop is in a
call that no time limit covers; from then on it makes no step.

### Messages, Journal, Session, Curation

The tool calls of one reply are executed and answered as one batch, so one id
stands for the batch. In `Session` a line is written with two writes, text and
newline (`AppendLine`, `Newline`), so a death can fall between them. One in the
middle of the text (`DiesWriting`) leaves a `Garbage` line, which is no JSON, or,
inside a character of several bytes, a `Cut` line, which makes the whole file
unreadable (`read_to_string`). A line written to a file without final newline
joins what is there, as in the code (`Written`). `Load` refuses a file that is
`Corrupt`: garbage before its last line, or not UTF-8. `CutTorn`,
`repair_interrupted_tools`, `ResumeTrim` are the next steps of a resume.
`CtxEdit` and `LoopTrim` are the rewrites at the end of a turn: an edit deletes
any runs of mirrored messages and turns the bodies of others into any of
`Bodies` of the same role; a trim puts markers in the place of any segments of
its window that the code's gates would let through, several at once (`gone` and
`heads` say which messages go and where a segment begins, `Runs` and `Spliced`
what that makes of the list). `ImagesRefused` takes the images out of the
messages in memory and leaves the file, which keeps them until the next rewrite;
what an edit writes is the mirror, which was made before. A `world` says which
processes there are, where deaths fall, whether tools return images, and what an
earlier session left. `Journal` is refined under `log <- Loaded`, the whole
lines of the file; its `Compact` is a splice of several runs with bodies
changed.

`Curation` has the choices `Session` leaves open: a turn grows by batches of
sizes from `Sizes`, an edit is checked by `check_after_turn` and spliced by
`assemble`, and `transcript_trim` goes segment by segment (`Choose`) until the
estimate is below the target. The code plans all segments first and then
chooses among them; here each is planned when the pass comes to it, which is
the same since a segment depends on the messages from its start on only. Sizes are characters and tokens are sizes divided
by `PerToken`, rounded as in the code. A whole pass is one step there.

### Fork, Todos

Both put a command's system calls in order, and a death or a failure between
any two. `Fork` numbers messages and versions of the ledger; `owed` are the
versions no session replaced, `raced` remembers that a session was open while
a restore moved files. In `Todos`, `told` is what saved calls made of each id,
and `crossed` remembers that a call loaded the list before another had saved
it.

### The peers of an iteration

`ApiClient` puts a reply together from the events of a stream that may stop or
fail at any event, attempt after attempt. `McpHttp` keeps one post under way
and the posts that were left behind, which may reach the server later (`line`,
`strays`, `arrived`, `executed` are the server's side and history);
`listen` is the manager with the event it is in the middle of (`half`) and the
id it would resume from. In `McpStdio` a pipe holds `StdioCap` lines and a
write to a full one waits: caller and reader thread share the lock on the
child's stdin. `ReadsAlways` says whether the server reads while it writes. `outside` is a
process that left the server's group and keeps both pipes open when the group
is killed; an `end` line is what ends the reader while the server lives: text
that is not UTF-8, or a closed stdout. Dropping the server waits for the reader
up to a limit and then leaves it behind, so `DropServer` does not depend on it.
`Shell` has a tree of processes, in the group or out of it, that print, fork,
leave and keep the pipes; the waiter's deadline, the drainer's grace, the
feeder of a hook. In `SteerQueue` a file is a sequence of pieces; `queue` is the
file that has the name `steer.jsonl` now, and a descriptor goes on writing to
its file after the name has moved. A file is read whole or not at all, and
removed either way: `Read` may fail by itself (`ReadErrors`) and where a line
was cut (`Torn`), and the notes this costs are `unread`. A rename that fails
(`driver.rs:1788-1790`) leaves everything as it was until the next boundary,
which is a step that changes nothing. `Sinks` has both sinks in one module: they
differ in batches and in how the end waits.

### Control, Loopd

`run[r]` is the process of a run, its leader and its group, and whose child it
is; the log (`stream`) is kept as what `Summary` can tell from it: who began
last, and which verdicts, and what its last line is like: whole, half (a
run was killed in it, or the append of the abort record failed in it), or a
verdict without its newline. `server` is a control
call at its step (look, identity, SIGTERM, grace, SIGKILL, record), `wait` the
poll of an orchestrator with what it knew when it began. `Loopd` has the steps
of the script between its commands, for supervisors that start, are killed, are
told to stop, and whose script is edited.

### JudgeDaemon

`at[d]` is the step of `serve` the daemon is at; `sock` is whose socket the
name leads to (a dead daemon's, when stale); `flock` may also be held by a
client, whose `daemon_lock_held` asks by trying to take it, and which takes a
lock file it cannot open for a free one. `dead[c]` is the
latch with its message. A new daemon process has a new name: pids are not
reused here. `healthz_ok` and the question itself are one step when they
succeed, since nothing of them stays.

## 3. Runs

| Run | Shows |
|---|---|
| `lock_safe` | three pids, kills and reuse, flock/ps/read reliable: `HolderOwnsLock` (the file names every living holder, so there is one at most), `OnlyOwnRelease` (a living holder's file is changed by nobody else), refinement of `RunMutex` |
| `lock_faults` | every call may fail: acquiring and releasing come to an end (`NeverHangs`); exclusion is not promised there, and the code says so (it degrades) |
| `lock_stale` (violated) | `StaleLockReclaimed`: a run that is given the pid of the dead holder refuses itself |
| `drive_gates` | run and plan, harmless and denied commands, a judge that may block any of them or let it pass, a spec whose check changes, images: `SuccessIsEarned`, `ImagesStayOut` |
| `drive_budgets` | run and chat, all limits, /budget, aborts, free edit turns: `CallsBounded`, `StopsInTime`, `WarnedOncePerKind`, `Terminates`, which excepts a call that hangs |
| `records` | session (a run alone, killed in steps, lines, characters or before newlines, with images refused; a run beside a chat), curation, slots and todos, dying and failing anywhere: `RequestsPaired`, `ResumeDerivesMemory`, `NothingLost`, `KeepsJournal`; `CutsAreWhole`, `FrozenPrefix`; `ForkKeeps`, `RestoresSlot`; `TodosKept` |
| `session_kept` (violated) | `NothingLost` when chats follow one another |
| `session_beside` (violated) | `AppendsInterleaveHarmlessly` when a chat writes beside a run, with no death at all |
| `steer_torn` (violated) | `JustThatLine`: one line that was cut inside a character costs the whole notes of the same file |
| `exchanges` | the six peers: `ReplyIsWhole`; `HttpOnce`, `HttpEnds`; `OwnAnswer`, `CallReturns`; `ResultHonest`, `CommandReturns`; `NothingQueuedIsLost`, `SaidOnceInOrder`, `Drained`; `FlushedInOrder`, `ExitNotStalled` |
| `mcp_hang` (violated) | `ResourcesReturn`: a server that lives and works on, but writes without reading, locks reader thread, caller and itself |
| `operations` | two detached runs and those who control or await them: `AbortTruthful`, `AbortStops`, `WaitWakes`; two supervisors: `StopLands`; two clients of the judge, two daemons that may fall anywhere, one --stop: `OneDaemon`, `LatchHasCause`, `StopStops`, `CallsReturn` |

Each property stands under "Properties" of its module with a comment that says
what it means and which change of the code it guards (the T-numbers are those
of the repository's specs).

Deadlock is checked in the lock runs only. The others end by design: an
invocation is over (`pc = "done"`), the bound on starts is used up, the notes
are sent, everything a peer may do has been done.

## 4. Bounds, and why they are enough

* `DriverLock`: three pids give a holder, a contender and a pid that changes
  owner, which is what the reclaim, the verify loop and the release compare.
  `AcquireTries` and `ReleaseTries` are 300 and 50 in the code; the number
  only says how long a contender persists, and 2 already separates "retry"
  from "give up". `Rounds` is the 3 of the source. The proofs drop all these
  bounds but `Rounds`.
* `DriveLoop`: limits of 1 and 2 iterations and minutes, 3 tokens in steps of
  2, thresholds of 1, one free edit turn, one `/budget` or `/check`. Every
  comparison then has values on both sides and at the boundary, and a limit
  can move down and up. `MaxHistory` stops the history counters; in
  `drive_budgets` it is 5, above the 4 requests that an invocation with these
  limits can make, so it hides no violation. That run has `Errors = {}`, since
  error texts matter only to the tripwire; `drive_gates` has one error text and
  two calls a turn, so that a blocked claim, a passed claim and work mix in one
  turn. The proofs drop the bounds.
* `Session`, four worlds in one run. `Run`: a run alone, three starts (a death, a
  resume, and a death of that resume), killed between steps, in lines and in
  characters; six lines hold a goal, a batch with its results, a marker, and a
  resumed turn, and two batches give a repaired one and a later one. `Shown`: the
  same with tools that return images, two starts, killed between steps.
  `Rushed`: killed between a line and its newline as well, five lines. `Shared`:
  a run and a chat, where the bounds are smaller (two starts, four lines), for
  the two processes multiply; it begins with the goal and the open batch of an
  earlier session, which a third start would otherwise have to write. `Bodies` is
  a text and a reply, so that a body changes within both roles. `Keep` is 2.
  The proofs drop all of this.
* `Curation`: `PerToken` is 2 instead of 4 and the thresholds are single
  digits: sizes 2 and 7 make segments below, at and above the minimum worth
  collapsing, three batches make a pass with two picks and a pass over what a
  pass left; one note is a line that is neither call nor result.
* `Fork`: three commands are a save, a save --force or restore that fails half
  way, and a restore; two sessions, three messages and two ledgers are one more
  of each than a slot holds. `Odd` is empty in the run (section 8).
* `Todos`: three calls, three sessions; the proofs drop both.
* `ApiClient`: two blocks of two pieces have a cut within a block, between
  blocks and before the end; three attempts (the code's are ten) are a
  first, a middle and a last; two requests, since the latch outlives one.
* `McpHttp`: three posts (one lost, one left behind, one after it), three
  events (one handled, one cut in the middle, one after the reconnect).
* `McpStdio`: pipes of one line are always full as early as possible; four
  calls have a late answer, a double one and one after them, and three lines of
  the server an answer, a request of its own and one that ends the reader.
  `mcp_hang` needs three calls (the handshake's two and one for resources) and
  six lines.
* `Shell`: three processes (the command, one in its group, one outside), three
  chunks over a pipe of two.
* `SteerQueue`: two notes are enough for order and for collision, in three
  pieces each; two starts give run and chat, or the restart of one. `ReadErrors`
  lets any read of a staged file fail; `steer_torn` leaves it off, so that the
  only reason is what a sender wrote.
* `Sinks`: five events over a channel and a batch of two: a full channel, a
  full batch, a rest.
* `Control`: two runs of one directory, a verdict each, two servers (one that
  restarts). `Loopd`: two supervisors (and their successors), four rounds, one
  edit of the script.
* `JudgeDaemon`: two clients are enough for every race of ensures; two
  daemons, for a refused and a loading one, or for one and its successor; when
  both are used up, a spawn fails as on a full host. A wait has one round
  (the code: 240), so a client gives up early and often, which its next
  question makes up for; two waits in vain latch it, as in the code.

## 5. Fairness

* `DriveLoop!FairSpec`: weak fairness of the loop's own steps, as long as it is
  not `held`. One thread runs the loop. What it calls has a time limit (the API
  client, shell tools and hooks, the wait for an MCP answer, the read and write
  of a question to the judge) with three exceptions: the write to an MCP
  server's stdin (`mcp.rs:1437`), the join of a hook's feeder (`hooks.rs:546`) and
  the connect to the judge's socket (`daemon.rs:154`). `CallHangs` may stop the
  loop in a tool call or a goal check for these, for good, and `Terminates` says
  that nothing else keeps an invocation from its end. Clock and operator are not
  obliged.
* `DriverLock!FairSpec`: weak fairness of each run's own steps; the run is
  sequential code whose waits are counted. No fairness of kills or starts.
* `HttpFair`, `SinksFair`, `ShellFair`: time limits pass and the code's own
  threads run. Servers, commands and notifiers owe nothing; only a Langfuse
  POST ends, because its client has a timeout.
* `StdioFair`: caller and reader thread are strongly fair at the stdin lock
  (std's Mutex is not FIFO, but a waiter that is woken again and again gets
  it), weakly elsewhere. Nothing is asked of the server, and `CallReturns` says
  what can be had without: a call comes back if the child's stdin does not stay
  full for good (`Writable`), and the reader ends once the server is gone and
  nobody else has its pipes. `WillingSpec`, of `mcp_hang` only, is the server at
  its best: it lives until it is dropped, starts nobody outside its group, and
  goes on reading and writing as far as the pipes and `ReadsAlways` let it; the
  call hangs all the same.
* `SteerFair`: weak fairness of each loop's own steps: a loop that goes on comes
  to its next boundary, and a rename that fails there succeeds at a later one. A
  loop that hangs does neither, and `Drained` is not about it; senders need not
  send or finish.
* `ControlFair`: a call in progress goes on, its grace passes, a wait polls.
  Runs need not react to a signal, end or log anything.
* `LoopdFair`: a supervisor's own steps; a cycle, a build and a sleep end.
* `JudgeDaemon!FairSpec`: weak fairness of a client that has a question under
  way. Requests have a limit of 2 s, the lock is asked without waiting, a wait
  is bounded. (The connect before a request has no limit; it waits only while
  the backlog of a listening daemon is full, which is left out here and is one
  of the calls of `CallHangs`.) A daemon need never make a step, and a client need never ask.
* `Session`, `Curation`, `Fork`, `Todos`, `ApiClient` have no liveness: what
  they must eventually do is DriveLoop's.

## 6. Proofs

`DriverLockProofs` (for every set of pids, any budgets):

* `TypeCorrect`, in every environment, whatever fails.
* `Exclusion`, `LockNamesHolder`, `ReleaseIsOwn`, `Refinement`, under
  `LockWorks`: flock and reads and ps work, and no section outlasts the budget.
  They rest on one invariant, `IInv`: a run in the section holds the flock
  (`SectionIsExclusive`); what it read and is about to act upon is still in
  the file (`SeenIsCurrent`); a run that has decided to reclaim finds no
  holder (`ReclaimFindsNone`); one that verifies has its own pid in the file
  (`VerifiesOwnPid`); and the file names every holder (`HolderOwnsLock`).
  Exclusion alone is not inductive: that nobody else passes the probes needs
  to know that the file names the holder, and that nobody truncates it under
  the holder needs to know that who truncates has found no holder and is alone.
* `Refinement` maps `owners` to the runs whose guard has a path; each step of
  the protocol is an `Acquire`, a `Release` or a stutter.

`DriveLoopProofs` (for every mode, limit, command set, rule set and check):

* `TypeCorrect`.
* `SuccessEarned` from `EarnedInv`: a turn that may end the session
  (`turn.goal` or `turn.plan`) holds a claiming call that ran (`ClaimsRan`),
  and nothing has ended the invocation before (`OpenTillDone`).
* `RequestsBounded` from `CallsInv`: requests are at most the counted
  iterations, MaxFree times as many free ones, the free ones since the last
  counted one, and the one under way. The bound that is the property does not
  say how much of the present row of free turns is used up, so it is not
  inductive.
* `StopsAtTheBoundary` from `StopsInv`: a request made although there was a
  reason to stop leaves that reason standing until the top is reached, since
  only a slash command takes a reason back, and those are read below the top.
* `WarnsInTime` from `WarnedInv`: there are no more notices than latched kinds
  (`NoticesLatch`), and an iteration that goes past the notice unwarned has
  more than one iteration left (`RoomLeft`). The property speaks of the end of
  the invocation; how it got there without a warning is in `RoomLeft`, step by
  step, which is why the property alone is not inductive.
* `RefusedImagesStayOut` from `ImagesInv`: the turn under way after a refusal
  has no image (`TurnHasNone`), so what is appended later brings none back.

`JudgeDaemonProofs` (for any number of clients, daemons, rounds, stops):

* `TypeCorrect`, `OneDaemonPerHost`, `NoLatchWithoutCause` and
  `StopIsThorough`, from one invariant. A client with a question is not
  latched and has lifetime budget left (`AskersLive`, without which the count
  of vain waits has no bound); one that waits has a child, one that probes the
  lock has seen it ended (`WaitsForChild`); as long as no daemon fell, the
  first that took the lock has it, so that a refusal proves that somebody is
  on the way (`FirstDaemonStays`); past `RecordPid` the lock file names the
  holder of the flock (`LockNamesDaemon`), and what was serving when --stop
  looked is what it is about to kill, or gone (`StopHasServer`).

`OperationsProofs` (for any number of runs, servers, supervisors and edits):

* `ControlTypeCorrect`, and `AbortIsTruthful` from `IInv`. The property speaks
  of an answer that was given; the invariant adds what a call knows on its way
  there: it is about a run that was launched, and writes the abort record only
  when it has seen the leader end (`CallsKnowTheirRun`); what was claimed was
  claimed of a run that has ended (`ClaimsAreOfEnded`); only a death inside a
  line leaves half a line (`HalvesAreTorn`), so that a record of an abort is
  readable unless `torn` (`AbortIsInLog`).
* `TypeCorrect`, of both parts, and `OneWindow` from `LoopdInv`: as long as no
  two supervisors have come to run beside one another, one at most is past its
  look at the pidfile, and from its write to its end the file names it
  (`PidfileNames`). So a start that finds no living pid there finds either
  nobody or one that stands between its check and its write; `beside`, which
  `StopLands` excepts, has no other cause, whatever is killed, stopped,
  re-executed or edited.

`ExchangesProofs` (for any sizes of streams, pipes, channels and batches, any
numbers of calls, attempts, events, processes and notes), an invariant per peer:

* `TypeCorrect`, of all six. That a channel holds no more than `ChannelCap` and
  a batch no more than `BatchSize` needs `KeepsRoom`: who sends has seen room,
  and the flusher fills a batch only up to its size.
* `ReplyComesWhole` from `ApiInv`: as long as an attempt met no error, its
  accumulator is what the events up to its position say (`InPosition`,
  `Gathered`), and every attempt begins afresh (`SentAfresh`).
* `NothingTwice` from `HttpInv`: of a request there is one chance at most to be
  executed, wherever it is: executed, arrived, with a worker that was left
  behind, or at the connect (`OneChance`); that is what "a retry only when the
  connect was refused" comes to. The id the stream resumes from is that of the
  last event handled, also in the middle of the next (`Resumed`).
* `AnswersAreOwn` from `StdioInv`: what is pending, and what lies in the
  channel of the caller, belongs to the request under way (`PendingIsOwn`,
  `InboxIsOwn`), which is the last one (`LastIsUnderWay`).
* `ResultsAreHonest` from `ShellInv`: the end of the pipe is the end of all who
  could write to it (`EofIsEnd`), and a group that was killed stays dead
  (`GroupGone`), since only its living members start others.
* `FlushesInOrder` from `SinksInv`: sent, in hand and in the channel are
  together what was accepted, in order (`Order`), and the flusher is over when
  the last two are empty (`Emptied`).
* `NotesAreKept` and `NotesAreSaidOnce` from `SteerInv` (`SteerQueueProofs`).
  Files only grow, and one that was renamed away is read by one loop
  (`TakenOnce`). Where two notes stand to each other, in a file or in two, is
  settled when their lines begin (`BegunOnce`, `EarlierAhead`); a line that is
  whole, with a line after it or nothing, stays whole (`Sealed`). So a note is
  always in the queue, in a file that is being read, in a hand, said, or in a
  file that could not be read (`Somewhere`), by one loop only (`HeldOnce`), and in
  order (`InOrder`).

`RecordsProofs` (for any number of messages, processes' starts, commands and
calls), an invariant per part:

* `RequestsArePaired`, `MemoryIsDerived`, `MessagesAreKept` and `JournalIsKept`
  from `SessionInv`, which says of every step what the process remembers: what
  it will write has the shape its step needs, and its mirror shows the first
  messages it has in memory, perhaps with their images (`Sane`); at every step
  that can lead to a request the messages pair, with the batch under way counted
  in (`Paired`); and there is a list of messages that the file of a lone run says
  and that the run remembers, without images if they were refused (`Holds`,
  `Recalls`). How a file says a list depends on the step and on where deaths fall
  (`FileSays`): line by line; with a torn or a cut line behind it while nobody
  has loaded it; or with two of its messages joined in one line by a death
  before a newline (`Merged`), until a resume refuses it. None of the properties is
  inductive: each speaks of the boundaries, and a repair, a resume or a rewrite
  passes through states where messages and file differ. `MemoryIsDerived` is
  proved for deaths anywhere. `JournalIsKept` is the refinement, for deaths
  anywhere but between a line and its newline (`Alone`; after one of those the
  next append joins what it writes to a message that was whole, and the history
  does lose it): each step of a session is a `Grow`, a `Compact` of any runs of
  messages or a `Begin` of `Journal`, or leaves `Loaded` as it is.
* `ForksKeepAll` and `SlotIsRestored` from `ForkInv`: every message and version
  is in the live files or archived (`MessagesSafe`, `LedgersSafe`); nothing is
  open while a restore moves files (`Apart`); and at each step of it what it has
  moved away is archived already (`Moved`).
* `CutsStayWhole` and `PrefixIsFrozen` from `CurationInv` (`CurationProofs`):
  the markers of trims stand in one row behind the first message
  (`MarkersTo`), which is why nothing of the conversation before them can change.
  A trim is a recursive function of the number of segments passed; what holds of
  its pass is stated for every step of it (`Going`: what is behind it is
  markers, then a copy, and pairs; `Weighs`: its running total is the estimate
  of what it will leave, up to a rounding per marker). That a second trim does
  nothing is that it stands at the same segments and finds each too light
  (`Ended`, `Idle`), or that the first left less than it starts at
  (`LightEnough`), for which `RoundingIsSmall` is needed.
* `StepsTypeCorrect` and `StepsAreKept` from `TodosInv`. Ids are positions, in
  the store and in every copy (`ListsNumbered`); and as long as no calls
  crossed, one is under way at most, its copy differs from the store at its own
  todo only (`OnlyItsOwn`), and the store is what the calls reported
  (`InTurn`). The property says nothing of copies, so it is not inductive.

A composed module gets its theorems in one way: a step of it is a step of each
part or leaves that part's variables alone (`StepOfPart`), so the invariant of a
part is one of the whole.

Assumptions: the ASSUMEs on the constants, which TLC evaluates in the runs, and
the hypotheses that theorems name:

* `LockWorks` (lock): see above.
* `RunsAlone`, `FromScratch` (session): a world with one process has a run in
  it, which finds what runs leave, or nothing. They say which worlds the
  property is about, for a chat goes on with whatever it finds (section 7), and
  TLC evaluates both (`WorldsAssumption`).
* `Odd = {}` (slots): every ledger is UTF-8; without it the property is false
  (section 8).
* `RoundingIsSmall` (cuts): the markers of a conversation lose less by rounding
  than the 40,000 tokens between the thresholds, or nothing; TLC evaluates it
  (`RoundingAssumption`).

Every safety property of the passing runs is stated by a theorem. Only
model-checked, for good, are the liveness properties (`Terminates`,
`NeverHangs`, `CallsReturn`, `CallReturns`, `CommandReturns`, `HttpEnds`,
`Drained`, `ExitNotStalled`, `AbortStops`, `WaitWakes`, `StopLands`), since the
prover has no rules for fairness and ENABLED here. It cannot use the library's
theorems on induction and on recursive functions either, which take an operator
as a parameter; where a proof needs them (`SteerQueueProofs`, `CurationProofs`)
the induction is over the set of the numbers a fact holds for (`Smallest`,
`Upwards`), and that a recursive function exists and has the equation it was
defined by is proved once (`Iterates`).

The type invariants of `DriverLock`, `DriveLoop`, `JudgeDaemon`, `Operations`
(`Control`, `Loopd`), `Exchanges` and `Todos` are theorems of their own; those of
`Session`, `Fork` and `Curation` are conjuncts of the invariants above.

## 7. Disagreements found

Five runs end in a violation, each with a finding in `PROJECT.json`:

1. `lock_stale`: a stale `driver.lock` is not reclaimed when the next run has
   the dead holder's pid (in a container, always the same).
2. `session_kept`: a fresh chat's first edit or trim rewrites the transcript
   without the sessions before it, and without an archive.
3. `session_beside`: what a chat appends between a run's tool request and its
   results makes the run's transcript unusable for a resume.
4. `mcp_hang`: `mcp.rs:911` and `:985` promise that the resources requests
   never hang, "the leg reuses the CALL timeout"; the timeout covers the wait
   for the answer, not the write before it.
5. `steer_torn`: `driver.rs:1778-1780` promises that "a staging read failure or a
   malformed line drops just that line"; the staged file is read with
   `read_to_string(..).unwrap_or_default()` (`:1791`) and removed (`:1794`), so
   either costs every note in it, when the malformed line is one that a failed
   `chug_steer` cut inside a character.

## 8. What the models show beside the runs

Each of these is an exception that a property states, a constant that a run
sets, or a stronger property that was tried and fails.

Transcript and context

* `transcript.rs:57-60`: "a crash mid-append tears only the LAST line, so the
  intact prefix always loads and the transcript stays resumable". Two deaths do
  not tear it so. One inside a character of several bytes makes the file
  unreadable as a whole (`:69-70`), until somebody cuts the tail by hand. One
  between a line and its newline (`:42`: `writeln!` on an unbuffered `File` is two
  writes) leaves a last line that parses; the next append joins it, and after one
  more death the file is corrupt in the middle. `ResumeDerivesMemory` names both,
  and says of the first that nobody is at work on such a file; with "newline" in
  the deaths of a world `Corrupt` may hold otherwise, and `Says` allows the joined
  line. With either of the two exceptions dropped TLC finds the case.
* After a refusal of images memory and file differ (`driver.rs:1231-1235` strips
  the messages and does not rewrite): a resume brings the images back, to be
  refused once more (`degraded` in `ResumeDerivesMemory`).
* A fresh chat in the directory of a session that died inside a batch
  (`chat.rs:336`) appends after the open batch without repairing it; the next
  resume finds a pair that is separated.
* An edit accepted in the very iteration in which the endpoint refused images
  (`driver.rs:1663`, `:1227-1235`) was written from a mirror that still had the
  image block: it brings the image back, and the next refusal is fatal, since
  the latch is used up. `ImagesStayOut` names the exception.
* A trim may swallow the `[ctx-edit: ...]` markers of earlier edits: only edits
  treat them as pinned (`live_ctx.rs:98`), `trim.rs` knows its own. And the
  total that a trim works down is the sum of rounded estimates, so that a pass
  can stop one step before or after the target. `CutsAreWhole` says that a
  second pass finds nothing to do all the same, and `RoundingIsSmall` says what
  that rests on: a marker loses less than a token by rounding (`trim.rs:223`),
  and a pass has 40,000 tokens between its thresholds, so that a conversation
  needs tens of thousands of markers before a second pass could find it too
  long again.

Steering

* A note whose last piece is written after the rename (`mcp_serve.rs:1455`
  against `driver.rs:1769-1772`) is dropped although the sender is told that it
  is queued: `NothingQueuedIsLost` therefore speaks of notes that were whole
  lines under the queue's name (`whole`). And it excepts those of a file whose
  read failed (`unread`), which `steer_torn` is about.

Slots and todos

* `fork restore` asks once whether a run is alive and never whether a chat is
  (`fork.rs:162`); a session that starts meanwhile is overwritten. `ForkKeeps`
  excepts it (`raced`).
* A LEDGER.md that is not UTF-8 is skipped by the archiving
  (`ledger.rs:42-46`) and then overwritten by a restore, against
  `fork.rs:14-20`. With `Odd = {1}` `ForkKeeps` fails.
* Two todo calls that cross, of a run and of a chat beside it, lose one of the
  updates, or both report the same new id, although `todos.rs:28-29` calls ids
  stable. Without the `crossed` exception `TodosKept` fails in two adds.

Judge daemon

* A judge daemon can end up serving without a name: an ensure that found the
  predecessor's socket (or this daemon's own, between bind and listen) refusing
  unlinks the name after the daemon has bound it (`daemon.rs:361-365`), or a
  `--stop` that found no holder yet removes it (`daemon.rs:621`). The
  comment there reads "Only ECONNREFUSED (file present, no listener) unlinks".
  With the invariant `at[d] = "serve" => sock = d` the run gives a trace of 13
  states with --stop and of 15 without. The daemon then keeps the lock, every
  ensure spawns a child that is refused and waits in vain, and each client
  latches after two such waits; `StopStops` says that `--stop` is the way out.
* A lock file that a client cannot open counts as one that nobody holds
  (`daemon.rs:519-527`): a daemon that is loading is then taken for one that will
  never bind, and the client latches. `LatchHasCause` is about clients that could
  ask.

Commands, hooks, sinks

* A hook that ends without having read its stdin and leaves behind a process
  outside its group that has it open holds `run_hook` in a join without limit
  (`hooks.rs:546`, against the comment at `:498-500`); `CommandReturns` names
  the case.
* `observ.rs:365` counts "excess remainder" of a drain as dropped; what stays
  in the channel when the time is up is not counted.

Control of runs

* `mcp_serve.rs:445-446` and `:898` say that an abort ends "the whole detached
  tree". Commands of tools, hooks and MCP servers have groups of their own
  (`tools.rs:1115`, `hooks.rs:487`, `mcp.rs:1324`) and outlive a killed run.
* A run that is killed inside a line of the event log leaves a tail without
  newline; the abort record is joined to it and unreadable, though reported as
  recorded (`eventlog.rs:211`, against "line-atomic" at `mcp_serve.rs:1304`;
  `writeln!` is more than one write, and the record itself may end half way).
  `AbortTruthful` excepts `torn`.
* A group that is gone just before the SIGKILL makes the kill fail: the caller
  gets an error, and no record is written, although the run was aborted.
* "Already done" may be said on the strength of another run's verdict in the
  same log, and the record of an abort may land behind an accepted goal, or in
  the segment of the next run.
* A second rejection in a segment that already had one when a wait began wakes
  nobody (`delegate.rs:897`).
* A zombie of somebody else's child looks alive to `kill(pid, 0)`, so a wait
  for it runs into its deadline.
* Pids are checked and then signalled (`mcp_serve.rs:994`, and
  `daemon.rs:608` for `--stop`): a pid that is reused in between is outside the
  models, which use no pid twice there.

Supervisor

* A STOP that is created between the loop's last look at it
  (`loopd.sh:1262`) and the `rm -f` of the re-executed script (`:1124`) is
  lost, against `:1268-1271`. `Loopd` has the steps between (`Body` to
  `ClearStale`), and `StopLands` speaks of a STOP that exists while the
  supervisor is in a cycle or a sleep (`Within`), as the comment does; claimed
  of every step, it fails there.
* Two supervisors that read the pidfile before either writes it run beside one
  another, and the end of one lets a third start, which clears the STOP of the
  other. `StopLands` excepts it (`beside`), and `OneWindow` proves that nothing
  else brings two supervisors together.

## 9. What is not modelled, and why

* Texts: prompts, formats of events and reports, the matching of permission
  rules, markdown and JSON parsing, search and ranking. They matter to the
  modules as outcomes, which are nondeterministic choices. This is the larger
  part of the source by lines, with schemas, tests beside the code, and the
  drawing of the front end; the map therefore covers the smaller part of the
  lines, that with the control flow.
* The model and the tools: any reply, any result.
* fsync and power failure: a death is the death of a process; what it wrote
  stays.
* Several hosts on one directory.
* A transcript append that fails ends a run without an Aborted event
  (`driver.rs:1631`): `Fails` and `Dies` have the end, not the missing line.
* Writes of the event log that fail: they only warn.
* The decision log: an append without state. Its line is two writes, so what
  `Session` says of a death between them holds for it.
* `decision/`, `riskgate.rs`, `valroute.rs`: tables of choices without state,
  and a request whose failure is always "allow"; verdict and failure are one
  choice in DriveLoop, which also has the latch of the gate. `scripts/` of the supervisor: text processing, and one pass of
  Control's identity check.
* Numerics of the judge, `tui.rs`, `complete.rs`, argument parsing,
  installation.
* In the parts that are modelled in part: the API client's delays and fallback
  model, and content blocks of a type it does not know, which it drops
  (`api.rs:947`); headers and authentication over HTTP; the catalogue of MCP tools;
  chug_status and collect, which only read; the idle poll of a chat;
  LOOPD_MAX_LOOPS, digests, audits and the choice of a model in `loopd.sh`.

## 10. Plan

Done: the lock, the loop, session, steering, judge daemon, MCP over stdio and
HTTP, the API client, commands and hooks, sinks, run control, the supervisor,
slots, curation and todos; and proofs of every safety property that a passing
run checks.

Next:

1. `Todos`, `Curation` and `Session` against one abstract store, so that the
   independence of the parts, which `Records` states by construction, becomes a
   statement about who writes which file.
2. The decision chain (`decision/`, `riskgate.rs`, `valroute.rs`) as operators,
   checked against the table of choices in its tests.

Open questions for the models: pid reuse in `Control` and in the daemon's
`--stop`, and the idle poll of a chat beside the steering queue of a run.
