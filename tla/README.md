# A TLA+ model of the VM agents

minimal-vm-tool runs processes inside a virtual machine for a host outside.
The *exec agent* serves one connection each time it is started: it reads JSON
lines (`exec`, `kill`, `stdin` ...), runs one process, and writes JSON lines
back (`started`, `stdout`, `exited` ...).  The *liveness agent* reports the
machine's health over another connection.  This directory models the parts of
the code whose correctness depends on order, buffering and failure, checks them
with TLC on small instances, and proves some of the results with TLAPS.

## Inventory

| part | source | state | operations | what makes it correct |
|---|---|---|---|---|
| typed receiver | `protocol/src/io/rx.rs` | bytes not parsed, messages put aside, the reader's waker | `recv` of a type, `poll_recv`, `close`; a `recv` may be dropped at any time | each message reaches one receiver that asks for it, once, in order; the end hides nothing; nobody sleeps on its message |
| shared sender | `protocol/src/io/tx.rs` | one buffer of bytes, the writer, the messages left in each send | `send`, `send_and_flush`, `flush`, `close`, drop; short writes, push-back, cancellation | whole lines, in each sender's order, none repeated, none lost while the connection is up; the buffer is bounded; close and drop end in a shutdown |
| message types | `protocol/src/lib.rs`, `data_bytes.rs` | none | `from_message`, JSON | which receiver takes which message |
| session | `agent/src/main.rs` | the four tasks, the pipes, the receiver and sender they share | start, copy stdin, stdout and stderr, kill, report the exit, end | `started` first, output in order and `closed` after it, `exited` once, an error last, no process left behind, a session that ends |
| process handle | `agent/src/process.rs` | the child, or its exit status, behind a mutex; the pid | `spawn`, `signal`, `wait`, drop | the child runs as the user asked for; all waits agree; no signal goes to another process; drop kills a child that runs |
| liveness agent | `liveness/src/agent.rs`, `main.rs` | the connection, the last CPU sample | connect, report each interval, shut down, start again | reports go on through failures, the host learns of the boot, SIGTERM ends the agent |
| liveness metrics | `liveness/src/metrics.rs` | none (one CPU sample) | parse `/proc`, choose disks and labels | shares and usages in range, each file system once under its true path |
| liveness protocol | `liveness/protocol/src` | a line buffer | send, receive | whole statuses, in order |

The tasks of a session never talk to each other directly.  They meet in the
receiver (a task reads what another one waits for), in the sender (a task
hands over what another one has left in the buffer), and in the child (a kill
ends the output that the stream tasks wait for).  All four are polled by one
runtime task, `tokio::join!`, which is why a wake-up of any polls them all.

The liveness agent is a process of its own, with its own connection.  It shares
nothing with the exec agent but the form of its protocol, one JSON line for each
message.

The hard behaviours are listed as hazards, each at its line, in
`PROJECT.json`: one waker for several receivers, messages put aside for others,
sends cancelled half way, data left behind a busy writer, a close racing other
clones, a child that exits before its output is read, a descendant that keeps
the pipes open, a signal while another task waits for the child, a wait that fails, a close that is
dropped while it writes, reads dropped
in the middle of a line, a shutdown during a report, kernel numbers that
contradict each other, and a connection that fails at any of these points.

## Modules

| module | models | relation |
|---|---|---|
| `TypedChannel` | what the receiver promises: lines, and receivers that take them | abstract specification |
| `ExecRx` | `rx.rs`: polls under the mutex, `MsgBuffer`, the waker slot, `close` | implements `TypedChannel` (`ChannelSpec`) |
| `ExecTx` | `tx.rs`: the buffer in units, the steps of `DoSend::poll`, `close` and drop | used by `ExecAgent` in whole messages |
| `ExecAgent` | `main.rs` and `process.rs`: one session, its host and its child | instance of `TypedChannel` for what the host sends |
| `LineReaders` | how `rx.rs`, `main.rs` and `liveness/protocol/src/io.rs` cut bytes into lines | below `ExecRx` and `ExecAgent`, where a line is one element |
| `ProcessHandle` | `process.rs`: `spawn`, and `signal`, `wait` and drop around their mutex | below `ExecAgent`, which uses the handle from one task |
| `LivenessMetrics` | `metrics.rs` and `SystemdState`, as operators | used by `LivenessAgent` |
| `LivenessAgent` | `agent.rs` and `main.rs` of `liveness`, with systemd and the host | extends `LivenessMetrics` |
| `MC...` | constants for TLC | extend the modules above |
| `ExecRxProofs`, `ExecTxProofs`, `ExecAgentProofs`, `ProcessHandleProofs`, `LineReadersProofs`, `LivenessAgentProofs` | theorems about the module they are named for | extend it, and `SequenceLemmas` |
| `LivenessMetricsProofs` | what the operators of `LivenessMetrics` return | used by `LivenessAgentProofs` |
| `SequenceLemmas` | lemmas about sequences, and about the folds and `FlattenSeq` of the community modules | used by all proofs |

### ExecRx

A line is its position in the stream.  A poll of `recv` is two halves, as in
the code: `TakeBuffered` or `BeginRead` (the search of `MsgBuffer::pop`), then
one step for each line read, `ReadOwn`, `ReadOther` or `ReadBad`, until the
poll returns: `ReadPending` leaves the waker, `ReadEnd` is `Ok(None)`,
`ReadFailed` an error.  `lock` is the mutex, held from `BeginRead` to the
return; the host writes in between, which is what a poll of a socket can see.
`toPoll` is the set of receivers that will be polled: at first all of them,
then those that returned `Ready` and those whose task has been woken.  `Recall`
is a dropped `recv` followed by a new one.  `got`, `outcome` and `drained`
record what callers were given; nothing reads them.

`Wake` uses the waker of one task and puts every receiver of that task into
`toPoll`: `join!` and `select!` poll all their branches each time their task
runs.  No receiver is polled after a `close`: `rx.rs` has no guard for that, but the
agent never closes while it receives.

### ExecTx

A line is `LineLen` units, the last of which is the newline, so a short write
can cut it.  `poll_transmit`'s loop is `WriteSome`, any number of units at a
time; what `poll_flush` answers then is `FlushReady`, `FlushPending` or
`FlushFails`.  `AppendLine` and `PassMessage` are the two halves of `poll_send`
around its two flushes in the background; `Park` is `Pending`; `Cancel` drops
the future between two polls.

`close` is `StartClose` (its flush), `TakeLocal`, and then `TxLocal::close`, which is
awaited in the same future: `DrainSome` and `Shutdown` happen in a poll of the
caller's, `DrainParks` ends such a poll and `DrainAgain` begins the next, when the
connection has woken it.  A caller may drop the future there (`DropClose`), and the
connection goes with it: `tx` is then "lost".  The last handle that goes leaves a
connection nobody has closed to a task of its own (`Release`, `TxLocalDrop::drop`),
which writes and shuts down (`BackgroundSome`, `BackgroundShutdown`), or is dropped
with its runtime (`RuntimeStops`): `main` returns after a close that has failed, and
does not wait for that task.

### ExecAgent

`pc` says where each task is; "pre", "post" and "flush" are the places at which
a send can wait, `msg` the message it sends.  The sender is `ExecTx` seen in
whole messages: an idle writer takes the whole buffer (tokio's `Stdout` copies
it and works on it in a thread), a busy one nothing, and `HostRead` makes it
idle.  The child runs, exits and is waited for (`proc`); `open` and `reader` say
whether any process, the child or one it has started, still holds its end of a
pipe, so a pipe may outlive the child.  `doomed` is SIGKILL sent to a running
child: `Process::signal` and `Process::drop`.  `deaf` is the branch of a
`select!` that is disabled because its pattern did not match.  `fd` becomes
"closed" when a close request closes the descriptor under its reader; the
reader's next attempt may then fail or never happen (`ReadClosedFd` has no
fairness), since that depends on what the runtime remembers of a descriptor
that is gone.  `ExitWait` is `wait` with a status, `ExitWaitFails` with an error:
`exit?` ends the task, the error stands behind the mutex in the child's place, and
no kill request or drop reaches a child that runs on; `fault` remembers it.  `StdinWrite`
may leave its task in `write_all` for as long as the child does not read.

Tasks interleave here at each step of a send, which is finer than the code,
where a task is left only when it waits.  A kill request stands for SIGKILL;
other signals may be ignored by the child.

### LineReaders

The stream is a sequence of bytes out of a letter, a newline and one byte no
message has.  `Fill` is a read of any size, `Cancel` a read that `select!` drops
(the buffer belongs to the reader, or to the task that calls it), `ReadError` a
connection that fails.  The four values of `reader` are the same loop up to what
is handed out and what is done with a rest without a newline: `MsgReader` appends
a newline to it (`Closed`) and goes round again, `read_line_or_chunk` and `Lines`
hand it out.  `Owed` is the reference: what a reader hands out if it looks at one
byte at a time (`Scan`), and what is left over when there are no more.

### ProcessHandle

`spawn` is `Fork`, one `GiveUp` for each call of the `pre_exec` closure, and
`Exec`.  `slot` is the `Either` behind the mutex: the child, or what waiting for it
gave.  tokio's mutex is fair, so a guard that goes away hands the mutex to the
first in line, who is "granted" before it runs; one that is polled and finds the
child alive is "waiting", with the mutex.  `Cancel` drops a wait in line or at
work.  `signal` is two halves, `TrySignal` and `Send`, between which another thread
may run; `oneTask` says whether all users of the handle run in one task, where
nothing does.  `sent` holds only what reached the child while it ran, `pid` says
whose the remembered number is.  A `Child` that is dropped is waited for by the
runtime (`ReapOrphan`).

### LivenessMetrics and LivenessAgent

A file is the sequence of its lines, a line a record of its fields.  Paths are
sequences of characters, because the kernel writes some of them as escapes
(`Mangle`) and the agent must undo that (`Unescape`).  `Disks` folds over the
mounts as the loop does, with the paths and the devices seen so far.

One loop of the agent is `Collect`, `StartSend`, `Write` for each unit of the line,
`SendDone`, and `Shutdown` or `IntervalOver`; `report` exists between `Collect` and
`StartSend`, where it is looked at by the properties.  `Samples` are the CPU
samples any reading gives, so two samples in a row may have run backwards.
`Exit` ends the process, `Restart` is systemd's: a new connection, which the host
turns to.  `Fault` bounds refused connections, failed metrics, kills and hang-ups.

## Runs

All runs end in about three minutes or less with two workers.  Deadlock is not
checked: each system may stop, when a receiver is closed, a connection shut down,
a session over, a stream read, a child and its handle gone, or the liveness agent
told to stop; and the exec agent may wait for a host that is silent.

| run | what it asks | bounds |
|---|---|---|
| `rx` | `TypeOK`, `ExactlyOnce`, `InOrder`, `NoOvertaking`, `EndMeansAll`, `NoLostWakeup`, the refinement `ChannelSpec`, `EventuallyDelivered`, `EventuallyEnded` | three lines of two types or unparsable; three receivers, two with one type each and one with both, on one task |
| `tx_safety` | `WholeLines`, `SenderOrder`, `Kept`, `Bounded`, `ClosedClean` | two clones, two messages each in batches of up to two, two units a line, a mark of two units, a connection that takes one unit ahead |
| `tx_live` | `SendEnds`, `EventuallyShut` | two clones on one task, one message each, one unit ahead |
| `agent_safety` | `OutputInOrder`, `ClosedMeansAll`, `NothingUnsaid`, `SessionOrder` (`StartedFirst`, `ExitedOnce`, `ErrorLast`), `NoOrphan` | two lines of any kind, output among them, which the agent does not expect; one output stream, two chunks, a pipe of one, a mark of two messages |
| `agent_live` | `KillStops`, `ExitedReported`, `SessionEnds` | `exec` and two more events: a kill request, input, a line that does not parse, or a failure of the connection one way; one chunk, a mark of two messages |
| `process` | `TypeOK`, `RunsAs`, `SameAnswer`, `KilledByDrop`, `NoStraySignal`, `WaitEnds` | three waits, two exit statuses, root and one other user, a name that is known and one that is not |
| `readers` | `Framed`, `NothingHeld`, `Ends` | every stream of up to five bytes, two dropped reads |
| `liveness` | `NumbersInRange`, `DisksRight`, `WholeReports`, `BootSeen`, `KeepsReporting`, `StopsOnTerm` | one fault; lines of three units, one unit ahead; seven `/proc/stat`, ten `/proc/meminfo`, twenty-four `/proc/mounts`, one out of the ordinary at a time |
| `agent_unflushed` | refutes `OutputFlushed` | |
| `agent_close` | refutes `CloseAcknowledged` | |
| `agent_hangup` | refutes `KilledOnClose` | |
| `liveness_labels` | refutes `Labelled` | |

Why the bounds are enough for what they are meant to show: three lines are the
least with one message put aside, one taken and one still to be read, and two
of the same type around another; two units and two messages let a short write,
a push-back and a cancelled send cut any line and any batch, and two clones
are the least that interleave.  In the agent one output stream is modelled: the
two stream tasks are the same code on different pipes, and meet the other tasks
only through the buffer, where stdin and exit already interleave with one
stream.  A pipe of one chunk is full at once, and a mark of two messages leaves
one behind a busy writer.

`agent_live` runs a smaller system than `agent_safety` and looks further into it.  Its
specification is `Session` of `MCExecAgent`: the first line is `exec` and no other
one is (`ExecFirst`; a request sent before `exec` is pending when the process has been
spawned, as one sent after it is), and lines and failures of the connection are
counted together (`Events`), so that one behaviour has `exec`, a kill request and input
that holds the stdin task in its write, or a failure in place of either, in any order.
A first line that is not `exec` is in `agent_safety`.  `stdin` closed is left
to the end of the stream, which the stdin task treats alike.  TLC compares states by
`Present`: of the history that the safety properties read it keeps only what the
steps and these three properties use.  Close requests are left out, because
with them `SessionEnds` is not true: that is the disagreement `agent_close` shows.

Three waits are the least with one at work and two in line behind it.  Five
bytes hold two lines, an empty one and a rest, in any order.  Three units let a writer be cut twice in a line.  The mounts are the rotations of one
list and of its reverse, so that any two of them come in either order; that list
has a bind mount, a share of the host, a read-only mount of a path that is
mounted again, a line that is cut short, a path that looks like an escape, and
one that only begins like runtime state.

`TypeOK` of `ExecTx` and `ExecAgent` lists the types of their variables; the runs spend
their time on the properties that could be wrong, and the theorems `Typing` prove it.

Each property is paired in `PROJECT.json` with a change to the model that a
plausible mistake in the code would be, such as a search from the wrong end of
the buffer, a short write taken for a complete one, or a missing flush; TLC
finds the property violated then.  These variants stand in the modules, before
the definition they would replace, as "As a mutant: ...", and are not used.

### Fairness

* `ExecRx`: a poll that holds the mutex finishes (weak), and a receiver that is
  to be polled is polled in the end, although others take the mutex in between
  (strong): one task polls every branch each time it runs.
* `ExecTx`: the same for sends and for a close that has taken the connection; the
  peer reads (weak), and the task in the background goes on (weak).  Nothing
  makes a caller drop a future or the runtime stop, and nothing keeps them from it:
  `EventuallyShut` promises a shutdown unless they do.
* `ExecAgent`: each task that can go on does (one weak condition for all that a task
  does, since what the host and the child give is bounded), a process that has been
  sent SIGKILL exits, and the host reads.  No wait has to fail, no read of a closed
  descriptor has to return, the host owes nothing else, and the child owes nothing:
  neither output, nor reading its input, nor exit.
* `ProcessHandle`: a signal that has begun is sent (weak); a wait that can go on
  is polled, although signals may take the mutex between two polls (strong).
  Nothing is owed by whoever starts, drops or repeats waits, or by the child.
* `LineReaders`: a reader whose stream has more, or has ended, is polled (weak).
* `LivenessAgent`: an agent that can go on does, systemd restarts it, and the host
  reads (weak).  That a connect ends is part of it: vsock gives up after a time.
  Faults are owed nothing and are bounded, as the report loop cannot promise
  anything to a machine that fails for ever.

### Disagreements with documents and comments

Four runs refute what a document or a comment says:

* `agent_unflushed`: output is sent with `send`, which leaves it in the buffer
  behind a busy writer; if the child then falls silent the host does not hear it
  ("VM should flush stdout/stderr as available", `protocol/SPECIFICATION.md` line 296).
* `agent_close`: a close request closes the descriptor under the reader, and the
  task never sends `closed` ("must send a `closed` to acknowledge", line 33).
* `agent_hangup`: when the host closes the connection the exit task ignores the
  end and the process runs on ("VM kills processes immediately", line 255); the end-to-end tests rely on that, and
  end their side as soon as they have written the requests.
* `liveness_labels`: `device_label` compares the mounted device with the device
  that the node under `/dev/disk` is stored on (`dev()`), not the one it stands for
  (`rdev()`), so no disk has a label (comment at `liveness/src/metrics.rs` line 204).

Others were seen while the code was translated, and have no run of their own:

* messages before `exec` are kept rather than refused (`protocol/SPECIFICATION.md`
  line 71); a line that does not parse is dropped or ends a single task, and the
  error is sent only when all tasks have ended (lines 267, 275); input for a child
  that has closed its stdin fails the stdin task (line 151);
* `exec.user` is ignored when the agent is not root; `exec.pwd` is the agent's own
  directory by default, not "/" (line 63); output is cut into lines by default
  (line 65);
* a failure to collect metrics returns `Ok(())`, where the comment at
  `liveness/src/agent.rs` lines 20-21 makes it the one thing that is an error;
* SIGTERM is not heeded while the agent connects, collects, or sends to a host
  that does not read (`agent.rs` line 40, "exit promptly"); `StopsOnTerm` holds for
  a host that reads or is gone;
* counters of which only the idle time has run backwards give 100 per cent, by the
  clamp, where the comment at `metrics.rs` lines 76-78 has 0;
* `disk_of` multiplies counts in units of `f_frsize` by the larger of it and
  `f_bsize`; where the two differ both numbers are too large by their ratio;
* `DisksRight` agrees with the comment at `metrics.rs` lines 139-151 and not with those
  at `liveness/protocol/src/lib.rs`: "one entry per mount point" (line 107) is one for
  each device; the mount point "as it appears in `/proc/mounts`" (line 116) is the
  decoded path; and bind mounts do not "share" a label (lines 119-120), since only the
  first mount of a file system is reported.  The run's mounts have a bind mount and a
  path with an escape;
* `signal` may reach a stranger's pid when a wait that has ended has just handed
  the mutex to another (`Handover` in `NoStraySignal`), or when the handle is used
  from several tasks.  The agent does neither.

## Proofs

TLC looks at the bounds above; TLAPS proves the safety properties for every value
of the constants, from the assumption that stands with them in each module.

| module | theorems | what they state |
|---|---|---|
| `ExecRxProofs` | `Typing`, `Invariant` | `[]TypeOK`, `[]IndInv` |
| | `OnceEach`, `Ordered`, `KindsInOrder`, `EndComplete` | `ExactlyOnce`, `InOrder`, `NoOvertaking`, `EndMeansAll` |
| | `NoneSleepsOnAMessage` | `NoLostWakeup`, if all receivers are polled by one task |
| | `Implements` | `Spec => ChannelSpec`, the refinement of `TypedChannel` |
| `ExecTxProofs` | `Typing`, `Invariant` | `[]TypeOK`, `[]IndInv` |
| | `LinesWhole`, `InSenderOrder`, `NothingLost`, `BufferBounded`, `ShutClean` | `WholeLines`, `SenderOrder`, `Kept`, `Bounded`, `ClosedClean` |
| `ExecAgentProofs` | `Typing`, `Invariant` | `[]TypeOK`, `[]IndInv` |
| | `InOrder`, `ChunksInOrder`, `ClosedTrue`, `ChildFollows`, `AllSaid` | `SessionOrder`, `OutputInOrder`, `ClosedMeansAll`, `NoOrphan`, `NothingUnsaid` |
| `ProcessHandleProofs` | `Typing`, `Invariant` | `[]TypeOK`, `[]IndInv` |
| | `IdentityGiven`, `AnswersAgree`, `DropKills`, `NoneStrays` | `RunsAs`, `SameAnswer`, `KilledByDrop`, `NoStraySignal` |
| `LineReadersProofs` | `Cut` | `[]Reading` |
| | `Whatever`, `NothingWaits` | `Framed`, `NothingHeld` |
| `LivenessAgentProofs` | `Invariant` | `[]IndInv` |
| | `ReportsWhole`, `Numbers`, `RightDisks` | `WholeReports`, `NumbersInRange`, `DisksRight` |
| `LivenessMetricsProofs` | `UnescapeMangle` | `Unescape(Mangle(p)) = p` for every path |

Assumed of the constants is only what the code gives: numbers are natural, and
lines, marks and windows are not empty; each task, user and receiver is known by a
name that is not the one for nobody; the agent may have root's identity; a message
is of a kind, and no kind is that of a line that does not parse.
`ReadersAssumption` makes every stream a sequence, and `ReadingsAssumption` says
that a file of `/proc` is a sequence of lines, that what Rust parses as `u64`,
or `statvfs` returns, is a natural number or none, that a path has characters, and
that the mount point of a whole line of `/proc/mounts` is a path as the kernel
writes it (an escape the kernel never writes would not be undone).  Each run evaluates the
assumptions of its module.

None of the safety properties is inductive.  Each proof finds an invariant that is,
checked by TLC on the module's run before it was proved, and goes action by
action and conjunct by conjunct:

* `ExecRx`: that a receiver's lines are in order depends on how the buffer is
  sorted and on who has looked into it.  `IndInv` adds that the buffer is sorted and
  holds no unparsable line; that whoever holds the mutex has found nothing for
  itself in the buffer, so that what it reads next is the oldest it can get; that
  what is buffered for a receiver is newer than all it was given; and that each
  parsed line is in one place.  `RemoveAtFacts`, `PopFacts`, `AppendFacts` and
  `HandOut` say what taking from and adding to the buffer do to these.
  `NoLostWakeup` needs one more fact: whenever a receiver sleeps, the waker is
  registered (`WakerKept`), because the last poll of the task that read to the end
  of the input registered it.  `Implements` maps the channel's `pending` to the
  buffered and the unread lines; reads that put a message aside stutter.
* `ExecTx`: a line that is cut by a short write is whole again only with what is
  left of it in the buffer.  `IndInv` is about what is written and what is buffered
  as one stream: it is lines, one behind the other (`WholeStream`); a message is in
  it only if its turn has passed, or if its send remembers it, and then all of it
  is (`InStream`); only the holder of the mutex is in a poll of an open connection, and at
  most one close has taken the connection away (`Held`).
* `ExecAgent`: `IndInv` ties each actor's place to its message (`Places`) and to the
  session's stage (`Phases`), what has been said to how far everybody has got
  (`Words`), and what is about to be said of the child and its pipes to what is
  true of them and stays true (`Fate`).  `NothingUnsaid` follows from the last line of
  `Words`, `NoOrphan` from `Fate`: a child that runs has an exit task that still waits
  for it, or has been killed, or waiting for it has failed (`fault`).  That is the one
  way in which a session leaves a child behind: the code has it, and both properties
  about it, `NoOrphan` and `KillStops`, say so.
* `ProcessHandle`: `IndInv` follows the credentials through the calls of the closure
  (`Credentials`), and says what the slot behind the mutex holds when the child
  runs, has exited or has been waited for, and that every answer given is what the
  slot holds (`Remains`).  `NoStraySignal` needs that in one task a wait that is at
  work, and a signal that has read the pid, still have the child in the slot
  (`Users`), unless the mutex has just been handed on (`Handover`).
* `LineReaders`: `Reading` says that the lines of the first `k` bytes have been
  handed out and that the bytes behind them are in the buffer, or that they are the
  rest of the stream with the newline that was missing.  A step moves `k` to the
  next newline, and what the reference scans then (`ScanQuiet`, `ScanAppend`) is what
  the reader cuts out of its buffer.
* `LivenessAgent`: what the host has read of a line, what the connection holds and
  what is not written yet are one row of units without a gap, which ends with a line
  (`Gapless`), unless the agent was killed; `WholeReports` is an action property of
  it.  `NumbersInRange` needs that a report is collected only when there is a sample
  to compare with (`Sampled`), and that the operators of `LivenessMetrics` keep
  their results in range for any file of `/proc`, of any length.
* `DisksRight` compares what the loop over the mounts collects with the lines that
  show a disk and, of each device, the first.  That a report is of the reading it is
  compared with is inductive (`ReadFrom`, checked by TLC on the run's instance);
  the rest is about the operators.  `UnescapeMangle` follows the state of the
  decoder through a path that the kernel has written, so that the line's path is the
  true one (`PathTrue`); `RuntimeOrLasting` shows that the two descriptions of runtime
  state agree, also for paths of less than three characters; and `ListedStep` goes
  through the loop: after `k` lines the paths seen, the devices known and the disks
  listed are those of the first `k` lines that count (`Listed`), in which the n-th
  disk is the n-th first line of a device (`NthIs`).

Those operators, `Scan` and `FlattenSeq` are folds, which are defined by
recursion over sets of places.  `SequenceLemmas` proves that the functions which
the community modules define so exist (`FoldExists`, from the well-foundedness of
the order on the naturals: a fold that exists for no list would have a
shortest one), and that a fold goes through one value for each place
(`FlattenUp`, `ScanUp`); what holds for a prefix and is kept by one more element then
holds for the whole (`UpFromZero`).

`NoLostWakeup` is checked and proved for one task, as in the agent; the other
theorems hold for any `TaskOf`, so no run repeats them for several tasks.

Only model-checked:

* liveness under fairness, which is out of the prover's reach: `EventuallyDelivered`,
  `EventuallyEnded`, `SendEnds`, `EventuallyShut`, `KillStops`, `ExitedReported`,
  `SessionEnds`, `WaitEnds`, `Ends`, `BootSeen`, `KeepsReporting`, `StopsOnTerm`;
* the four disagreements, which are counterexamples.

## Not modelled

JSON and base64, logging, command lines, environments and login shells of the
child (the system calls of `spawn` succeed or fail), a poisoned mutex,
serialization errors, `arc_err.rs`, which wraps an error to make it clonable, and
liveness messages of a later version, which both sides refuse to parse.  The four escapes
of `Octal` are those the kernel writes; the code decodes any three octal digits.  After a
session ends the agent's process may still wait for a read of its stdin that runs
in a thread of the runtime.  In `LivenessMetrics` a percentage is cut to a whole
number where the code has a float, only sums of jiffies have the width of a word
(kilobytes times 1024, or blocks times their size, are far from 2^64), a device
that cannot be looked up is not told from one that can, and the order in which a
directory of `/dev/disk` is read is given.

Three hazards are listed without a property: clones of `Tx` polled by different
tasks, the unbounded buffer of messages nobody asks for, and the two ways in which
the agent does not refuse what the specification says it must.  The notes in
`PROJECT.json` say why.

## Plan

Done: all modules above, their runs, and the theorems of the table.  Left:

1. That the line buffer of `ExecRx`, where a line is one element, is what
   `LineReaders` cuts out of the bytes.
