# A verification project for the COHERENT 4.2 kernel

COHERENT is a small UNIX-like kernel for the i386. The specifications here model
the parts of it whose correctness depends on the order in which processes and
interrupts run. They are checked with TLC on small instances and, for the parts
named under "Proofs", proved with TLAPS for all values of their constants. Paths
are relative to `src/kernel/`.

## The system

The kernel is not preempted: a process in a system call runs until it calls
`x_sleep` (or returns), and only interrupts run in between. So the grain of every
model is "from one sleep to the next", with interrupt handlers as steps of their
own. What makes the code hard is what may have changed when `x_sleep` returns.

| Component | State | Operations | Interacts with | What is hard | Modules |
|---|---|---|---|---|---|
| Gates, `coh.386/proc.c` | `_lock[0..1]`, `_lastlock`, `u.u_lock_cnt` | `__GATE_LOCK`, `__GATE_UNLOCK`, `__GATE_TO_INTERRUPT` | every component that sleeps with a lock | wakeups, unlocking at interrupt level, the per-process count | `Gate` |
| Pipes and FIFOs, `coh.386/pipe.c` | ring offsets `i_pnc/i_prx/i_pwx`, counters `i_par/i_paw/i_psr/i_psw` in the inode | `popen`, `pclose`, `pread`, `pwrite`, `ppoll` | inode gate, descriptors, signals, poll | sleeping with the inode unlocked, entries shared by fork, interrupted opens | `Pipe`, `Channel` |
| Descriptors, `coh.386/fd.c` | `u_filep`, `__fd_t` with `f_refc` | `fd_open`, `fd_close`, `fd_dup_all` | inodes, pipes, record locks | which close is the last one | `Pipe` |
| Buffer cache, `coh.386/bio.c` | buffer headers, LRU and hash chains, `bufneed`, `bufsync` | `bread`, `bclaim`, `bwrite`, `brelease`, `bsync`, `bflush`, `biodone` | disk drivers (interrupts), file system | identity of a buffer across sleeps, read-ahead, delayed writes, several syncs | `BufCache` |
| Inodes, `coh.386/fs1.c`, `fs2.c` | in-core inodes, `s_inode`, `s_tinode` | `inode_find`, `iattach`, `idetach`, `icopydm`, `imake`, `ialloc`, `ifree` | gates, cache | reference counts, a slot that changes hands while it is waited for | `Inode` |
| Free blocks, `coh.386/fs2.c`, `fs1.c` | `s_free`, the chain of lists, `s_tfree` | `balloc`, `bfree`, `itruncate`, `indfree` | cache | lists kept in the blocks they list | `FreeList`, `FreeSet` |
| Processes, `coh.386/proc.c`, `sys1.c`, `sig.c` | process table, `p_ppid`, `p_flags`, the structure `pts` of ptrace | `pfork`, `pexit`, `uwait`, `ptset`, `ptret` | all | parents that wait, die or trace | `Process` |
| Signals, `coh.386/sig.c`, `lib/sig_*.c`, `lib/proc_ssig.c` | pending, masked and ignored sets | `proc_send_signal`, `curr_check_signals` | sleeping processes | waking sleepers of every kind | in `Process`, `Pipe`, `Sem`, `Ksynch`, ... |
| Poll, `lib/ddi_poll.c`, `coh.386/sys6.c` | `pollwait_t` with its cells, event lists of a device | `upoll`, `pollopen`, `pollwake`, `pollwakeup` | pipes, terminals, STREAMS, timeouts | wakeups between test and sleep | `Poll`, `Pipe` |
| Older timers, `coh.386/timeout.c`, `clock.c` | the hashed queues `timq`, `lbolt` | `timeout`, `timeout2`, `check_clock` | clock interrupt, drivers | a queue that changes while it is served | `Timeout` |
| DDI/DKI timeouts, `lib/ddi_time.c` | the delta queue, tickets | `CHECK_TIMEOUT`, `RUN_TIMEOUTS`, `untimeout` | deferred work | cancelling what is being run | `DdiTime` |
| Deferred work, `i386/defer.c`, `lib/ddi_defer.c`, `lib/ddi_run.c` | two rings of functions | `defer`, `defend`, `DEFER`, `__RUN_INT_DEFER` | interrupts | filled while being emptied | `Defer` |
| Record locks, `coh.386/rlock.c` | list of ranges of an inode | `rlock`, `waitlock`, `rlock_close` | descriptors, signals | blocking, cycles, lack of structures | `RLock`, `ByteLocks` |
| Semaphores, `conf/sem` | sets, undo lists | `usemop`, `usemctl`, `usemget`, exit | signals | several operations applied as one, undo | `Sem` |
| Messages, `conf/msg` | queues, `msg_map` | `umsgsnd`, `umsgrcv`, `umsgctl` | signals | one event for everybody | `Msg` |
| Shared memory, `conf/shm`, `i386/shm0.c` | segments, attachments | `shmget`, `shmat`, `shmdt`, `shmctl`, fork, exec, exit | segments | two reference counts | `Shm` |
| DDI/DKI locks, `lib/ksynch.c`, `coh.386/v_proc.c` | sleep locks, synchronisation variables, process lists | `SLEEP_LOCK`, `SLEEP_UNLOCK`, `SV_WAIT_SIG`, ... | STREAMS, drivers, poll | handing a lock over, interrupted sleepers | `Ksynch`, `HandOff` |
| STREAMS, `conf/streams`, `conf/echo` | queues, flow control flags, the schedule | `putq`, `getq`, `putbq`, `RUN_STREAMS`, `read`, `write` | deferred work, poll | flow control, service procedures that run between any two steps | `Stream` |
| Kernel heap, `lib/st_alloc.c`, `lib/kmem_*.c` | splay trees of free blocks | `kmem_alloc`, `kmem_free` | all | tree invariants | - |
| Terminals, `conf/tty`, `conf/pty` | clists, flags | read, write, interrupt routines | interrupts, poll, signals | flow control | `Tty` |
| Paging, exec, other drivers, boot, diagnostics, configuration | | | | | - |

`PROJECT.json` lists every component with its status. What would make each
component correct, and where that is hard to test, is its list of hazards; each
names the properties that would notice it going wrong.

## Modules

One module per component; `PipeProofs` and the like hold the theorems of the
module they are named for, `SyncProofs` those of `Gate`, `Poll`, `Defer`,
`Timeout` and `Ksynch`, `IpcProofs` those of `Msg` and `Shm`, `LockProofs` those of `RLock` and `Sem`,
`StreamProofs` those of `Stream`, `DdiTime` and `Tty`, and `SumProofs` what five of them
need of sums and recursion. `MCGate`, `MCPipe` and `MCBufCache` are the instances TLC checks of the
three oldest models. The other components are checked by three
suites, `MCIpc` (`Sem`, `Msg`, `Shm`, `RLock`), `MCSync` (`Ksynch`, `DdiTime`,
`Timeout`, `Defer`, `Poll`, `Stream`, `Tty`) and `MCKern` (`Process`, `Inode`,
`FreeList`). The components of a suite share no state: its variable `facility`,
chosen initially, says which of them a behaviour exercises, so one run explores
the state spaces one after the other and never their product.

Definitions keep the names of the functions they model. Operators commented as
mutants are deliberately wrong variants of the definition they stand before; no
specification uses them. They document that the properties do notice such a
change. Properties commented "Not an invariant" state what the code, a comment
or a manual leads one to expect and the code does not keep; see "Where the code
disagrees".

### Gate

`lock` and `want` are the two bytes of `_lock`, `lastlock` is `_lastlock`,
`lockCnt[p]` is `u.u_lock_cnt` of `p`, `state`/`event` are `p_state`/`p_event`.
`holds` and `locking` record which calls of `__GATE_LOCK` returned and which one a
process is inside of; `inKernel` are the processes in a system call. A turn of the
loop of `__GATE_LOCK` is `GateBusy` (mark the gate wanted, sleep) or `GateTake`.
`IntrUnlock(cur, g)` is an unlock at interrupt level while `cur` is current: the
count it would change is `cur`'s, which is why `__GATE_UNLOCK` looks at `_lastlock`.
Callers lock inode before free list before buffer; `Rank` is that order, and
without it gates would deadlock by design.

The `ASSERT (u.u_lock_cnt != 0)` of `__GATE_UNLOCK` is compiled only into the
diagnostic kernel and is not modelled, nor is `disflag`.

### Pipe

The variables are the fields of the inode, the owner of its gate, the state of
each file table entry, each process's descriptors, and for each process its
program point and arguments. Every turn of the loops of `pread` and `pwrite` is a
step. Each transfer through `fread`/`fwrite` may be partial when the user's memory
faults (`MayFault`). A `panic` leaves every process at `halted`. Bytes are numbered;
`wseq` and `rseq` count what was written and read, `ring` is what the blocks hold.
`pclean`, which only saves disk writes, is left out, and so is the contents of the
blocks on disk.

`Blocked(p)` is the condition a sleeper waits for. A writer waits for a *read*: a
write that wraps or ends wakes readers only, so another writer's progress is no
reason for it to wake. With a ring of 4 or more bytes it can happen that a writer
stays asleep although its bytes would now fit after another writer moved the
offsets; the next read wakes it, and `NoLostWakeup` asks for no more.

### BufCache

The contents of a block are a version number, `latest[b]` the last one stored. A
process that has not slept since it last ran is at a point in `Running`; then no
other process moves, but `biodone` may. The search of the LRU chain and the sleep
on `bufneed` are separate steps because the interrupt level is raised only
between them. `general_sync` first visits all buffers (`Build`), then writes the
listed ones in order of their blocks (`WriteList`); both stop at a locked buffer.
Callers are `fread` (`"read"`, `"ahead"`), `fwrite` of part of a block
(`"write"`) and of a whole one (`"claim"`), the super block update (`"super"`),
`sync ()` and the last close of a block device (`"flush"`). `goal` remembers what
was stored when a sync began. `Transfer` is the disk, modelled from how the cache
uses it: it copies a whole block, or fails (`IOErrors`).

### Inode, FreeList

`Inode` has the table of in-core inodes with their gates, the inodes on disk, the
list `s_inode` and the total `s_tinode`, and one program point per process in
`open`, `creat`, `close` or `unlink`. It sleeps for the gate of an inode or of a
directory, for the free inode gate and for an inode block. `i_lrt`, the time of
last use that picks a slot, is a rank.

`FreeList` has `s_free` of the superblock, the blocks that hold the rest of the
chain, and the indirect block of each file. `balloc` and `bfree` are one step
each (they hold the free block gate), a truncation gives others a turn between
two blocks. When `bfree` meets a block that is free already it returns with the gate
locked (`fs2.c:580`), and nobody allocates or frees from then on: that is `flLocked`, and
`FlSound` says it does not happen. It implements `FreeSet`: a block is free or belongs to one file, and
"Out of space" means that nothing is free.

### Process

`p_state`, `p_ppid`, `p_flags` and the pending signals are fields of the process,
`pt` is the structure `pts` of ptrace. `pfork`, `pexit` (which gives children to
process 1 and ends a trace), `uwait` with both ways of ignoring `SIGCHLD`,
`proc_send_signal`, `curr_check_signals` for a default action, `ptset` and `ptret`.
A debugger asks for a word, to go on, to go on with a signal, with which the child stops
anew at once (`got_signal`), or to exit.
A debugger and `wait ()` share the sleep and the flags `PFWAIT` and `PFSTOP`.

### Poll

`upoll` scans the channels one by one; interrupts come between any two looks, and
between the two looks of `ttpoll` at a channel of an older driver. Channels of
older drivers keep one flag `e_procp`, those of DDI/DKI drivers a list. `SvSignal`
is the end of the sleep, from an event, `POLL_TIME` or a signal. What a fresh
`pw_timeout` may hold is `PlGarbage`.

### Timeout, DdiTime, Defer

`Timeout` keeps `timq` linked as the code does, `t_last` pointing at what points
to the cell; `check_clock` keeps its pointer to the next cell (`tmScan`) while a
timer's function, interrupts included, sets and cancels timers. `timeout` is two
steps, since it raises the interrupt level twice.

`DdiTime` keeps the delta queue with `td_first`, the ticket protocol by which
`untimeout` waits for a function that runs, and `dc_run_timeouts` with the two
deferred tables that may hold `RUN_TIMEOUTS`. `tdDue`, `tdNow` and `tdCancelled` are
history.

`Defer` has both rings of deferred functions; functions and interrupts add to
them while they are emptied.

### RLock

`i_rl[f]` is the list of locks of an inode, `freerl` the number of free
structures, `p_prl[p]` the lock `p` waits for. A request cuts, shortens and combines
locks, runs out of structures in the middle, or waits after `waiting ()` has
looked for a cycle. It implements `ByteLocks`, a table of who holds which byte.

### Sem, Msg, Shm

`Sem`: `usemop` is a loop that restarts from the first operation after each sleep
in `semwait`, undoing what it had done; `semu[p]` is the undo list, `semPerm` what
completed operations without `SEM_UNDO` made of a semaphore. Sets may be removed
and made anew while processes sleep.

`Msg`: senders and receivers of a queue sleep on one event with a flag each.
`msg_map` says which places in the message memory are taken; `MsgMaps` is what
`msginit` may leave there. `MsgSupers` are the processes that may raise `msg_qbytes`
above the limit.

`Shm`: attachments come by `shmat` and fork and go by `shmdt`, exec and exit;
`s_urefc` counts them, `shm_nattch` is supposed to. `ushmatNull` is the attachment by the
super user of identifier 0 when it has been removed; `ShmNull` is what may then be read at
the address 0. Left out is the identifier `SHMMNI`, which `shm1.c:401` lets
pass and which lies behind the table.

### Ksynch

The lists of `v_proc.c` are kept as the code keeps them, a head and one `pn_next`
per process. `SLEEP_LOCK`'s test-and-set is a step before `PLIST_LOCK`; from
there to the dispatch in `x_sleep` is one step, interrupts are off. A signal takes an
interruptible sleeper off its list in `KERNEL_SLEEP`. The sleep lock implements
`HandOff`: the lock passes to a waiter of the highest priority and is never free
while somebody waits. `sl_holder` is what `PROC_HANDLE ()` returned: a process that takes
the lock names itself, an interrupt handler the process it has interrupted, whichever
that is. So `KsHolderExact` says who `sl_holder` is only when a process has the lock.

### Stream

One stream over the echo driver: processes read and write at the head (`hr`, `hw`),
the driver sends back what comes down (`dw`). A step of `RUN_STREAMS` is one turn of
the loop of a service procedure; a step of a process is what it does between two
moments of base level. A message is an interval of the bytes ever written, so
order and loss can be seen. `sm.sched` is the schedule of service procedures,
`sm.flag` has `QENAB`, `QFULL`, `QWANTW`, `QWANTR` and `QBACK`. Service procedures take with
`getq`, which acts on `QBACK`; readers take from `hr` with `rmvq`, which leaves it set, and
nobody tests it there. Yet `SmServed` says that no queue is found with `QBACK`, because
a reader never finds a note of a refusal at `hr`: once `hr` has refused the driver,
`RUN_STREAMS` does not return (`SmHangs`). For the same reason the queue of the driver is never
full when a process looks at it, and no writer sleeps.

### Tty

A pseudo terminal: `tt` holds the fields of the `TTY` and of the `PTY` around it that
matter, the flags of `t_flags`, the input queue, the raw buffer `ib`, the length of the
output queue, open counts and the flags of the driver. The operators named
after functions of `tty.c` and `pty.c` return what becomes of it, with the events they
wake in `wake`; an action runs from one sleep to the next. `ttMode` is the mode,
which every slave open sets again. `ptycycle` and the `VTIME` timer are
steps of the clock; the masters share one open file. `TtServed` says what any sleeper
may count on: a reader has nothing to read, a carrier, and `T_INPUT` set for `ttin`;
a writer or a drain has the flag that makes `ttstart` and `ttoutflush` wake it; a
master has nothing to do, or the cycle will come for it.

## Runs

| Run | Instance | Shows |
|---|---|---|
| `gate` | 3 processes, an inode gate and a buffer gate | `TypeOK`, `MutualExclusion`, `NoLostWakeup`, `LockCountExact`, `SleeperWakes` (of the processes that sleep on gates nested in one another, one is always woken), no deadlock |
| `pipe_fork` | 3 processes sharing the two ends of a pipe of 1 byte, writes of 1 and 2 bytes, one process gets signals | `NoReaderWriterDeadlock`, `NoPanic` |
| `fifo` | 3 processes, entries r, w and rw, capacity 2, writes of 1 and 3 bytes, blocking and `O_NDELAY` opens, one process polls and may fault | `NoLostWakeup`, `ImplementsChannel` |
| `fifo_intr` | 3 processes, entries r and w, fork, blocking and `O_NONBLOCK` opens, two processes get signals | `CountersExact`, `TestsExact` |
| `buf_private` | 2 buffers, 3 blocks, 2 processes with blocks of their own, read-ahead and sync | `NoAlias`, `NoLostUpdate`, `BufsyncExact`, `SyncDurable` |
| `buf_shared` | 2 buffers, one block used by 2 processes, all operations but read-ahead, failing reads | `NoLeakedLock`, `Coherent` |
| `ipc` | `Sem`: 2 processes, a set of 2 semaphores, calls of two operations, with undo, control commands; `Msg`: 2 processes, one queue, room for 2 messages and 3 bytes, types 1 and 2; `Shm`: 2 processes, 2 segments, 3 `shmget`s; `RLock`: 3 processes, one file, 5 structures, bytes 0 to 2 | `SemExact`, `SemUndoBalance`, `MsgAccounting`, `MsgNoLostWakeup`, `MsgOrder`, `ShmExact`, `RlSound`, `RlImplementsBytes` |
| `sync` | `Ksynch`: 3 processes of 2 priorities, one interruptible, and interrupts; `DdiTime`: one processor, 3 timeouts, 2 cancelling callers; `Timeout`: 3 timers, one of them set at interrupt level, 2 queues, delays 1 to 3; `Defer`: rings of 2 and 3 places, 7 functions; `Poll`: 2 processes, an old and a DDI/DKI channel; `Stream`: 2 readers, a writer, high water 2; `Tty`: a reading and a writing slave, a master, 2 calls, input that completes a line or interrupts | `KsSound`, `KsImplementsHandOff`, `TdSound`, `TmExact`, `DeferredOnce`, `PlNoLostEvent`, `PlSafe`, `SmServed`, `SmInOrder`, `TtServed` |
| `kern` | `Process`: 4 processes, one traced, two killed; `Inode`: 3 processes, 2 slots for 3 inodes, `s_inode` of 2; `FreeList`: 2 files, 5 blocks, lists of 3, indirect blocks of 2 | `PrFamily`, `PrServed`, `InExact`, `FlSound`, `FlImplementsSet` |

Three more runs are expected to fail. Each checks one statement of the repository's
own comments that the code does not keep:

* `buf_alias`, `NoAlias` - `bclaim` looks for the block before its loop only
  (`coh.386/bio.c:1531`); after a sleep it can set up a second buffer for it
  (`bio.c:1577`).
* `inode_twice`, `InOnce` - `inode_find` sleeps in `ilock` for the slot it chose and
  then tests only `i_refc` (`coh.386/fs1.c:446`); meanwhile another process may have
  brought the same inode into the other slot. A comment says the cache
  makes it easy to tell whether an inode is in memory (`fs1.c:811`).
* `stream_spins`, `SmBlockedRests` - `QUEUE_CHECK_SCHED` enables a queue whenever
  `QWANTR` is set (`strmlib.c:820`), which `getq` sets and nothing clears; so the
  `putbq` of a service procedure that flow control refused schedules it at once, and
  `RUN_STREAMS`, which runs at interrupt level, does not end while the reader is
  slow: it never does end, as the reader cannot run (`StreamHangs`). The comment at
  `strmlib.c:87` describes a flag that prevents this.

Deadlock is checked in `gate` only. A process that polls, reads a pipe or a
terminal nobody writes to, waits for a semaphore or for a message waits for ever by
right, and bounded models stop at their bounds; that nobody sleeps
*wrongly* is what the invariants `...NoLostWakeup`, `...Served`, `KsSound` and `RlSound` say.

### Bounds

A third process is needed for a sleeper, a holder and an overtaker of a
gate, for two processes that share an entry beside one that does not, for a cycle of
record locks longer than two, and for a waiter of each priority of a
sleep lock. In `fifo` a capacity of 2 with writes of 1 and 3 gives partial, split,
wrapping and waiting writes. Two buffers for three blocks force evictions and the wait
for a free buffer between the search of `bclaim` and its claim, which is where a
second buffer for a block could be set up; two versions of a block tell stale from current. Where blocks are shared
there is one block only, since with more the aliasing shown by `buf_alias` breaks
every other property.

Five lock structures for three processes run out in the middle of a request that cuts a
lock. One message fills a queue whose room is 1, two fill the memory, and an
initial `msg_map` with a place taken makes an allocation look further. Two
hashed queues for delays up to 3 put timers of one queue in different turns of the
wheel. Rings of 2 and 3 functions overflow while they are emptied. A high water mark
of 2 with writes of 1 and 2 bytes fills a queue, lets a message exceed it, and back-enables
both sides. Two in-core slots for three inodes make a slot change hands while it is waited
for; a list `s_inode` of 2 is refilled from the disk. Lists of 3 free
blocks chain twice over 5 blocks, so that a truncation and an allocation meet at the
block that holds the rest. The limits of the terminal, high water 1 for
output and 2 for input, are reached by one call of size 3; 2 calls are enough for a
reader that sleeps while the other slave's call, an interrupt, a hangup and a
master's write come. Larger instances of `Tty` (three calls; two readers; two
masters) were explored too, with the same result.

## Refinements

Four abstract specifications are a PROPERTY of some run, instantiated with a
refinement mapping:

* `ImplementsChannel`: `Pipe` implements `Channel`: bytes come out once and in order,
  are accepted only while somebody has the pipe open for reading, and are dropped
  with the last close and at no other time. An entry in use is an open or opening
  end; what the offsets of the ring delimit is the queue. Proved in `PipeProofs`.
* `RlImplementsBytes`: `RLock` implements `ByteLocks`, a table of who holds which byte.
  However lists are cut and combined, a granted request conflicts with nobody, takes
  its bytes at once, and changes no others; short of structures a call
  may fail to release some, but never releases what it should not. Proved in `LockProofs`.
* `KsImplementsHandOff`: the sleep lock of `Ksynch` implements `HandOff`, in which
  an unlock gives the lock to a waiter of the highest priority; nobody barges in.
* `FlImplementsSet`: `FreeList` implements `FreeSet`: allocation takes some free
  block, free gives back one that was allocated, and a block is never in two places.

## Where the code disagrees

What the three failing runs show apart, the models exhibit the following, each stated by a
definition commented "Not an invariant" or found when a property is checked on a
larger instance. No run is spent on them.

Pipes and the cache:

* `psleep` counts the *processes* asleep, `popen` and `pclose` the *entries*. Two
  processes that share an entry of a FIFO and sleep in `read` make `i_par` ("Number of
  Awake readers", `pipe.c:271`) negative; then a close of another entry panics
  (`NoPanic`).
* An `open` for writing of a FIFO lets a reader go on to `read` and sleep; when a signal
  ends that `open`, nobody tells the reader that it has no writer (`pipe.c:416`,
  `NoLostWakeup`).
* When that interrupted `open` was the last user, what others wrote meanwhile stays in the
  FIFO for whoever opens it next, because only `pclose` calls `pclear` (`Abandon` of
  `Channel`).
* Read-ahead of a block that others use too tests `BFNTP`, sleeps in `lock_block` and reads
  the block again over a delayed write (`Coherent`, `NoLostUpdate`). When `lock_block` finds
  that the buffer has changed, it returns a locked buffer (`bio.c:1276`) where
  its comment promises NULL (`bio.c:1216`), and `fread` drops it (`fs3.c:528`;
  `NoLeakedLock`). So `buf_shared` has no read-ahead; `buf_private` has it, of blocks no other
  process uses.
* An interrupt between the failed search and `sphi ()` frees the last buffer; `bclaim`
  sleeps although no unlock will come (`NeedIsServed`).

Inodes:

* `file_to_inode` lets go of the directory (`fs1.c:301`) before it calls `iattach` for the
  number it found in it. When another process unlinks the file and closes it in between, the
  first holds an inode that is free, or one of another file, and its close
  frees it again (`InTotal`, `InLinks`). In the run
  nobody opens by its name a file that is unlinked; who created it may have it open.

Processes and synchronisation:

* `x_sleep` returns at once when a signal is pending, and the loop of `ptset` calls it
  again: a debugger with a signal keeps the processor from the child it waits
  for (`PrNoSpin`).
* `KERNEL_SLEEP` takes a signalled sleeper off its list as if it were the head
  (`v_proc.c:166`); processes queued before it are never woken. In the run only the
  process of the highest priority, which is the head, may get signals (`KsCatch`);
  with another one `KsSound` fails. The theorem `SynchExact` says that `KsSound` holds in
  just those behaviours in which nobody but the head is ever taken off (`DequeuesHead`).
* `SLEEP_TRYLOCK` at interrupt level stores the interrupted process in `sl_holder`
  (`ksynch.c:3577`), and `SLEEP_LOCKOWNED`, asked by that process, says that it owns a lock it
  does not have. The comment at `ksynch.c:3633` knows that the field cannot be relied on.
* A timer cancelled while `check_clock` scans its queue, by the function of another, may be
  the one `np` points to (`clock.c:343`), which is then called all the same (`TmExact`).
  The timers' functions of the run set timers and cancel none.
* A `RUN_TIMEOUTS` that could not call a due function, because its lock is busy, defers
  itself again, to a table that `clock ()` does not run (`TdServed`).

System V calls:

* `SETALL` and the undo of an exiting process wake nobody (`SemNoLostWakeup`).
* `IPC_RMID` of a message queue wakes nobody (`MsgRemovedWakes`). A sender that finds
  `msg_map` full returns with its queue locked; its comment says this cannot happen, but
  `msginit` swaps two arguments of `memset` and may leave places taken (`MsgNoLeakedGate`).
* An identifier made anew keeps the `shm_nattch` of its last segment; its `IPC_RMID` then
  leaves the segment to a detach that never comes (`ShmNoLeak`).
* `ushmat` compares an identifier with the sequence number of its entry (`shm1.c:408`),
  not whether the entry is in use. The super user may attach identifier 0 after its
  removal, and gets no segment (`ushmatNull`). The range test includes `SHMMNI` (`shm1.c:401`).

STREAMS and terminals:

* `SHEAD_READ_DATA` unfreezes the queue to the base level while it holds the basic lock of
  the stream head; a service procedure that runs then finds the lock busy (`SmNoPanic`).
* It takes messages with `rmvq` (`struser.c:5988`) and does not test `QBACK` after it unfreezes
  the queue (`struser.c:5997`), though `strmlib.c:462` says that a path with `rmvq` in it must.
  Nothing comes of it only because `hr` is never read with a refusal noted: after a refusal
  the machine is in `RUN_STREAMS` for good (`StreamHangs`). Were a refused queue not scheduled by
  its own `putbq`, as `strmlib.c:87` promises, the driver's queue would never be
  back-enabled, and keep its messages.
* `T_ISTOP` stays set after a flush of a full input queue (`tty.c:28`); no character is
  accepted any more and no read finds one (`TtStopsForInput`).
* A master's write tests `ttinp` once (`pty.c:332`), and every `ptycycle` wakes it; what
  it writes then, `ttin` discards (`TtNothingLost`).
* `ttrtp` fills the input queue without waking readers; a master that reads exactly what
  there is and then polls leaves a writer asleep at `T_HILIM`; an `open` during the
  drain of the last close loses `T_CARR`; the end of one timed read cancels the timer of
  another; every slave `open` resets the modes; an interrupted raw read loses
  the characters it had taken; the drain of `ttioctl` tests the queue
  before it raises the interrupt level. The instances avoid or allow these, as
  the comments in `Tty` say.

## Fairness

Only `gate` assumes fairness. A process that runs reaches the unlock of the gates
it holds (critical regions are finite; strong fairness because it may be made to
wait for nested gates in between). A runnable process in `__GATE_LOCK` takes its
turn in the end, which is weak fairness only: `p_foodstamp` grows each time
`get_next_process` passes a process over, but the process it chooses starts from 0 again
(`proc.c:352`), so one that finds the gate taken anew has no advantage the next time.
Hence a process may be overtaken for ever, and `SleeperWakes` does not say that it gets its gate:
it says that it is woken, unless whoever holds the gate goes to sleep on one nested below,
of whose sleepers the same is said. A device that was given a buffer interrupts in
the end. Nothing obliges a process to enter the kernel, or to lock anything.

The other models assume none. What a sleeper there waits for is the act of another
user (a write, an unlock, a signal) that nothing forces; so these say, as an
invariant of the states themselves, that whoever sleeps has reason to and is
registered with whoever would have to wake it.

## Proofs

All theorems hold for any sets of processes, gates, entries, buffers and channels and any
capacities and sizes, under the assumption each module states of its constants.
Each invariant is proved inductive by one lemma per group of actions; `[]` follows by PTL.

**`SyncProofs`, gates** - `TypeOK`, `MutualExclusion`, `NoLostWakeup`, `LockCountExact`, from
`GateAssumption`: gates are finite, counted gates are never handed to interrupt
level, and the special values differ from processes and gates. Neither
`MutualExclusion` nor `LockCountExact` is inductive. The invariant proved is `IInv`:

* `TypeOK` and `NoLostWakeup`,
* `HeldIsLocked`: who holds a gate is its `_lastlock`, and the gate is taken; as
  `_lastlock` is one value, exclusion follows,
* `CountMatches`: `u_lock_cnt` equals the number of counted gates held. A counted
  gate is never in the hands of interrupt level, so `IntrUnlock` changes no
  count,
* `UserHoldsNothing` and `LockingInKernel`: outside a system call a process holds
  and waits for nothing.

**`PipeProofs`** - the ring, the counts and the refinement of a pipe.

* `PipeFIFO`: the ring holds the unread bytes in order, by `RingInv`: the offsets are in
  range, they are reset when the ring is empty (without that a read after a drain would
  start elsewhere than the write), and the bytes between them are the ones not yet read.
* `PipeCounters`, `PipeTests`: as long as `pclose` has not panicked, `i_par`, `i_paw`,
  `i_psr` and `i_psw` count what they should, and so the tests behind `EPIPE` and end of
  file are exact. `UseInv` says at which points of a call an entry is free, being opened,
  open, or being closed by exactly one process; `ExactInv` adds the counts.
* `PipeNoPanic`: `pclose` never panics if entries are not shared or the pipe has no name.
  `Alone` is what excludes it: a pipe has one entry of each kind, and where nobody forks
  each entry has one user.
* `PipeChannel`: `Spec => ImplementsChannel`. Each step is a step of `Channel` or none:
  `RingInv` gives the queue, `ExactInv` that the four counters `pclose` tests are zero
  exactly when no entry is in use and that `pwrite` finds a reader. After a panic nothing
  moves.

* `PipeNoDeadlock`, `PipeNoLostWakeup`: `WritersWait` (a writer sleeps only on a pipe that
  holds something, or that a reader is just emptying) gives the first. The second says that
  every sleeper's condition is false, when no `open` is interrupted (`NoOpenInterrupted`,
  needed: see above).

**`BufCacheProofs`** - `LockInv`: who is at a point where it owns a buffer is the owner of its
gate; a transfer is of a locked buffer; `BFASY` marks those that `biodone` will
unlock. With it `bufsync` is exact (`BufsyncInv`), and every lock has an owner or a
transfer that ends it (`LeakInv`) if read-ahead is not used (`NoAhead`, needed).

Its second half is about contents, under two hypotheses. `PrivateUses`: no two processes
use the same block; the gates of inodes see to that for the blocks of files, not for those of
the inode table, which hold several inodes, and the run `buf_alias` shows that without it
`bclaim` aliases. `WritesSucceed`: `biodone` clears `BFMOD` of a buffer whose write failed
(`bio.c:1723`), so what it held is gone. Reads may fail.

* `BufferNoAlias`: while a process searches for a buffer to claim, or sleeps in the search,
  or writes out an eviction, its block is in no buffer (`Missed`); every buffer stays on
  the hash chains, so `buffer_find` finds what there is.
* `BufferCoherent`, `BufferKeepsUpdates`: a valid or dirty buffer holds the last version of its
  block (`Current`); a transfer of a dirty buffer is a write and one of a clean buffer a
  read (`Directed`), so no read overwrites what was stored; a buffer that is not valid is
  in transfer or belongs to a process (`Pending`), so who finds one unlocked may use it.
* `BufferSyncDurable`: of each version a sync has yet to see on the device, `Synced` names the
  dirty buffer that holds it and where the sync will come upon it (`ToWrite`): on its
  list, ahead of `build_sync_list`, or among the transfers that `bufsync` counts. A sync
  that returns finds `bufsync` zero, and by `BufsyncInv` no such transfer is left; another sync
  that is still writing only delays it.

**`KernProofs`** - `Process`, `FreeList` and `Inode`. `FamilyInv`: who is in the table has a living parent, who sleeps in
`wait ()` has no zombie and a living child (`WaiterServed` keeps a child that is still to be
reported as the witness). `Transaction` adds what `pts` holds between the three sleeps
of a `ptrace` call; with one debugger (`OneDebugger`) every request is answered.

* `FreeListSound`: the invariant `FlInv` says that the lists of the superblock and of the link
  blocks form a chain that ends, with every block no file has at one place of it
  (`HasChain`), and that the files' blocks are apart. Each operation changes the chain at its
  head only: an entry more (`EntryMore`: in its place in the order, the smallest becomes the
  link of a new list when the first is empty or full) or the last entry less (`EntryLess`:
  with the link goes the list it holds, which then is the first). What a file does with its
  blocks writes to none of the chain, because they are in nobody else's hands. That there are
  no more lists than blocks (`ChainShort`) makes the walk of `Chain` complete.
* `FreeListImplements`: from the same invariant, each step is one of `FreeSet` or none.
* `InodeReferences`: `InRefs` is inductive together with the types and with what the call of each
  process holds at its program point (`CallWell`). Each operation is first put into one form,
  where its process goes on and what becomes of one entry of the table (`Ends`); then one
  lemma (`BaseMoved`) counts the reference that moves. That a slot changes hands while its lock
  is waited for needs no hypothesis: an entry is claimed only when it has no reference.
* `InodesExact`: `InTotal` and `InLinks` too. They speak of states with nobody in the kernel; `Exactly`
  is what holds in between. It says there is a `T` such that `T[i]` is what inode `i` is by now,
  wherever that is kept: an entry that holds the inode has it, unless it still waits for
  `icopydm`; the disk has it, unless the entry is dirty or on its way out in `icopymd`. A link of `T[i]`
  is a name, or one that `do_unlink` has cleared and a process in it has yet to count down
  (`LinkedAt`). `sb.tinode` is the number of free inodes of `T` less those that have left the total
  and are not in use yet, or are free and have not joined it (`Owes`). `LockHolds` and `CallHolds`
  are what a process knows of the entry it has locked and of the inode it has open. Each
  operation changes `T` at one inode at most. There are three hypotheses. `InSingle`, of the
  behaviour: no two entries have the same inode, referenced or not. `inode_find` does not keep that
  (the run `inode_twice`), and then two entries differ and either may be written.
  `InOwnUnlinks`, of the programs: nobody opens what others unlink, because of the race
  of `file_to_inode` above. `InOneDirectory`: the lock of the
  directory lets one process at a time create, and so `isync` in `ialloc` meets no entry that another
  creator has locked and not filled. All three hold in the run `kern`. Once the
  table of entries has overflowed the theorem says nothing of links and totals, as in `InExact`.

**`SyncProofs`, the rest** - `Poll`, `Defer`, `Timeout` and `Ksynch`.

* `PollNoLostEvent`, `PollSafe`. `EventInv`: in the scan of `upoll` each channel already
  looked at is quiet and has the process registered; this survives every interrupt.
  `SafeInv`: a timeout that is pending is the one `pw_timeout` names, given that a fresh
  `pollwait_t` is clear (`Fresh`).
* `DeferRunsOnce`: what `DEFER` and `defer0` accept runs once and in order, for tables of
  any size. The invariant ties each ring to the queue it stands for: the slots between
  its two indices, taken modulo the size, are what was accepted and has not run yet.
* `TimeoutsExact`: each timer that is set is on the queue of its tick, once, and is called in
  that tick, while interrupts, timers' functions and a `timeout` in two halves change the queues. The
  invariant has two parts. `TmLinked`: `t_last` of each timer that is set points back, and
  some ranks ascend along each queue, so a queue is no circle and has an end; taking a cell off
  (`UnlinkLinks`) keeps the ranks, putting one at the head (`LinkLinks`) raises the others.
  `TmInTime`: while a timer's function runs, every timer that is due is among the cells from
  `np` of `check_clock` on (`Rest`), and the timer whose function runs is not. That survives a timer
  being set because it goes to the head, before `np`; no step between two turns of a scan
  cancels. What the walks of `DueFrom` and `Chain` meet is `WalkMeets`: with ranks that
  ascend, as many steps as there are timers reach the end or a timer that is due.
* `SynchSound` and `SynchImplements`: `KsSound`, and that the sleep lock implements `HandOff`,
  in every behaviour whose steps satisfy `DequeuesHead`: a signal takes only the head of a list
  off it, which is what `KERNEL_SLEEP` assumes. `SynchExact` adds that this hypothesis cannot be
  weakened: where a step does not satisfy it, a process is stranded and `KsSound` is
  false (`KERNEL_SLEEP`, under "Where the code disagrees"). `SynchSoundFirst` gives a condition
  on the priorities alone, `CatchersFirst`, which the run satisfies: a process that sleeps
  interruptibly has a higher priority than every other one. `KsListed` says that
  along each list processes follow one another by priority, each once, and are those whose
  `pn_plistp` names it; it needs one lemma for each way a list changes (`ListInsert`,
  `ListBehead`), and one for what the scan of `MAKE_SLEEPING` finds (`ScanIs`). What
  follows the interrupted process becomes the head, so those queued before it are lost
  (`WakeStrands`, `SleepStrands`). `KsPlaced` says where a
  process may be on a list; that the lock goes to the waiter of the highest priority is the
  order of the list.

**`IpcProofs`** - `Shm` and `Msg`.

* `ShmLifeExact`: the counts of a segment are the attachments that exist. The invariant says
  which references `s_urefc` stands for, and that a count is only 0 when no process has
  the segment attached; fork, exec and exit change several attachments in one step, so
  the lemmas are about cardinalities of the set of attachments of a segment.
* `MsgWakes`: who sleeps in `umsgsnd` or `umsgrcv` cannot go on, and a flag of the queue
  records it. It has a hypothesis: nobody is the super user, who alone can enlarge a
  queue by `IPC_SET`, which tells nobody (`msg386.c:114`). `MsgInOrder`: `umsgrcv` takes
  the oldest message its selector asks for. For a negative selector that is the first
  message of the lowest type; that a set of numbers has a least element is taken from
  `WellFoundedInduction`.

* `MsgAccounts`: under the same hypothesis `msg_cbytes` is the sum of the sizes of the queued
  messages, and each of them has a place of `msg_map` of its own. A super user may send to a
  queue that was not created, whose `msg_qnum` `msgget` then sets to 0.

**`LockProofs`** - `RLock` and `Sem`.

* `RecordLocksSound`: structures of record locks are conserved, nobody waits for himself, directly
  or through others, and every wait is for somebody. That the graph of waits has no circle is
  stated as a set for each process that holds whom it waits for, is closed, and is
  without it (`Acyclic`). A process that runs is waited for more, but waits for nobody
  (`AcyclicSink`); one that begins to wait has asked `waiting ()` about all in its way
  (`AcyclicWait`), whose walk over as many steps as there are processes has then ended in
  a closed set (`WaitingClosed`). `remlock` and `addlock` touch the owner's locks only.
* `RecordLocksImplement`: `RlSpec => RlImplementsBytes`, for any files, processes, ranges and
  number of structures. A lock stands for the bytes from its start to its end (`Piece`, `On`).
  What `extract` leaves is what is not cut out (`ExtractBytes`); `remlock`, which may stop half
  way, loses bytes of its owner within the range only (`RemlockBytes`). The lock that `addlock`
  combines has no byte that neither the request nor a neighbour had (`CombinedBytes`), so it is
  the combined lock, not the request, that the step of the table locks. That its other bytes
  are free needs the table's own invariant, that two processes share a byte only for
  reading (`RlCompatible`), which `RecordLocksExclude` states for itself; that ends are
  not before starts, on lists and in what is waited for, is `RlFit`.
* `SemCountsSound`: `SemExact` for every set whose identifier was used once. The counts that
  a pass of `usemop` starts from are those of the others (`Uncounted`), whether it comes
  from the user or out of `semwait` (`AttemptKeeps`); whatever the array does, it can
  only stop on a channel of the set (`TryIs`). That a count is never lowered below zero
  needs fewer processes than an unsigned short counts, which `NPID` ensures. The theorem
  says no more because no more is true: identifiers are small integers, and a process that
  slept for a removed set lowers the count of the one made since (`semwait` looks at
  `__IPC_ALLOC` only, `sem386.c:639`). The run creates a set once and does not show it.
* `SemUndoBalanced`: `SemUndoBalance`, through arrays that stop half way, sleep and start
  again. `Made` is what the first operations of an array did to the values and to the caller's
  list, `Unmade` that nothing is left of it; every turn of the loop leads from `Made` to `Made` of
  one operation more, or to `Unmade` (`StepTurned`), because `semundo` takes back exactly what
  was made (`SemundoIs`, by induction over a recursion whose values `RecExists` gives). A pass
  then changes a value and what is due together by what lasts (`PassMade`,
  `PassUnmade`). The invariant, `UndoInv`, is that balance of each set, that entries
  are within `SEMVMX`, and that none names a set never made. Each hypothesis
  is there because the balance fails without it, as counterexamples on small instances show:
  * operations in the order of the semaphores (`SemPlain`): `semundo` takes back from the
    semaphore at the operation's place in the array, not from `sem_num` (`sem386.c:655`);
  * memory that `kalloc` clears, and `kalloc` that succeeds (`SemPlain`): `un_aoe` of a new entry is
    not set to zero, and a decrement whose `iSubAdj` fails leaves the value lowered;
  * entries with room for what a decrement takes (`SemRoom`), for the same reason;
  * who may alter a set may read it (`SemPlain`): a test for zero that is denied to one who may
    alter leaves what the operations before it did;
  * identifiers used once: `IPC_RMID` leaves the entries in the lists, and the next set of that
    identifier gets them.

**`StreamProofs`** - `SmInv` adds to the schedule and the flags (`Sound`):

* `SmHolding`: one process at a time is inside the part of `read` or `write` that is modelled
  as several steps, and only a reader inside holds a message.
* `SmTold`: a reader who sleeps, or found nothing and may go to sleep, and a message for it
  mean that the service procedure of the head's queue runs or is scheduled. The reader who
  has not slept yet must be in it: between its look at the queue and its sleep
  `RUN_STREAMS` may put a message there.
* `SmOrdered`: the three lists are intervals that continue one another (`Order`). One lemma
  for each way a list changes: at its end, at its front, or the first of one made the last of the
  next; a message put back after a refusal leaves the list as it was.

`StreamInOrder` follows. For `StreamServed` there is a second invariant, `SmFlowing`
(`FlowsAlways`): what flow control has noted at each point of `RUN_STREAMS` and of a service
procedure. From it too comes `StreamHangs`: once `hr` has refused the driver, each turn of the
driver's service procedure ends with its queue scheduled again, and no process runs any
more. Flow control needs to know that a message more
never makes `q_count` less (`CountAppend`, `CountCons`). After the panic nothing moves.

`TdInv`, of the DDI/DKI timeouts, is also there:

* `TdTimely`: there is a table of the ticks from now to each place of the delta queue, which
  adds up the deltas, is zero for the expired part alone, and leads to the tick at which
  each timeout was asked for. `Delay`, a fold, is that table (`DelayIs`). Each step says
  what becomes of the table: a cell put between two others splits a delta (`TimedPut`), one that is
  cancelled moves to the front and leaves its delta to the next (`TimedFronted`), the clock takes
  one from the first of those that wait (`TimedCounted`).
* `TdTickets`: a function that runs has the first ticket of an expired cell and has not given it
  back, no two processors run one cell, who waits has a ticket still to come that nobody else has.
* `TdAsking`: a due cell nobody has called has its processor's `dc_run_timeouts` set, and that is set
  only while `RUN_TIMEOUTS` runs or stands in a table. For the cells behind the one that runs this
  needs `TdBehind`: those it has passed by are the ones it could not lock, and it knows (`tdFailed`).

`TtInv`, of the pseudo terminal, says of each process that sleeps what it relies on
(`SlaveHolds`, `MasterHolds`): what it waits for is not there and the flag that has it woken is
set. The functions that `Tty` states as operators on a terminal are chained in most handlers,
so each has a lemma that it serves whom it finds served: it leaves the flag, or it wakes
(`Serves`, which composes). `Fed`, a fold of `ttin` over what a master writes, is
one more of them (`FedServes`); the values of the fold come from `SubsetsExist`. `TtRuns`
then has every step of a process from four facts about the terminal it leaves and one about the
process itself. That the cycle's timer runs while there is a master is part of it: it is what finds
the output of an echo.

* `TerminalWaits`: writers, drains, closes and masters, unconditionally.
* `TerminalServed`: readers too, with the hypothesis that no mode that `TCSETA` sets leaves
  canonical mode (`TtStaysCanonical`). Without it no theorem is true: `ttrtp`, called
  then (`tty.c:543`), moves the unfinished line to the input queue and does not look at `T_INPUT`.

**`SumProofs`** - what `IpcProofs`, `KernProofs`, `LockProofs`, `StreamProofs` and `SyncProofs` need of the community module's sums of functions:
a sum is what is picked first and the sum of the rest, whichever is picked (`SumPick`); it
grows by what is appended and shrinks by what is removed. `SumFunction` is a fold, whose
recursion the library's induction theorems cannot be applied to; the proofs take a least
counterexample instead, which `WellFoundedInduction` gives. So does `RecExists`, that a
recursive function on `0 .. n` has the values its definition says, and `SubsetsExist`, the same of
the recursion over the subsets of a finite set that the community module's folds are.

Only model-checked: `SleeperWakes` and everything under fairness.

## Not modelled

The kernel is about 144000 lines, most of them drivers, tables and the tools around
it. The maps of these modules cover about one twentieth of it: the subsystems
whose correctness depends on order. The rest is register-level input and output, formatting,
argument checking, page tables, and sequential algorithms, where a model of
states and steps adds little to reading the code. In the modelled parts these are left out:

* Pipes: `pclean`, and `chsize ()` of a pipe, which moves `i_pwx` and `i_pnc` (`sys5.c:387`). Cache: buffers outside it, `bclean`, raw transfers, `b_resid`, the
  order of a radix sort whose key is signed, a list of `general_sync` cut short when the
  heap is exhausted, an asynchronous write that fails (its data is dropped by `biodone`).
* Files: the levels of the block map beyond one, contents of directories, `link`, mounts, a
  sync of inodes beside users of several directories, disk errors, a table of inodes
  that overflows.
* Processes: process groups, job control, masks, handler frames, exec.
* System V calls: commands that only report; `IPC_SET` on semaphores and segments.
  What fresh memory may hold in `un_aoe` and `shm_nattch` is a choice of the models
  (`SemFresh`, `ShmFresh`), which the run restricts to zero.
* Synchronisation: basic and read/write locks, which on one processor are interrupt
  levels; reuse of timeout identifiers after 2^31.
* STREAMS: bands and priorities, `ioctl`, opening, closing and pushing modules,
  multiplexors, `QSCHED_UNSCHEDULE`, a full table of deferred functions.
* Terminals: editing characters, expansion of output, tandem mode and XON/XOFF from the
  slave, calls that may not sleep, the master's poll, exhaustion of clists, real lines.
* `lib/st_alloc.c` and the heap above it, the drivers for disks, tapes, consoles and
  serial lines, paging, exec, boot, configuration, diagnostics.

What is left of the plan, in this order: bands, and the opening and closing of streams; the
table of inodes with several file systems, over the cache; and the splay trees of the
heap as an algorithm.
