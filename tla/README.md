# Verification of SAM-QFS

This directory holds TLA+ specifications of SAM-QFS, the storage and archive
manager and shared file system whose source is in `src/`. They cover the parts
of the system in which several hosts, threads or daemons have to agree: the
protocol between the metadata server and its clients, the move of the server to
another host, the copies of a file on disk and on archive media, and the journal of
the metadata.

Paths such as `server.c` without a directory are in `src/src/fs/samfs`.

## The system

SAM-QFS is a file system kernel module with a family of daemons around it. One
host of a shared file system is the metadata server. The other hosts are
clients: they read and write file data directly on shared disks, and send
everything else (names, inodes, block allocation, leases) to the server over one
TCP connection per client. The server host is a client of itself as well.

| Part | Source | What it keeps, what changes it |
|---|---|---|
| Request layer | `clcall.c`, `server.c`, `client.c` | chain of outstanding messages on the client, message array per client on the server; send, wait, retransmit, execute, acknowledge |
| Message pool | `clcomm.c`, `thread.c` | one queue and one pool of threads per file system; socket readers add messages, create and end threads |
| Leases | `server.c`, `clcall.c`, `clvnops.c`, `reclaim.c`, `creclaim.c` | lease table per inode on the server, leases and generations per inode on each client; get, wait, relinquish, remove, expire, callouts |
| Reclaim tasks | `reclaim.c`, `creclaim.c` | scheduled tasks that expire leases and free blocks and inodes |
| Failover | `srmisc.c`, `clmisc.c`, `creclaim.c`, `reclaim.c`, `client.c` | file system status flags on every host; freeze, resync, thaw |
| Inode information | `client.c`, `server.c` | ordered copies of inodes on clients |
| Client table | `srcomm.c`, `srmisc.c` | sockets, host identity, clients marked off or down |
| `sam-sharefsd` | `src/src/fs/sharefs` | connections, the shared hosts file, election of the server |
| Allocation | `balloc.c`, `ialloc.c`, `block.c` | bit maps, pools of free blocks and inodes |
| Journal | `lqfs*.c`, `qfs_*.c` | metadata log, roll, replay |
| Data path | `rwio.c`, `page.c`, `bio.c`, `truncate.c` | pages and blocks |
| Names, inode cache | `lookup.c`, `create.c`, `remove.c`, `rename.c`, `iget.c`, `iput.c` | directories, in-core inodes |
| Copies of a file | `stage.c`, `staged.c`, `truncate.c`, `samscall.c`, `uioctl.c`, `rmscall.c` | on line, off line, archived, staging |
| Archiver, stager, releaser, recycler | `src/src/archiver`, `stager`, `releaser`, `recycler` | daemons with queues on disk |
| Catalog, robots, remote media | `src/src/catalog`, `robots`, `remote_sam`, `rft`, `rpc` | volumes, drives |
| Daemons, libraries, commands, web interface | `src/src/fs/fsd`, `sam-init`, `lib`, `cmd`, `utility`, `samqfsui` | supervision, configuration, presentation |

How they interact: a system call on a client (`clvnops.c`) asks for a lease or
sends a name, inode or block operation through the request layer. On the server,
the reader of that client's socket puts the message on the queue of the pool, a
thread of the pool executes it and writes the reply. The reply is read by the
client's own reader, goes through the client's pool, and completes the
outstanding message. The server sends callouts and notifications to clients the
same way. So the request layer must expect its messages out of order (the pool
does not keep order), and the leases must expect their messages out of order but
not repeated (the request layer does not repeat a sequence number).

To move the server, `samsharefs` writes the wanted server into the hosts table on
the shared disk. The `sam-sharefsd` of every host reads that table and tells its
kernel, which freezes its operations, changes its role, sends its leases to the new
server and thaws.

On an archiving file system, `sam-arcopy` reads a file and records a copy, the
releaser or a command frees the disk blocks of a file that has a copy, and a read of
such a file sends a request to `sam-stagerd`, which writes the copy back through the
kernel. Writes make the copies stale. All of them meet at the inode and its two
locks.

A logging file system collects the metadata changes of many operations in one
transaction, writes their deltas and a commit record to the log, and lets a roll
thread write them to their places later. After a crash the log is scanned and what
it holds of committed transactions is put over what is on disk.

## Modules

Each specification module has an `MC_` module that names its small instances.
Definitions carry the name of the function they model where there is one;
`PROJECT.json` maps each of them to its lines.

### SharedRpc: the request layer

One client host with any number of threads, and the server. A thread is somewhere
in `sam_send_to_server` (`pc`): it takes a sequence number and an ack and joins the
chain (`sam_add_message`), writes (`sam_write_to_server`), waits and is answered,
times out or is interrupted (`ReplyReceived`, `WaitTimeout`, `Interrupted`), and
retransmits or delays (`AfterTimeout`, `AfterDelay`). `EISAM_MOUNT_OUTSYNC` makes
it send a `MOUNT_init` of its own first (`nested`). On the server, `Receive` is
`sam_read_sock`'s check of the client table and the part of `sam_server_cmd` under
the message mutex; `sam_process_message` executes the command; `ReplyDone` keeps or
frees the entry and replies. Requests and replies in transit are sets, since the
pool keeps no order.

Faults: the answer is slow, a message is dropped, the server answers EIO, which is
resent without limit like a timeout (`clcall.c:3149`), the socket breaks and loses any
part of what is in transit, the server restarts, is unmounted for a while, or the
directory of a name operation is removed.

Abstracted: a message is its class (what `wait_flag`, `reset_seqno` and the
command make of it), sequence number, ack and the number of the call it belongs
to. Attempts made while the socket is down only use up sequence numbers and are
collapsed into one. `done`, `nexec` and `outcome` are history.

### SharefsPool: the message pool

The readers of the client socket and of server sockets (`rpc`), the queue with its
counters, and the threads (`wpc`). The points at which a thread or reader holds no
mutex are its labels: `gap` is the place in `sam_sharefs_thread` between releasing
the queue mutex and sleeping on `put_cv`. A reader starts the pool, adds messages,
creates threads when none waits, and after its socket broke waits for the threads,
ends them if it is the client's (`sam_kill_threads`), and empties the queue. A
signal on a condition variable wakes one of its waiters, or nobody.

### SharedLease: the leases of one file

The table `ip->sr_leases` (`tab`), the leases and generations each host has
recorded, direct I/O, and every thread's request. A request (`SendGet`) is served
by `ServeGet`: it waits (`Queue`) or is granted (`Grant`, with what comes implicitly:
`Implicit`, new generations, the size owner, and whether pages are old). The client
records it (`RecordLease`), does its I/O, and the lease leaves by expiry on the
client and a relinquish message, by expiry on the server, by the last close
or the last unmap, or by unlocking. `MustWait` and the operators it uses are the
case analysis of `sam_add_ino_lease`. With `MH_WRITE` the server switches hosts to
direct I/O by callouts (`sam_callout_directio`, `DirectioOn`, `ServeWakeup`).

What differs between files and mounts (the `mh_write` option, where the threads
run, which lease types are used, and the bounds) is the variable `setup`, chosen
once in `Init` from the constant `Setups`. So one run covers several choices.

Abstracted: time. A lease may expire on a client whenever no I/O uses it; on the
server only when the client has dropped it, uses it, or has not been told of it,
since the server waits more than twice as long. A waiting request may be sent
again at any time, which covers both the notification and the poll. The write
sequence number is reduced to whether a host's entry is up to date (`fresh`).

A signal may end the wait of a request that the server has told to wait
(`Interrupted`): the thread returns EINTR and tells the server nothing, so that the
entry goes on waiting in the table for a request that nobody will repeat.

### Failover: the move of the metadata server

For each host: the flags of `fi_status`, the server it knows (`srvr`), its daemon
(`daemon`: the step, and the table it has read), its socket, its client table as a
server, the callouts under way to it, the task that re-establishes its leases
(`thaw`), the task that ends a resync (`resync`), one thread that runs operations
(`op`), and one exclusive lease as the host sees it (`cl_leases`) and as a server
table has it (`sr_leases`). The hosts table on disk is `ht`.

The actions follow a failover. `Voluntary` or `Involuntary` is the administrator's
`samsharefs`; `UpdateServer` and `ValidateFs` are the daemon's two ways to notice.
`VoluntaryFailover`, `Drained`, `Freeze`, `FailoverOldServer` are the old server's call,
`PutHosts` the new table; `SetServer`, `Drained`, `Freeze`, `FailoverNewServer` the new
server's call; `SetClient` the connection of every host. `ReestablishLeases` to
`Resynced` is the task that thaws a host, `ResyncServer` to `FinishResync` the one that
tells the hosts that the failover is over. Hosts fail (`Crash`) and sockets break
(`Break`); a broken socket loses the callouts that were not read.

Abstracted: all leases to one, all operations of a host to one thread. Time is a
condition on the setup: where `late` is false a host is given up only if it has
failed or has nothing to send; where it is true any host may be late. `Undisturbed`
says of a setup that no host is late and none fails that may have become the server:
what the code keeps only then has it as a condition. The administrator of the passing setups is careful: asks for a new server only when the
last failover is over and that host is mounted. A host that failed before the server
surrendered is not followed by another choice in these setups: see the comment on
`sharefs/config.c:770` below.

### FileCopies: the copies of one file

`ip` is the inode with the flags that decide where its data is, and `disk`, the
version its blocks hold; `image` is the version each archive copy holds; `content` is
the version last written. Threads (`th`) read, stage, truncate or write the file; there
is an arcopy process per copy, a release command or releaser (`rel`), the messages to
`sam-stagerd` (`cmds`) and the requests it has (`work`). One action is one region under
`inode_rwl`; `data_rwl` is held across actions and is what `DataFree` and `DataWriter`
say of the threads. A wait on `rm_cv` is `wait`, and `Wake` is its broadcast.

Versions are numbers and a file has one block: what is released, staged or archived
is the whole file. So a reader that could go on once the part it wants is staged
(`stage.c:535`-`557`) goes on when the stage ends.

Modification times are in seconds, as `sam_set_archive` compares them
(`uioctl.c:1458`): a modification gets the second of the last one, or the next one
(`Now`). Whether a version can be told from the one before by its time depends on how
soon a file is archived, which is `age` of the setup:

- `none`: an archive age of 0, which the configuration may give (`readcmd.c:1827`), and
  files with the immediate archive attribute or marked for rearchiving
  (`checkfile.c:421`-`426`). A file may be modified in the second in which a copy of it
  is made, and the copy is then recorded for a version that it does not hold;
- `second`: no sooner than a second after the last modification, so a modification
  during the copy has a later time;
- `stage`: so late that a stage of an earlier version is over (`Aged`). With less than
  that `OnlineIsContent` does not hold: see the comment on `stage.c:697` below.

`File` is what is promised of a file wherever its data is: a read returns the version
last written, or fails. `FileCopies` implements it (`ReadsTheFile`), with `seen` the data
that the last read of each thread returned.

### Moby: the gate of the journal

`mtm` has the counters of `mt_map_t` (`mtm_active`, `mtm_activesync`, `mtm_wantin`,
`mtm_closed`, `mtm_tid`, `mtm_committid`, `mtm_seq`, `mtm_taskq_sync_count`) with `un_resv`
and `un_resv_wantin`; `th` is where each thread is, `pending` the tasks that were
dispatched and have not begun. A thread runs an asynchronous operation
(`top_begin_async`, `top_end_async`, and `AsyncTail`, which may issue an empty commit), a
write with FSYNC, `fsync` (an asynchronous part, then `FsyncBegin`) or the commit of
`sync`. `EnterNext` and `EnterCurrent` are the two halves of `top_begin_sync`: the
transaction is closed to synchronous operations, or it is open. `top_end_sync` to `Open`
is the end of a synchronous operation; the last one waits for the asynchronous ones,
pushes, commits and opens the gate. `Unmount` and `lqfs_unsnarf` are the unmount.

An action is one critical section of `mtm_lock`. Broadcasts are `Wake`, which tests
`mtm_seq` as the loops around `cv_wait` do; the signal on `mtm_cv_eot` is the step from
`eotwait` to `eot`. What an operation logs is a number up to its reservation.
`nosync` is an `fsync` that returns after its asynchronous part, as `sam_fsync_vn` does
for an offline file (`cvnops.c:1577`) and when pages cannot be written; it is promised
nothing. An asynchronous operation may be a `TOP_GETPAGE`, which issues no empty commit.

### Journal: deltas, log and master

`mem` is the metadata in core, `deltamap` the locations with a declared delta, `logmap` the
map entries in the order of their age, `ring` the log device, `wrbuf` sectors whose write
has not been waited for, `ul` head and tail, `master` the metadata on the master device.
One operation at a time changes a set of locations (`BeginOp`, `deltamap_add`, `EndOp`).
A buffer written by someone else takes its deltas from the deltamap and logs them later
(`FlushTake`, `FlushAdd`). `Close` to `AllowAll` is the committing thread in
`top_end_sync`; between `commit` and `waito` it holds `un_log_mutex`, except while it waits
for space (`wait`). `log_roll_read` to `logmap_sethead` is one cycle of the roll thread,
with or without cached roll buffers (`crb`). `Crash` writes any part of what is under way,
and contains the log scan of the next mount: the run of sectors with successive idents,
`logmap_logscan_add` of each record, `logmap_abort`, and the new tail.

A record takes one sector, a location has one delta, and sector numbers stand for
idents. A push always finds what a delta describes: the model leaves out that
`deltamap_push` deletes a delta without logging it when its function fails
(`lqfs_map.c:467`, ENOENT for a buffer or an inode that is clean by then,
`qfs_trans.c:309`-`334` and `368`-`394`). `Moby` shows that the operations of a transaction have ended when it is
pushed; `Journal` starts from that.

`Store` is what a journal promises: a crash leaves the metadata of the last committed
transaction, or of the one whose commit was under way. `Journal` implements it
(`CrashConsistent`), where nothing of the following has happened (`spoilt`):

- `ahead`: a buffer write has logged deltas of the next transaction while the commit
  record of the last one was waiting for space. A crash then keeps these deltas
  without the rest of their operation.
- `missed`: the push came when a buffer write had taken deltas from the deltamap and
  had not yet logged them, so the transaction is committed without them.
- `stale`: a scan has left sectors of an aborted transaction behind the new tail, with
  the idents that will be due there. If the log is written up to them before the next
  crash, that scan goes on into them.

### How the modules compose

`SharedRpc` receives messages in any order, which is what `SharefsPool` provides.
`SharedLease` assumes that a message is executed once and in any order, which is
`NoSecondExecution` of `SharedRpc`; the second execution that `rpc_twice` shows is
outside that assumption. `Failover` has the gate of `sam_server_cmd` (`Served`) in place
of the request layer and one lease in place of the table of `SharedLease`; it checks
that a failover hands that lease over, which `SharedLease` takes for granted.
`FileCopies` composes the kernel, the archiver's copy process, the releaser and the
stager. It is about a file of one host, so leases do not occur in it. `Moby` and
`Journal` share `top_end_sync`: the first is who may be in a transaction when it is
committed, the second what is written; `OneTransaction` is what `Close` of `Journal`
assumes, and `SpaceReserved` is the bound in its `BeginOp`.

## Runs

Deadlock is not checked: in every model the bounded calls, messages or leases come
to an end, and a host with nothing left to do has stopped rightly.
In `Failover`, `Moby` and `Journal`, `TypeOK` documents the values of the variables and is
not among the properties of a run.

### Passing

| Run | Checks | Instance |
|---|---|---|
| `rpc_safety` | `TypeOK`, `NoSecondExecution`, `ServerRemembers`, `AckNotPastOutstanding`, `ResultWasExecuted` | 2 threads, 3 calls of any class, 1 fault of any kind, 16 sequence numbers starting at 14 |
| `rpc_live` | `CallsReturn` | 2 threads, a mount and a non-idempotent call, 2 faults of any kind |
| `pool_host` | `TypeOK`, `CountersAgree`, `QueueInOrder` | client and server socket, up to 3 threads, 4 messages, 3 broken sockets |
| `pool_client` | `PoolReaped`, `BusyTakesNext` | client socket, pool of 2 growing to 3, 4 messages, 2 broken sockets |
| `lease_table` | `TypeOK`, `LeasesExclude`, `AppendOwnsSize`, `PagedAlone`, `SingleCloseCancels`, `ReadersTold`, `CloseKeepsMaps` | the setups below |
| `failover` | `OneServer`, `LeaseExclusive`, `ThawsWithLease`, `Thaws` | 3 hosts, the setups below |
| `copies` | `TypeOK`, `ArchivedNotStale`, `OfflineHasCopy`, `OnlineIsContent`, `GoodCopy`, `NeverLost`, `ReadsTheFile`, `ReadEnds` | 2 threads, 2 copies, the setups below |
| `gate` | `CountersAgree`, `OneTransaction`, `SpaceReserved`, `UnmountClean`, `SyncDurable`, `OpsEnd` | 2 threads, 1 task, the setups below |
| `journal` | `LogKept`, `ReadBack`, `CrashConsistent`, `CommitEnds` | 3 locations in 2 blocks, the setups below |

The setups of `lease_table` (`Usual` in `MC_SharedLease`), each with two threads. An
expiry is a pass of an expiry task that finds leases to expire, of any number:

| Lease types | Threads | Requests | Expiries | What it is for |
|---|---|---|---|---|
| append | server host, client | 4 | 2 | an append lease lost on both sides, with late messages |
| open, read, write, append | server host, client | 4 | 1 | all of the I/O leases |
| open, read, write | server host, client | 5 | 1 | `ReadersTold` |
| open, append, truncate, mmap, exclusive, stage | server host, client | 3 | 1 | the other kinds |
| open, write, mmap | server host, client | 4 | 0 | mappings on two hosts |
| read, write, append with `mh_write` | server host, client | 3 | 0 | `PagedAlone`; nobody opens or closes |
| read, append with `mh_write` | server host, client | 3 | 1 | the same with leases that expire |
| open, mmap | both on one client | 3 | 0 | `CloseKeepsMaps` |

The setups of `failover` (`Failovers` in `MC_Failover`), each with three hosts of which A
is the server: a failover with operations on the old server; to the host that holds
the lease; there and back; an involuntary one after the server failed, with
operations on two hosts; one in which a client that runs operations fails; one in
which the new server fails; one with a broken socket; and one in which time runs out.
The one in which the new server fails and the one in which time runs out are not
`Undisturbed`: of the properties, `OneServer` is about them.

The setups of `copies` (`MCPassing` in `MC_FileCopies`):

| Setup | Threads | What happens |
|---|---|---|
| `Staging` | two readers | released by command, one interrupt, two media errors |
| `Truncating` | a reader, a truncating writer | one copy made up to twice, released, one interrupt |
| `Archiving`, two of them | a truncating writer, up to 3 versions | both copies made, released when both are there, or after the second; the second setup archives inconsistent files |
| `Writing` | a reader, a writer in place | up to 3 versions, copies made, nothing released |
| `Commands` | a reader, a thread that stages ahead | released by command, two commands on copies of any kind but a forced unarchive |
| `Early`, two of them | two truncating writers, up to 3 versions | archived at once (`none`) or after a second, released after the copy and by the releaser |

In all but `Early` the age is `stage`. In `Early` a version may be lost, and a copy of an
older one count as current, where there is no age, which `GoodCopy`, `NeverLost` and `OnlineIsContent`
leave out; `OfflineHasCopy` holds with an age of a second and not without one.

The setups of `gate` (`MCSetups` in `MC_Moby`) pair the kinds of operations: asynchronous
ones with writes and with commits, in a log that holds one and a half of them; with
`fsync` of an nfs thread and of another, of files online and offline, where the maps may
be found heavily used; writes with `fsync`; and all kinds at once. Each ends with an unmount.

The setups of `journal` (`MCSetups` in `MC_Journal`):

| Operations | Log | Crashes | What it is for |
|---|---|---|---|
| 2, on one block and on both | 8 sectors | 1 | buffers written at any time, cached roll buffers |
| 3, on one block | 4 sectors | 1 | the commit record has to wait for space; buffers written at any time |
| 3, on one block | 6 sectors | 1 | entries with and without a roll buffer for the same block |
| 3, on both blocks | 6 sectors | 2 | a crash after a recovery |

Why the bounds are enough. A message that interferes with another one is
reached with two threads: one waits and retransmits while the other takes the next
sequence number and acknowledges. Three calls let a mount (which resets the
server) be followed by two that overlap; starting at 14 of 16 makes the numbers
wrap in the middle. In the pool, three threads are one that serves, one between
its two mutexes and one asleep, and four messages are more than there are threads.
For the leases, two hosts show every conflict the masks decide, since
`sam_add_ino_lease` only looks at the union of the other hosts' leases; four
requests are enough to get a lease, lose it, let the other host have it and get it
again while the first relinquish is still under way. `ReadersTold` needs five: an
open and a read on one host, an open and a write on the other, and one more.
Three hosts are an old server, a new one and a client that is neither. Two versions
of a file tell a current copy from a stale one, and a third one a stale copy from an
inconsistent one; two copies let a stage go on from another copy, and let one be
damaged, unarchived or exchanged while the other is good. In the gate, two threads and
the task are one operation in the transaction, one that commits it and one that waits
for the next, and three operations let a forced commit, the operation that forced it
and one that overtakes both meet. In the journal, two locations of one block are what
makes a roll buffer differ from a delta, two blocks make an operation that can be
half done, and three operations give a rolled, a committed and an open delta of the
same location; each log is smaller than what is written to it, but for the first.

Fairness. `rpc_live` assumes weak fairness of each client thread
(its waits are bounded by a timer), of the reader and worker threads, of the
reconnection by `sam-sharefsd`, which retries for ever, and of the server being
mounted again. Faults, signals and new calls are not fair. `pool_client` and
`pool_lost` assume weak fairness of each thread and reader, which
the kernel scheduler provides; arrival of messages and breaking sockets are not
fair. `failover` assumes weak fairness of the daemons (`sam-fsd` restarts them), of the
readers, of the two tasks (which the task queue runs again) and of operations that
have begun, and that the administrator replaces a server that failed. `copies` assumes
weak fairness of `sam-stagerd`, of threads that were woken or hold `data_rwl`, and of
commands that are being sent; nobody has to read, write, archive or release. `gate`
assumes weak fairness of every thread inside the journal and of the task queue, not of
new operations. `journal` assumes weak fairness of the committing thread once it has
closed the gate and of the roll thread, which a thread that waits for space wakes, and
which also runs on a timer; operations, buffer writes and crashes are not fair.

What they show. No interleaving of retransmissions and acks executes a sequence
number twice between two resets of the server's memory (a `MOUNT_init` or a restart;
what was executed before one may be executed again after it) or makes the server drop
a message that is waited on, and every call returns once the faults end. The pool's counters and queue order survive sockets that
come and go. The lease table never holds two leases that exclude each other,
whatever removals arrive late; the append lease always owns the file size; the
last close leaves no open lease behind where one thread of a host uses the file; a
client that has the file open and holds old pages is told so. At no moment of a
failover do two hosts serve. Where no host is late and the new server does not fail, no
two hosts use the exclusive lease, a host thaws only when the new server has its lease,
and, if no socket breaks, every host thaws. Where the archive age outlasts a stage, the
version of a file that was written last is always on disk or on a good copy, a copy
counted as archived is current, and reads return that version; a reader waiting for a
stage is woken whichever way the stage ends. No operation is in a transaction that is
pushed, `fsync` of a file that is online returns with its changes on the log, unmount
frees the journal when nobody is in it, and no thread sleeps in it for ever. The log
keeps what is not on the master, metadata read back are what was written, and, but for
the cases of `spoilt`, a crash keeps whole transactions.

Some of these have a condition that the code needs. `NoSecondExecution` counts from the
last reset: `done`, its history, is cleared with the server's array. `CallsReturn` is
about faults that end; an EIO that the server gives for ever is resent for ever.
`PoolReaped` says that the pool is empty once the reader that ends it goes on, and not
that this reader goes on: see the comment on `clcomm.c:346` below. `PagedAlone` holds
while nobody closes the file. A last close goes back to paged I/O, and a `BLOCK_wakeup` from
before the close marks the host as doing direct I/O after a reopen. `ReadersTold` is
about files that are open, are not truncated and have no exclusive lease, on hosts with
one thread each. The first lease of a file skips the check of `wr_seq` and does not
count as a writer (`sam_new_ino_lease`). So the lease that writes must not be the first:
without an open lease the table may become empty; an exclusive lease needs no open; and
on a host where a first open still waits for its lease, a second open does not wait for
it (`clvnops.c:484`-`508`), so that its I/O may be ahead. A truncation drops pages by
flushes and callouts that are not modelled. `SingleCloseCancels` is about hosts on which
one thread uses the file: with two, a close during another one's last close, or a last
close during a last unmap, may leave the open lease on the server. `CloseKeepsMaps` is
the other side, that no removal takes too much. `PagedAlone`, `SingleCloseCancels` and
`ReadersTold` assume that a signal does not end the wait for the answer to a LEASE_get
itself: the server could then grant a lease that the client never records.

`LeaseExclusive`, `ThawsWithLease` and `Thaws` leave out setups that are not `Undisturbed`.
A host that is late is given up after the resync time (`reclaim.c:1088`), another host
gets its lease, and the answer to the late LEASE_reset lets both use it. A host that
thaws when its new server fails may never tell the next server of its lease. `Thaws`
also leaves out broken sockets: a `MOUNT_faildone` that is lost with the socket is not
sent again.

`GoodCopy`, `NeverLost` and `OnlineIsContent` are about setups with the archive age
`stage`, as are all setups with readers, so `ReadsTheFile` is too. `OfflineHasCopy` leaves
out writes in place, which `copies_released` is about; a forced unarchive, which is meant
to lose the file; and files without an archive age, where a copy made in the second of a
modification is recorded while a second thread is about to write, and the file is
released under it. `SpaceReserved` takes for granted that an operation logs no more than
it reserved; whether the sizes that callers pass are large enough is not checked.
`CrashConsistent` and `CommitEnds`
leave out the three cases of `spoilt`. The setups of `journal` keep the reservation two
sectors below the log: `un_maxresv` in the code is the whole log (`lqfs.c:493`), without
the commit record and the sector that `ldl_has_space` keeps free.

### Violations: where a comment says more than the code does

| Run | Property | Comment | What happens |
|---|---|---|---|
| `rpc_twice` | `CallExecutedOnce` | `server.c:511` | after a failed write the call gets a new sequence number and is executed again |
| `pool_lost` | `ReceivedIsProcessed` | `clcomm.c:1239` | a signal before the thread sleeps is lost and the message stays queued |
| `copies_released` | `NeverLost` | `cvnops.c:760` | a file made online for a write is released before the write has its lock, and the rest of its data is lost |

Further comments that the models contradict, without a run of their own:

- `server.c:432`, "return completed status": a repeated name operation gets ENOENT
  in place of its saved status when the parent directory is gone.
- `clcomm.c:744`, "not killing and creating threads simultaneously": the reader of
  another socket creates threads without `m_cl_init`.
- `clcomm.c:347`, "wait for no busy sharefs threads on this server socket": a
  thread has taken a message of the socket before it counts itself busy.
- `server.c:2473`, "No other concurrent leases are allowed except CL_OPEN": the
  mask of the exclusive lease leaves out the mmap lease.
- `server.c:2474`, "someone waiting for an exclusive lease will block other lease
  requests": the leases waited for are never tested.
- `server.c:2300`, "Other writes always block mmap writes": a writable mapping waits for
  read and write leases of other hosts and not for an append lease.
- `creclaim.c:710`, "The current lease generation numbers guarantee that a later append
  lease will not be overwritten": generations start again when an entry was empty.
- `clvnops.c:841`, "On last close and no mmapped pages, update inode on the server and
  cancel leases": a second last close during the first one is not a last close.
- `clcall.c:2933`, "SHARE_wait - wait forever": a reply that comes between the timeout and
  the retransmission is returned even if it is EXDEV.
- `clcomm.c:346`, "wait for all sharefs service threads to idle, then reap them": the one
  broadcast of `sam_kill_threads` misses a thread that is not yet asleep.
- `clmisc.c:1706`, "If failing over, start a task to re-establish leases": the test that
  follows leaves out a host that is thawing, so a host whose server changes again
  while it thaws depends on the task that is running.
- `cvnops.c:1573`, "If file is offline, the file is not modified, therefore complete fsync":
  its inode may have been changed by operations that are not yet on the log.
- `srmisc.c:1042`, "Wait until all client operations are done or frozen": an operation
  tests the flag first and counts itself afterwards.
- `samscall.c:1034`, "Don't release file if it is staging, archiving": the first arcopy
  process to close the file makes it look as if none had it open.
- `sharefs/config.c:770`, "If the kernel has told us that the server-to-be is not
  available, we need to back out the server change request": the code that follows
  writes the pending server as the server (784-806). The old server goes on, and
  with another server-to-be after that two hosts serve.
- `stage.c:697`, "For a given inode, cancel the stage. If request is still in the preview,
  the FS_FIFO_CANCEL will remove it": a request that the stager is composing, or whose
  cancel it has not read, stays. If it outlasts the archive age, and the file is
  rewritten, archived and released meanwhile, it writes the old version
  (`samscall.c:1327`).
- `lqfs_top.c:582`, "Hold the un_log_mutex here until we are done writing the commit record
  to prevent any more deltas to be written to the log": `logmap_wait_space` releases it.
- `lqfs_map.c:434`, "there can be no other activity in the deltamap": a buffer write that is
  no operation of the transaction may have taken deltas and not yet logged them.
- The manual of `unrearch` says that it clears the bit that `rearch` had set: `OP_unrearch`
  also sets the archived bit, even that of a stale copy of an offline file
  (`rmscall.c:1422`).

## Proofs

`SharedRpcProofs` proves, for every set of threads, every bound and every modulus
above 2:

- `TypeCorrect`: `TypeOK`;
- `AtMostOnce`: `NoSecondExecution`;
- `RepliesKept`: `ServerRemembers`;
- `AckSafety`: `AckNotPastOutstanding`;
- `ResultsAreGenuine`: `ResultWasExecuted`.

The last four assume `NoWrap`: fewer than half of the sequence numbers have been
handed out (2^31 messages of a mount in the code). Beyond that a message that is
2^31 older than the newest one is taken for a later one, and the claim is false as
it stands; `rpc_safety` covers the wrap for messages that are close together.

The argument. None of the four is inductive. The inductive invariant `IInv` adds:

- `HandedOut`: every sequence number and ack in a header, on the chain, in transit,
  in the message array or in the history is one the counter has passed;
- `ChainHeld`, `Distinct`: a thread has an entry on the chain just while it waits,
  and no two threads send the same number;
- `OneClass`: all copies of a number are of one class of command;
- `WorkQueued`: each worker has an entry in state PROCESSING, and no two workers
  have the same number;
- `Remembered`: what was executed since the last reset is in the array or below
  `cl_min_seqno`;
- `FreeableNotDone`: a worker that will free its entry does not free the record of
  an execution.

The step that needs care is the lookup of a message, where an ack frees saved
replies: they are all below the new `cl_min_seqno`, so a later copy of a freed
message is thrown away. `AckSafety` needs in addition `AckSafe`: no ack in a header,
in transit or recorded by the server is later than a message still outstanding. It
holds since the ack is computed under the mutex that protects the chain.
`ResultsAreGenuine` follows the result instead of the number: `ResultInv` says that
whatever carries the number a thread waits for (a request, a worker, a saved reply, a
reply in transit, the thread's entry) is of the thread's call, and that a result it
carries is one of the outcomes of that call, or `ok` while the thread has a `MOUNT_init`
of its own under way. A new number is carried by nothing yet, which is where the replies
in transit must be among those handed out; only an execution makes a new result
(`ResultPassedOn` covers every other step of the server and of the network at once).

`SharefsPoolProofs` proves, for every finite set of pool threads and of sockets and
every size of the pool:

- `PoolTyped`: `TypeOK`, in which no counter is negative;
- `CountersAlwaysAgree`: `CountersAgree`;
- `ItemsInOrder`: `QueueInOrder`;
- `NobodyOutlivesThePool`: `PoolReaped`.

`IInv` adds that a pool thread has the mutex just at the top of its loop (`Owned`),
that `queue.items` is at least the length of the list (`ItemsCover`: a reader that
destroys the items does not count them off, so equality is lost), and, for
`PoolReaped`, that with one reader a thread that was created and has not started is
alone and is waited for (`CreatedAwaited`): it is in none of the counters that
`sam_kill_threads` waits on. `OneMoved` says how the number of threads in a set of
states follows from the step of one thread; each action then says which sets its
thread leaves and enters. A broadcast, which wakes all sleepers, moves nobody
between the sets that are counted.

`SharedLeaseProofs` proves, for every set of hosts and of threads and every set
of setups that meets `LeaseAssumption` (any mount option, any placement of the threads,
any mix of lease types), every safety property of `lease_table`:

- `LeasesTyped`: `TypeOK`;
- `TableExcludes`: `LeasesExclude`;
- `AppenderOwnsSize`: `AppendOwnsSize`;
- `PagedIOEnds`: `PagedAlone`;
- `CloseCancels`: `SingleCloseCancels`;
- `CloseLeavesMaps`: the action property `CloseKeepsMaps`;
- `ReadersAreTold`: the action property `ReadersTold`.

The invariant of the first three, `IInv`, is these, with `MmapModes` (a mapping is asked for to read or to
write, which decides the lease given along). The argument that matters is
`GrantExcludes`: for each type of lease, a request that `MustWait` lets through, with
what `Implicit` adds to it, excludes the leases of every other client and is excluded
by them. The cases that are not plain are an mmap and an open, whose read or write
lease is never asked for: the first has its own test, the second gives the lease only
if nobody else is in the table. Everything else only takes leases away: late removals
and relinquishes (`RemovalKeeps`), and expiry with the compaction of the table
(`Compacted`), where the size owner is forgotten only when no entry is left. A waiting
entry need not belong to a request under way, since a request may be given up; that a
request that waits is not one for an open lease (`Waiters`) is what the proofs use.

The other four need more than the table. `NextMoves` sorts the actions once: a step is
one of a thread (`Moves`: it asks, rests, closes, removes all leases, unlocks, records a
lease, is told to wait, gets a lease, or is done with a removal) or one `Elsewhere`, and
each kind says what it may change. `LeaseInv` adds to `IInv`:

- `Messages`: neither a relinquish nor a notice takes an open lease;
- `Unmapped`: a removal of all leases under way means that nobody on the host maps;
- `DirectInv`, where nobody opens: what the server believes about a host's direct I/O,
  or will be told, is so (`DioKnown`), and a host with a conflicting lease does direct
  I/O, has a callout, or has the order in the answer to its request (`ConflictsTold`).
  `GetsTold` is the step that matters: a grant that conflicts found every other host
  called out already, or it would have waited;
- `OpenInv`, for a host with one thread: how the generation of its open lease in the
  table, the one it recorded and the one in its answer or removal are related. They
  differ only between a grant and its record, so that the removal of the last close
  names the one in the table (`sam_process_rm_lease` ignores any other);
- `HeldInv`, for such a host: I/O is asked for only with an open lease in the table;
- `StaleInv`: a host that missed a write is not marked as up to date, and the file is
  marked as written. A cleared entry counts as up to date only on a file that nobody
  wrote, so compaction cannot hide the write; and by `HeldInv` no read or write lease
  is the first, which would not be compared.

`FileCopiesProofs` proves, for every set of threads, up to four copies (`MAX_ARCHIVE`)
and every set of setups that meets the assumptions of `FileCopies` (the
jobs are those of the model, and a file that starts offline has a copy):

- `FileTyped`: `TypeOK`;
- `ReleasedFileHasCopy`: `OfflineHasCopy`;
- `NoStaleCopyIsArchived`: `ArchivedNotStale`;

and for those of the setups that are `Orderly`:

- `ArchivedCopyIsCurrent`: `GoodCopy`;
- `OnlineFileIsCurrent`: `OnlineIsContent`;
- `VersionNeverLost`: `NeverLost`;
- `ReadsReturnTheFile`: the refinement `ReadsTheFile`, that every step is a write of the
  abstract `File`, a read of its version, or nothing.

`Orderly` leaves out what `OfflineHasCopy` does; files that are archived while a stage of
an earlier version is still under way (the age must be `stage`); and commands that bring
back copies of an older version. `Times` is what an archive age gives: the time of a
modification is not the one that an arcopy process at work has noted.

`OfflineHasCopy` is not inductive: whether a stage or a truncation keeps it depends on
what the threads are about to do. The invariant `IInv` adds the types of the inode and
of the threads; that a thread that writes keeps `write_mode` set, and once it has
truncated the file finds it online without archived copies (`WriterInv`); that an
arcopy process which would be allowed to record its copy (the modification time is
still the one it noted) finds no thread between its truncation and its close
(`ArcopyInv`); and where a thread that does not write can be (`UserInv`). The first lemmas say what each
inode operator (`DropIno`, `MarkIno`, `CloseStage`, `Damage`, `Exarchive`, ...) preserves;
then there is one lemma per action. The argument that
matters is in `DropIno` and `Damage`: both look for an undamaged archived copy with the
flags they are about to leave behind.

For the versions, `VersionInv` adds three parts. `DiskInv`: what is on disk is the
current version, or the newest while a thread writes it, and is complete unless the file
is offline; nobody reads while somebody writes. `CopyInv`: archived copies, and one that
an arcopy process is about to record with the modification time unchanged, are of the
current version. And either the file was modified and not archived since (`Fresh`), or
every stage request under way, in a thread's hands, in the command queue or with the
stager, is for the current version (`Tracks(Of(content))`). The third part is the one
that is hard to see: a request for an old version may be left over from before a
truncation, and is harmless only until the new version is archived and released.

`MobyInv` and `MobyProofs` prove, for every finite set of threads and of
tasks, every size of the log and every set of setups that meets `MobyAssumption`:

- `CountersAlwaysAgree`: `CountersAgree`;
- `OperationsInOneTransaction`: `OneTransaction`;
- `UnmountLeavesNobody`: `UnmountClean`;
- `ReturnsWhenDurable`: the action property `SyncDurable`.

They rest on one inductive invariant, `IInv` of `MobyInv`. The counters do not follow
from themselves: whether `mtm_wantin` may become `mtm_active` when a transaction opens
depends on nobody being inside, which depends on the gate. So `IInv` adds:

- `Gate`: one thread at a time is between the closing of a transaction and the opening
  of the next; meanwhile no synchronous operation is inside and none enters, before
  the push none at all, and the `ASYNC` bit is set just while such a thread exists;
- `Logged`: how `mtm_tid`, `mtm_committid` and the last transaction on the log are
  related before the push, between push and commit, and after the commit;
- for each thread, `Own`: the transaction it is in is the open one (`Numbered`); what
  a task and what an empty commit may be (`TaskOnly`, `Issued`); what it waits for is
  on the log, or in the transaction whose commit it waits for (`Awaited`); and during
  unmount it waits for all that has ended (`Unmounting`);
- `Alone`: the unmounting thread is then the only one inside.

`Counted` is `CountersAgree` over four sets of threads. `Recount` says how the four
cardinalities follow a step of one thread, from whether that thread is in each set
before and after; the opening of a transaction, which moves all the waiting threads at
once, is counted by itself (`OpenKeeps`). `MobyInv` has every step but the commit,
which is in `MobyProofs` with the theorems.

`FailoverInv` and `FailoverProofs` prove, for every finite set of at least two hosts
and every set of setups, however many failovers they allow:

- `ServerStaysOne`: `OneServer` in the setups that are `Orderly` (the administrator
  waits for the end of a failover before they ask for the next, no host fails and no
  socket breaks; messages may be as late as they like) and in those that are `Forced`
  (nobody asks a running server to surrender; servers and clients fail, and failed
  servers are replaced, in any order).

In the second case the invariant (`ForcedInv`) is short: who is the server, or is about
to be, is the server in the hosts table. In the first the role passes through a state
where the table still names the old server, so `OrderlyInv` describes, for each host,
what its flags, daemon, thaw task, socket and the messages on their way to it may be,
by where the daemons of the old and of the new server are (`HostInv`): the old server
has dropped `SERVER` before it rewrites the table, the new one takes it only when it
reads itself there, and a message of an earlier failover finds no host in a state where
it could start a second one. Setups that mix requests with failures are left to
`failover`.

Only model-checked: liveness (`CallsReturn`, `BusyTakesNext`, `Thaws`, `ReadEnds`, `OpsEnd`,
`CommitEnds`), which is outside the prover's reach; `SpaceReserved`, a sum over the threads,
which needs induction over a set with the summand as a parameter; `LogKept`, `ReadBack` and
the refinement of `Store` (`CrashConsistent`), since what the log holds for a location is
folded over the records on it; of failover `LeaseExclusive` and `ThawsWithLease`, which
need the invariant of `OneServer` extended by the leases and the thaw tasks, and
`OneServer` itself where requests and failures mix; and the versions of a file in the
setups that are not `Orderly`.

## Plan

Done: the request layer, the message pool and the leases with their proofs, failover
with the proof of its first invariant, the copies of a file with the proofs of its
invariants and of its refinement, and the journal with its refinement.

Next, in this order:

1. `InodeInfo`: ordered inode copies (`sam_set_sr_ino`, `sam_reset_client_ino`); an
   abstract register that only moves forward, refined by the messages.
2. Cancels of freed metadata blocks in the journal, with block pools and bit maps.
3. `LeaseReclaim`: scheduling of the expiry tasks (`m_sr_leasesch`, the running flag,
   the dup exit); every lease that must expire does.
4. `ClientTable`: `sam_server_rdsock`, `sam_add_client`, `sam_clear_client`,
   `m_no_clients`, clients off and down.
5. Record locks and lease extension in `SharedLease`; the whole lease table in
   `Failover`; an abstract lease specification that both implement.
6. The queues of archiver and stager across restarts; the releaser's candidate list
   as an algorithm; catalog server; daemon supervision.

## Not modelled

Directory contents, access control lists, the movement of pages and blocks,
parsing and formatting, the commands, the management library and the web interface:
sequential code or presentation, where a test reaches as far as a model. The robots
and device drivers: device protocols whose other half is not in the repository.
The remaining daemons are in the plan. Inside the modelled parts, left out are: on
the request layer, the freeze inside a wait, `SAM_CMD_WAIT`, mounts in the background,
the block reads that give up during a failover (`clcall.c:3028`) and the answer to
clients with an old file system generation; in the pool, failing thread creation and the
parsing of the byte stream; of the leases, record locks, extension,
allocate-ahead, quota, failing opens, a signal during a LEASE_get, a single client's
deferred expiry, page invalidation callouts, and hosts that are marked down; of failover, the remount of
the metadata on the new server, NFS locks and unmounting;
of the copies of a file, a stage command that cannot be sent and an answer for which the
file cannot be opened (both end in an error and a broadcast, as a failing copy does),
partial release and partial staging, direct access, removable media files, data
verification, segments, and copies on several volumes; of the journal, a push that
fails, the cancels of freed metadata blocks, a log in error, non-blocking operations, enabling and
disabling the log, read-only mounts, the panic paths, and the layout of records.
