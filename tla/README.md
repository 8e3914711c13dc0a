# pdistcc in TLA+

Specifications of [pdistcc](https://github.com/asheplyakov/pdistcc), a
distributed compiler front end in Python with a few C programs beside it, the
TLC runs that check them on small instances, and proofs that TLAPS checks for
every value of the constants. Source paths below are relative to `src/`.

## 1. The system

| Component | State | Operations | Talks to |
|---|---|---|---|
| Client: `pdistcc/compiler/wrapper.py`, `pdistcc/net.py` (`DccClient`, `dcc_compile`) | position in the request and in the reply, status, object file | connect, send the request, read the reply | the daemon, over one TCP connection |
| Daemon and handlers: `pdistcc/server.py` | one forked handler per connection: position, names of its temporary files, `cleanup_files` | read the request, save the `.ii`, draw an object name, compile, reply, clean up | its client; the other handlers, through `/tmp` |
| Wire protocol: `pdistcc/net.py` | none of its own | 12-byte tokens, receive and send loops | used by both sides |
| Client driver: `pdistcc/compiler/__init__.py`, `wrapper.py` | the command, the files of the build's directory | choose a place, rewrite, preprocess, start the session | wrapper, compiler, session |
| GCC wrapper: `pdistcc/compiler/gcc.py` | a command line | classify it, make preprocessor and compiler commands | client and handlers |
| C inode cache: `c/inodecache.c` | a file per entry, a lock file beside it | get, put, delete | other processes, through the directory |
| Python inode cache: `pdistcc/inodecache.py` | the same files | get, put, purge | other processes, through the directory |
| Compiler properties: `c/compiler_properties.c` | a child process and a pipe | ask gcc for its triplet or `-march` | gcc |
| Directories: `c/mkdir_p.c` | a descriptor and a place in a path | make a path | others that make it too |
| Barrier: `c/barrier.c` | a counter and two semaphores | init, wait, close | threads or processes that share it |
| Benchmark: `c/bench_inodecache.c`, `c/bench_stats.c` | children, shared totals under a semaphore | `main`, `run_bench`, `bench_inode_cache` | barrier, inode cache, compiler properties, `mkdir_p` |
| Cache test: `c/test_inodecache.c` | two answers of gcc | `main` | inode cache, compiler properties |
| Queue demonstration: `dat/thunderingherd.cpp` | a queue, a mutex, two condition variables | `worker`, `producer`, `run` | its threads |
| `sched.py`, `config.py`, `cli.py`, `compiler/msvc.py`, `inodecache_bench.py`, `md5.c` | little or none | see section 8 | |

What is hard, and what makes each part right:

* **A session** has two programs that know the protocol separately, each of
  which can disappear at any point, on sockets without timeouts. Right means:
  neither ever reads a field it does not expect; a client told of success has
  the object of its own source, whole; a client whose compilation did not
  succeed keeps its old object; a client is refused or disconnected only for a
  cause; both ends end, or wait for one of the few things that nothing will end.
* **Handlers share `/tmp`**. Right means that a file is not another handler's, and
  that nothing is left. The code draws the names of objects in a way that may
  give two handlers one, and leaves uploads that were cut short; the properties
  say that nothing else goes wrong.
* **The barrier** is three lines on two semaphores, used by processes that get
  killed. Right means that nobody passes early and that nobody is left behind.
* **The benchmark** has a parent waiting for children that wait for each other
  twice. Right means that phases do not overlap, no result is lost, every
  failure is counted, also in the exit status, and that it ends.
* **The inode cache** rewrites files in place under an advisory lock. Right
  means that a get sees one put's value or none, also after a crash.
* **Asking gcc** is a child, a pipe of limited capacity and a wait, with memory
  and descriptors to give back on a dozen error paths. Right means that an
  answer is gcc's, whole, that nothing is freed twice, and that nothing stays
  open; the code leaves an end of the pipe, or a child, after a few failures,
  and these are named.
* **A command** is parsed on the client, made into another and parsed again on
  the server; its preprocessed file lies in a directory others use. Right means
  that the object is the one the compiler would have left here.
* **The queue** is notified outside its mutex. Right means that no wakeup and no
  item is lost.

`PROJECT.json` lists the hazards, each at its line, with the properties that
cover it, or the reason why none does yet.

## 2. Modules

| Module | What it is |
|---|---|
| `RemoteCompile` | abstract: what pdistcc promises to a build tool |
| `CompileSession` | clients, handlers, streams and `/tmp`; implements `RemoteCompile` |
| `CompileSessionInv` | its inductive invariant |
| `CompileSession_proofs` | its theorems |
| `Rendezvous` | abstract: nobody gets through before everybody has come |
| `Barrier` | `c/barrier.c`, and its inductive invariant; implements `Rendezvous` |
| `BenchRun` | `run_bench` and its children, around the barrier, which it extends |
| `BenchRun_proofs` | its inductive invariant; the theorems of the barrier and of the run |
| `MkdirP` | `mkdir_p` and the others that make and remove directories |
| `CompilerProperties` | `get_gcc_triplet` and `get_march_native`, with gcc and the pipe |
| `Programs` | the `main` of `bench_inodecache` and of `test_inodecache`: composes `BenchRun`, `MkdirP` and `CompilerProperties` |
| `Programs_proofs` | their inductive invariant and its theorems |
| `FieldStream` | the loops of `net.py` over the bytes of fields, and a file written meanwhile |
| `FieldStream_proofs` | its inductive invariant and its theorems |
| `InodeCache` | one entry of the C or of the Python cache and the processes that use it |
| `InodeCache_proofs` | its inductive invariant and its theorems |
| `GccWrapper` | what `compiler/gcc.py` makes of a command, as operators |
| `Gcc` | external: what gcc makes of a command |
| `WrapCompiler` | `wrap_compiler` for clients in one directory, and the server's part in it |
| `WrapCompiler_proofs` | its inductive invariant and its theorems about what the two parsers read |
| `WrapOutcome_proofs` | the invariant of the directory, and the theorems about objects and failures |
| `WorkQueue` | abstract: a bounded queue, first in, first out |
| `ThunderingHerd` | the threads of `dat/thunderingherd.cpp`; implements `WorkQueue` |
| `ThunderingHerd_proofs` | its inductive invariant and its theorems |
| `MC...` | constants and definitions for TLC |

Operators with a name that ends in `Fault` are mutations of the operator with
the same name: the way a plausible mistake would have written it. No
specification uses them. They show, one by one, that each property can fail.

### CompileSession

A request `r` stands for one invocation of pdistcc, its connection and its
handler. `cpc[r]` and `spc[r]` are the two program counters; while a side waits
for a field its counter is the field's name. A message is one token together
with the argument or text it announces, or one chunk of a file, so `up[r]` and
`down[r]` are the TCP streams cut at the places where the code cuts them. They
hold at most `Cap` messages: `SendRequest` and `SendReply` block when the buffer
is full, as `sendall` does.

| Code | Actions |
|---|---|
| `dcc_compile`, `DccClient.request` | `Connect`, `SendRequest` |
| `DccClient.handle_response` | `RecvDone`, `RecvStat`, `RecvSerr`, `RecvSout`, `RecvDoto`, `RecvObjChunk` |
| every `ProtocolError` and `InvalidToken` of the client, and the `OSError`s of its socket | `ClientError`, `ClientTimesOut` |
| the `OSError`s of its own files: the `.ii`, the object, `stdout` and `stderr` | `ClientIOError` |
| `chunked_send` of a file that has shrunk | `Starve` |
| `ForkingTCPServer` | `Accept` |
| `_read_request`, `_read_compiler_cmd` | `ReadHello`, `ReadArgc`, `ReadArgv` |
| `find_compiler_wrapper`, `can_handle_command` | `CheckCommand` |
| `_read_doti` | `ReadDoti`, `ReadDotiChunk` |
| `_compile` | `ReserveObject`, `ReleaseObject`, `RunCompiler` |
| `_reply` | `SendReply`, `OpenObject` |
| the handler's exceptions over the stream, the command, the compiler and its object's name | `HandlerError` |
| the `OSError`s of its files in `/tmp` | `HandlerIOError` |
| `communicate`, of a compiler that does not end | `Hang` |
| the `finally` clause | `Cleanup` |
| not in the code | `ClientKill`, `HandlerKill`, `Cut`, `AllEnded` |

Abstractions, and why they lose nothing the properties see:

* `SERR` and `SOUT` carry their text with them: the client copies it, whatever
  it is. The status is 0 or 1: the code only tests it for 0.
* An object is a sequence of chunks that know the source they were made from.
  The compiler may return any status and may leave an object or not, with any
  status. It replaces the file of that name rather than writing into it, as
  gcc's assembler and clang do; an open file (`snap`) then stays what it was.
* `isfile` and `remove` of the `finally` clause are one step for both names,
  with the end of the connection. The names are removed whatever they have
  become, as in the code. The file may vanish between `isfile` and `remove`;
  the exception that makes changes nothing any more, as the object's name is
  the last of `cleanup_files`.
* A server that closes its socket with unread bytes of the request makes TCP
  reset the connection, and the client may lose what it has not read yet
  (the third case of `ClientBroken`).
* A killed process is one thing, a lost machine or network another. The kernel
  closes a killed process's connection, and the peer finds out. `Cut` loses the
  connection: the peer reads what has arrived, and then waits for ever, as no
  socket has a timeout or keepalive (`net.py:44`); only who has something to
  send is told, in the end, by the kernel. A machine that goes down is a `Cut`
  and then a kill.
* What a client meets before it has a connection (no such host) is no session.
  An error of its own files may come wherever it uses them (`UsesOwnFiles`); a
  write that is buffered may fail later than it does here, at the latest at the
  flush, which is the last use. The flush of `stdout` at the interpreter's exit
  is left out.
* A killed handler's compiler may run on and write an object nobody owns; its
  name was drawn before, and a later draw avoids it while it exists. It is not
  modelled.
* `MaxChildren` is `socketserver.ForkingMixIn.max_children`, 40 in the library.

### FieldStream

`CompileSession` passes whole fields; `FieldStream` has one direction of one
connection in bytes, to show that it may. `client` says which direction: a
client looks at the size of its file before it sends anything, a server after
its texts. `SendText`, `SendSizeOfFile` and `SendChunk` are the calls of
`sendall`, which `Transmit` hands over in any pieces; `RecvToken`, `RecvText`
and `RecvChunk` one `recv` or `recv_into` each, of any length, with the buffer
(`mv`) as the code reuses it. A byte knows which field it is from and where in
it, and a byte of the file by whom it was written. `Rewrite` is the `gcc -E` of
another client whose object has the same stem. A server's object is not
written while it is sent, for the reason given above. Left out: Python's
read-ahead, which only delays when a change is seen, and sizes of more than
eight hexadecimal digits (4 GiB), for which a token would be longer.

`SendChunk` may read nothing and change nothing: that is `chunked_send` at the
end of a file that has shrunk, which turns for ever (`Starved`). `LoopsEnd` and
`FieldsIntact` show that this, and a file with bytes of several writers, are all
that such a file can do: what arrives still has the announced size, and no
token is read from the wrong bytes.

### Barrier

`barrier_wait`, a system call or memory access per action, `b->count++` being a
load and a store. `Interrupt` is the error return of either `sem_wait`; `Die`
kills a caller anywhere, and what it holds stays held. The error returns after
`sem_post` are left out, which `TokensKept` justifies: neither semaphore ever
exceeds 1, so `sem_post` cannot overflow.

### BenchRun

The parent's `Setup`, `Fork`, `Wait` and `WaitFails`, and the children's
measurements, meeting and merge; `Meet` takes the steps of `Barrier`, whose
variables and proofs `BenchRun` shares. The children are numbered
(`SlotsAssumption`), as the slots of the code are. The statistics are reduced to
how many runs they hold: that is what a lost merge would change. There are two
totals, merged one after the other under one lock (`stats`, `nocache`), and a
child may be killed between the two. Any measurement
may fail, any `sem_wait` and `waitpid` may fail, any child may be killed
anywhere.

### MkdirP, CompilerProperties and Programs

`MkdirP` has `mkdir_p`'s three calls as `OpenRoot`, `MkdirAt` and `OpenAt`, and
everybody else as `OthersMake` and `OthersRemove`. A path is its components,
one of which may be empty; `cut` says that it has a NUL where a '/' was.

`CompilerProperties` has both functions up to their `out:` label. A line of
gcc's output is what the code can tell of it (`Line`); gcc may say nothing,
something else, half an answer, exit with any status or be killed, and waits
when the pipe is full. `ptr` is what the caller's variable points to, `ends`
counts the ends of the pipe that are open, `left` says that a child was never
waited for. The `out:` label closes the end that is read and no other, so a
failed `fork` (or `asprintf`) leaves one end, and a call that fails after its
fork leaves a child (`LeftOnlyByFailures` says after which failures, and that
nothing else leaves anything). `errno` at the end of the input is unknown, so
`NothingRead` may return 0 or an error.

`Programs` runs one of the two programs from `main` to its exit status:
`MkdirReturns`, `TripletReturns`, `RunReturns`, `CacheReturns` and `AskReturns`
are `main`'s own steps between its calls, `Exit` its `out:` label. It takes the
steps of the other modules through `Making`, `Asking` and `Running`. The cache
operations of `test_inodecache` are a step that goes well or not. When
`mkdir_p` has returned the model forgets the path, of which `main` keeps a
descriptor only.

### InodeCache

Each of get, put and delete, a system call per action; `read` and `write` may
move as little as one cell of a value. `python` says which of the two caches
the processes use: the Python one creates its lock file for readers too, takes
values of any size and reads them to their end (`TooLong`, `OpenLock`, `Room`).
One entry is enough: entries have files and lock files of their own, and no
operation touches two. `Fail` is any error return under the lock, `FailToLock`
one before it, `Crash` the death of the process, which releases its lock (the
kernel closes its descriptors). A process slot is used again after a crash.
`last` and `torn` are history variables: the value of the last put to truncate
the entry, and whether that put was cut short. Not modelled: `hash_inode`'s
collisions, the loss of what is written but not yet synced when the machine
itself goes down, and C and Python processes at one entry, whose locks do not
know of each other (`pdistcc` uses the Python cache, and only a benchmark and a
test program the C one).

### GccWrapper, Gcc and WrapCompiler

An argument is what its `split('.')` gives, as that is how `gcc.py` looks at
it: `<<"a", "c">>` is `a.c`. `GccWrapper` has one operator per method:
`CanHandle`, `PreprocessorCmd`, `CompilerCmd`, `SetObjectFile`,
`RewriteLocalArgs`. `Gcc` is the compiler those commands are for: which file it
reads, in which language, and what it writes. A file's content (`Content`) is
the source it comes from, the languages it was preprocessed and compiled in,
the instructions it needs and the CPU it is tuned for, which is what an object
can get wrong. The three `native` flags are not one: `RewriteLocalArgs` gives
each the name of the client's CPU, and makes an `-march` of `-mcpu=native`,
which on x86 is only tuning. A name says less than `native`, under which gcc asks
the CPU for each of its features; so `ObjectIsLocal` compares with the object of
a compiler that was told the CPU by name (`NamedCPU`), which is what the code
promises.

| Code | Actions of `WrapCompiler` |
|---|---|
| `wrap_compiler` in `compiler/__init__.py` | `Start`, `RunHere`, `RunLocally`, `UnknownCompiler` |
| `CompilerWrapper.wrap_compiler` | `Offload`, `Rewrite`, `Unresolved`, `Preprocess`, `Send` |
| `dcc_compile` | `Send`, `SessionFails`; `CompileSession` has it in detail |
| `Distccd.handle`, the parts about the command | `Refuse`, `Compile` |

`ObjectIsLocal` and `FailsOnlyIf` compare with what the compiler would have done
here (`Local`). They hold but for what the code gets wrong, which is named:

* `Misread`: a language taken from the lower-cased extension (`a.C`,
  `g++ a.c`), or a `-x` after the source;
* `AlreadyPreprocessed`: gcc -E writes nothing for a `.i`, so that an old file
  may be sent;
* `Shared`: another client writes a file that this one reads. Two objects with
  one stem have one preprocessed file, and a header or a source may have that
  name too;
* and, of failures only: `NoSource` (a flag to be dropped that ends like a
  source, `-DX=a.c`); `Astray`, which is a `-D` with its macro apart (`gcc.py:182`
  drops the `-D`, and the macro becomes an input file), an unknown option
  that ends like a source and is taken for it (`-frandom-seed=a.c` beside `a.S`,
  which is sent as well), and `-MQ` or `-MP`
  without an `-MMD` (both are sent, the `-MD` or `-M` they need is not); `-S`
  without `-c`; `-M`; and `-imacros`, which the code has as `-imacro`.

None of these can be left out: TLC finds a counterexample without each. For
that to mean anything gcc has to know the options: `Gcc` has those of the
wrapper, `-imacros`, `-MQ`, `-MP` and `-MMD` beside them, and any others
(`Other`). What it leaves out: `-MM`, `-MG`, `-fsyntax-only`, several `-march`,
and an `-march` or `-mtune` that the command itself names. Two more failures
are not compared: of a compiler without a wrapper, and over a `native` CPU that
gcc does not tell (`Unresolved`): when gcc has no line for `-march`,
`gcc_march_native` stumbles over its unset `cpuname` (`gcc.py:35`), and only a
blank line gets to the exception for the local fallback.

### ThunderingHerd

A step is what a thread does between two accesses to the mutex or to a
condition variable. `Acquire`, `Blocks`, `Spurious` and `Notifies` are the
library's part; `Pop`, `Break`, `Push`, `Finish` and the two notifications the
program's. A thread that cannot be started ends the program
(`std::terminate`), as `run` unwinds past joinable threads.

## 3. Runs

| Run | Instance | Checks | Result |
|---|---|---|---|
| `SessionSafety` | 2 requests, 2 names of each kind, 1 argument, 2 chunks of source and of object, buffers of 1 message, 2 handlers | framing, causes of failure, faithful objects, old objects, leftovers, `IInv` | holds (3,738,701 states) |
| `SessionLive` | 2 requests, buffers of 1, 1 chunk, 1 handler at a time, faults in one session | `RemoteCompile` is implemented, handlers end, clients are answered, objects arrive, but for the waits that nothing ends | holds (291,439) |
| `ExitStatus` | 1 request | pdistcc exits with 0 only if the compiler did | violated |
| `NothingLeft` | 1 request | a handler leaves nothing in `/tmp` | violated |
| `Barrier` | 4 processes | counter, semaphores, rendezvous, liveness | holds |
| `BenchRun` | a path of 2 components, a pipe of 1 line, up to 3 lines of output, 3 children | directories, what is left open, answers, frees; phases, totals, failures, exit status, end | holds (986,753) |
| `BenchHangs` | 2 children | the run ends if nobody is killed | violated |
| `InodeCache` | 3 processes, 4 values, either cache | gets, puts, leftovers, locks | holds |
| `LongEntry` | 1 process | what put stores, get can read | violated |
| `ThunderingHerd` | 4 workers, a queue of 2, 6 items | wakeups, no item left, `WorkQueue` implemented, `run` returns | holds |
| `WrapCompiler` | 2 clients in one directory, commands of up to 3 parts beside the `-o` | the object is the compiler's own, causes of failure, both parsers agree | holds (2,587,399) |
| `FieldStream` | texts of 4 and of no bytes, a file of up to 5, tokens of 3, chunks of 2 and of 3, buffers of 4, 3 writes | framing, content, nothing left, causes of failure, loops end | holds |

Why the bounds are enough. In `CompileSession` requests only meet in `/tmp` and
at `MaxChildren`: two of them, with two names, show every collision of names
(one handler drawing what another has released, removed or replaced), and one
place shows waiting for a place. Two chunks give a loop a first and a last
turn, and an upload that is cut short something in the file; buffers of one
message make every sender block. Larger buffers and more chunks are left to the
proofs, which remove all these bounds for the safety properties.
`SessionSafety` uses symmetry; `SessionLive` may not, so it names files and
sessions in the order in which they are first drawn or accepted
(`NamesInOrder`). Its faults are in one of the two sessions (`OneFaulty`): the
liveness of the other session is then that of one beside any fault. Four
barrier processes have a first, a last and two in between. Three processes at a
cache entry can be two in conflict and a third whose operation comes in
between; the four values lie below, at and above the reader's limit and above
put's (`Sizes`, `MaxSize`). In `Programs` two components are a first and a last
one, and a pipe of one line makes gcc wait for a reader that has stopped
reading. A queue of two is empty, half full and full; four workers can all wait
while a notification is on its way, and six items fill the queue three times.
In `WrapCompiler` the first client is asked for every arrangement of up to
three of 24 parts (sources, `-c`, `-S`, `-E`, `-x`, preprocessor flags, `-D`
with its macro apart, dependency options, options that the wrapper does not
know, the three `native` flags) after its `-o`, which puts each flag before and
after the source and before and after every other; the second for an object of
the same stem. In `FieldStream` a token, a text and a file are each longer than
what one call moves, so that every call can be cut short, and chunks of both
sizes leave a rest; three writes empty a file and let it grow again, beyond its
announced size if that was small. Deadlock is checked in every run: the only
places where a system may stop are named (`AllEnded`, `Done`, `Ended`,
`Exited`) and stutter.

## 4. What the violated properties show

* `ExitStatusFaithful`: `dcc_compile` (`net.py:183`) drops the status that
  `handle_response` returns, so pdistcc exits with 0 after a failed remote
  compilation. The README has CMake use pdistcc as a compiler launcher.
* `NothingLeft`: the `.ii` file is created with `delete=False` and its path is
  put on `cleanup_files` only after the upload is complete (`server.py:66`,
  `134`). A client that disconnects during it leaves the file for ever.
  `LeftoverIsPartialUpload` shows that of handlers that are not killed this is
  the only leftover: no complete upload, and no object.
* `RunEnds`: the barrier is set up for `nproc` children. When one is not
  forked, or fails before the barrier, the others wait for ever
  (`bench_inodecache.c:258`). `MainEnds` shows that nothing else hangs, but a
  gcc with more to say than the pipe holds (`Stuck`).
* `FitsBuffer`: put accepts values of 511 and 512 bytes (NUL included), which
  get refuses at the line that "should not happen" (`inodecache.c:99`).

Other properties hold with an exception that the code makes necessary. `torn`
in `GetIsLastPut`: put truncates in place (`inodecache.c:245`), and a get after
one that was cut short returns 0 and an incomplete value; the property shows
that nothing else does this. `SharesObject` in `FaithfulUnlessShared`: two
handlers may draw one name (`server.py:80`), and the property shows that
nothing less gives a client another's object. `LeftOnlyByFailures`,
`FreedTwiceOnlyAfterTriplet` and `Stuck` are about asking gcc;
`SuccessMeansMeasured` excepts a run whose set-up failed, for which
`bench_inodecache` exits with 0 (`bench_inodecache.c:239`); `Misread`, `Astray`
and their like are about commands (section 2); and the liveness of sessions
excepts who waits where no timeout is set (section 5).

## 5. Fairness

`CompileSession` assumes weak fairness of each client's and each handler's next
step: an operating system runs its processes, and TCP delivers or reports, as
long as there is a connection. No fault is fair, and nothing reports a lost
connection to who only waits: that the kernel gives up on unacknowledged data
(`ClientTimesOut`) is a fault too, which may happen. So `HandlerEnds` and
`Answered` have exceptions, which are the waits of the code: a handler whose
compiler does not end, or that reads on a lost connection or from a starved
client (`HandlerStuck`); a client that is starved, or waits for a reply that is
lost or of such a compiler (`ClientStuck`); and a connection that nobody
accepts, as such handlers have all the places (`Unserved`). `RemoteCompile`
therefore promises no more than safety. Weak fairness is enough for `Accept`: a
step that waits for a place stays enabled once handlers leave, because no more
connections come than there are requests. `Barrier`, `BenchRun`, `Programs` and
`InodeCache` assume weak fairness of each process's next system call, gcc's
included, but not that anybody calls, fails, is interrupted or dies. Blocking
calls (`sem_wait`, `flock`) get no strong fairness. In `Barrier` and `BenchRun`
each semaphore is taken once by each process, so the competition ends. In
`InodeCache` `Quiesces` is stated for behaviours in which operations stop
beginning; under a continuing stream of readers a writer may wait for ever, as
`flock` promises nothing else. `ThunderingHerd` assumes weak fairness of each
thread, and no spurious wakeup: a mutex that is free goes to somebody. A thread
may lose it to the others as long as they have items to pass on, of which there
are finitely many. Spurious wakeups that go on for ever may keep the mutex
busy, so `Returns` leaves those behaviours out. `FieldStream` assumes weak
fairness of both processes, not of the writers of the file nor of a death.
`WrapCompiler` has no liveness: each client runs to its end by itself, or waits
in the session.

## 6. Proofs

**Sessions.** `IInv` (in `CompileSessionInv`) is inductive for every number of
requests, arguments and chunks, every buffer size and every number of handlers.
It is needed because `Aligned` says nothing about messages not yet at the head
of a stream. Its heart is `UpStream` and `DownStream`: what is in flight is
exactly the stretch of the request, or reply, between the position of the
reader and that of the writer, where both positions follow from where each side
is in its code (`SRead`, `CRead`, `ClientAt`, `HandlerAt`). `FileOf` and
`OwnerOf` tie each `.ii` file to one request, `ObjectOf` says nobody touches
the object of a handler that is alone with its name, `Told` what the client
knows and holds. The proof has a lemma for each group of actions and each part
of the invariant, since a step of `r` moves only `r`'s part of most variables;
the two that share state (`Cleanup`, the draw of names) are treated for the
other requests separately. A cut connection keeps a beginning of its streams
(`Arrived`), which is still such a stretch. `ObjectHeld` says that what has an
object's name is held by a handler that has yet to remove it, or was killed.
From `Spec => []IInv` follow `TypeCorrect`, `AlwaysAligned`, `AlwaysFaithful`,
`OldObjectKept`, `FailuresHaveCauses` and `OnlyPartialUploadsLeft`.
`IsRemoteCompile` is the refinement of `RemoteCompile`: only `RunCompiler`
gives a verdict, once, only the client's own steps an outcome, and never both
at a time (`VerdictStep`, `OutcomeStep`). That the two agree is what a client
knows at each place (`Told`), since the status it has read is one the handler
sent. Assumptions: `SizesAssumption` (sizes are naturals; arguments, buffers
and places at least one) and `SentinelAssumption` (`Absent` and `Old` are no
file, name or object).

**Bytes.** `StreamInv` (in `FieldStream_proofs`) is about the bytes between the
two sides, those in the stream and those `sendall` still holds. Each is a byte
of a token, of a text or of the file (`Proper`), and has a place: its field and
its offset there. `Chain` says that the places follow one another, from where
the receiver is to where the sender is. It relates any two of them by their
distance (`Leads`), so that neither the sizes of the fields nor the bytes sent
so far are ever added up. A chain loses bytes at its front (`ChainShrinks`) and
gains bytes of one field at its end (`ChainGrows`), whatever the pieces. `Has`
says what the receiver has of its field and that it waits for the rest. The file
is what makes this more than counting: its size is promised before it is read,
so a byte of it is what the file has, or the file has been written since
(`IsFileByte`). From it follow `FieldsAreIntact` and `NothingIsLeftUnread`, for
all texts, all sizes of tokens, chunks and buffers, and any number of writes
(`SizesAssumption`).

**Barrier.** `IInv` says who can be inside the mutex and inside the turnstile,
that the count equals the number that arrived, that no loaded count is stale,
and that the turnstile is either closed, with nobody past it and the last, if
it has come, still to open it, or open for good. From it follow `CountIsExact`,
`TokensAreKept` and `IsRendezvous`, the refinement of `Rendezvous`, for every
finite non-empty set of processes (`ProcAssumption`).

**Benchmark run.** To the barrier, a step of the run is a step of one of its
processes or none (`TakesBarrierSteps`), so the barrier's `IInv` holds in the
run as well. `BenchIInv` adds that a child comes to the barrier when it has
measured and goes on only when it is through (`AtBarrier`), that one child at a
time merges and adds to the total that is there (`MergesApart`), that each
total counts the children that came to its store (`StatsExact`,
`NocacheExact`), and that the parent has forked the slots below `i` and has
counted those it waited for that did not finish (`Loops`). From it follow
`BenchTypeCorrect`, `PhasesAreApart`, `MergesAreKept` and `FailuresAreCounted`,
for any number of children (`ProcAssumption`, `SlotsAssumption`).

**The two programs.** A step of a program is one of `mkdir_p`, of the functions
that ask the compiler, of the run, or of `main`. `Path` is the invariant of the
first: what `mkdir_p` has passed is a directory, unless it has been removed,
and it holds the descriptors its place says. `Probe` is that of the second,
`Lines` being what the pipe can still bring. `BenchIInv` is that of the run.
`Main` joins them: what `main` has got from one call when it makes the next.
`main` forgets each part when it is done with it, so `Path` and `Probe` hold
only until then, and that nothing is freed twice before `main` has come to its
exit status is part of the invariant; so is what a failed call has left
(`Leaves`, `NoAnswer`), since `main` may go on after a call that read nothing.
From `MainSpec => []MainIInv` follow `MainTypeCorrect`, `MainRunsTheBench`,
`DirectoriesAreMade`, `FailuresAloneLeave`, `AnswersAreWhole`,
`DoubleFreeIsTriplets` and `SuccessIsMeasured`, for paths of any depth, pipes
of any size and compilers with any number of lines (`ProgramsAssumption`).

**Queue.** `IInv` (in `ThunderingHerd_proofs`) says that what was put is what
was taken and then what is in the queue, in order (`InOrder`); that the
producer, once it has finished, puts no more, and that whoever left saw it
finished and the queue empty (`Finishing`); and `NoLostWakeup`, which is
inductive by itself: a thread blocks only after it has seen, under the mutex,
that there is nothing to do, and whoever changes that is about to notify. From
it follow `TypeCorrect`, `WakeupsAreKept`, `WorkIsDone` and `IsWorkQueue`, the
refinement of `WorkQueue`, for every number of workers and items and every size
of the queue (`SizesAssumption`).

**Cache.** `IInv` (in `InodeCache_proofs`) says who has which lock and where he
can be with it (`Locking`), that a put in progress has written just the first
cells of its value (`OnDisk`), and that what a get has read is the beginning of
the entry (`Reading`). The lock makes each stable: whoever has it exclusively is
alone with the entry (`Alone`), and a reader has no writer beside it
(`NoWriter`), so only an operation's own step can change what the others rely
on. A get that has come to the end of the entry then has all of it, and the
entry is whole, or cut short by a put that died. From it follow `TypeCorrect`,
`GetsTheLastPut`, `EntryIsWhole` and `PutsAreStored`, for any set of processes,
values and sizes (`SizeAssumption`: a value has at least a cell, the limit is at
least two).

**Commands.** Client and server parse two commands: the client the one it is
asked, the server what `compiler_cmd` makes of it, without the options for the
preprocessor and with a `-x`. That they find the same (`SentReads`) is proved for
commands of any length. `Flattened` says where the parts of a concatenation are,
so that each argument of what is sent has one of the command it comes from
(`Layout`). An argument is skipped by a parser when it follows `-o` or `-x`, and
in what is sent the same ones do (`SentAfter`); so the server counts the file it
gets, and no other argument, for a source (`SentSources`), and its last `-o` is
the client's (`SentObject`). Induction is over the smallest counterexample
(`Smallest`). `WrapInv` carries this to the steps: from the moment a command is
rewritten, the wrapper's arguments are `RewriteLocalArgs` of it, and what is sent
is made of a command that the client understands. From it follow
`WrapTypeCorrect` and `ServerTakesItForTheSame`.

**Objects.** That a server's object is the one the compiler would have made here
compares three runs of gcc: of the command, of the preprocessor (`Prec`) and of
what the server makes of what it is sent (`ServerCmd`). `WrapOutcome_proofs` has
a notion of a command that gcc has nothing against (`Clear`: one file, and
otherwise options it knows and their operands) and shows that it carries over to
the others: options are replaced by options (`Alike`), or leave with their
operands (`Carries`), so that gcc finds the same `-S` and CPU, and the last `-x`
before the file is the same, or the one the wrapper puts there (`SentLang`). If
the command is not clear, the preprocessor fails as the compiler does
(`BadCommandFails`). So the preprocessor fails only if the compiler would have
(`PrecOutcome`), and of the file it writes the server makes what the compiler
would make of the source (`ServerOutcome`), in the exceptions' absence (`Sound`).

For the clients, that says nothing until it is known whose the files are: one
preprocesses what is there now, and the object must be that of what was there
in the beginning. `DirInv` says that a file that is not what it was is an
output (`Outputs`) of a client that has got as far as to write it, and that
what a client is to send, or has sent, is what the preprocessor makes of the
files of the beginning, or the client is `Excepted`. A client that preprocesses
has not written, so a changed file that it reads makes it one of those that
share (`ReadsInitial`); an exception is one for good (`ExceptedStays`), since
what a client may write is settled when it starts. From it follow
`FailsAsLocal`, which is `FailsOnlyIf`, and `ObjectAsLocal`. The latter is
`ObjectIsLocal` but for commands of which an input too many is sent (`Strays`:
a `-D` apart, or an unknown option taken for the source). That the server's gcc
refuses those, so that there is no object at all, is model-checked.

All of it holds for any number of clients and any directory, and for commands
of any length that satisfy four assumptions. `JoinedAssumption`: what begins
with `-D`, `-I` or `-Wp`, and goes on, is none of the other options, nor the
name of a language; `OtherAssumption`: nor are the options that the wrapper
does not know. `TempAssumption`: none of these has the name of the server's
temporary files. `CommandsAssumption`: a command can be read in one way by the
two parsers (`Unambiguous`) and by gcc (`ReadAlike`). This is needed: `-c a.c
-o -MD` has an object for the client, and none for the server, to which `-MD`
is not sent; gcc has operands that the wrapper does not know of, `-imacros -c`
for one; and an object that is named like a language after `-x` is replaced
together with it by `set_object_file`. Excluded are files that are named like
an option, `-o a.c` or `-x a.c` beside the source `a.c`, which gcc refuses, an
`-imacros` or `-MQ` of a source, and objects named `.i` or `.ii`, or as a
language, or so that their preprocessed file would have the name of an option.
TLC evaluates all four for the commands of the run.

Only model-checked: all liveness (fairness and `ENABLED` are out of the
prover's reach), which is `SessionLive` and the liveness of the other runs with
that of `Rendezvous` and `WorkQueue`; and `ObjectIsLocal` for the commands of
`Strays`. Every other invariant that a passing run checks, and the safety part of
every refinement, is a theorem.

## 7. Plan

1. Done: sessions, bytes of the protocol, barrier, benchmark and its programs,
   both caches, command lines of gcc, the queue; proofs about all of them; the
   safety part of every refinement.
2. A proof that commands of `Strays` end without an object, which makes
   `ObjectAsLocal` all of `ObjectIsLocal`.
3. The MSVC wrapper, beside `GccWrapper`.

## 8. Not modelled

MD5 is vendored bit arithmetic. The benchmarks' printing, `Perf` and logging
change no state anybody reads. `sched.py` is a library's hash ring, of which
`WrapCompiler` has the outcome: this host or a server. `config.py` and `cli.py`
read their input once, without concurrency, as does `thunderingherd`'s
`Conf::parse`. `inodecache_bench.py` and the scripts in `bin/` have no
concurrency or state of their own. The MSVC wrapper is driven by the same
`wrap_compiler`; its options are not modelled.
