# Verification of the automatic compression platform

TLA+ modules, TLC configurations and TLAPS proofs about the file server and
client in `src/`: a server that sends the files under a path, chunk by chunk,
each chunk compressed as the request asks, and a client that receives and
decompresses them. The core of the system is concurrent: a thread pool, two
threads for each request on the server, two threads in the client, and queues
and condition variables between them. Around it are the parts that these
threads share or call: the files on the server's disk, the compressors, the
performance log, the framing of messages, and the client's output files.

## 1. Inventory

| Component | State | Operations | Interacts with |
|---|---|---|---|
| `ThreadPool` (`utils/thread_pool`), `SynchronousQueue` | task queue with a mutex of its own, `done`, the pool's mutex and condition variable, the threads; per worker `task`, `dequeued`, `doneWorking` | `run`, `init`, `shutdown`, destructor, `worker` | called by the server; executes `processRequest` and `transmit` |
| `Server` (`network/server`): `init`, `serve`, `shutdown` | `doneServing`, the pool, the CPU monitor's thread, the shutdown pipe, the listening socket | accept a connection, read the pipe, shut down | submits requests; joins the pool and the monitor |
| `Server::processRequest`, `Server::transmit` | the request's locals: transmission queue, `requestDone`, mutex, condition variable; the file processor; `done` and the buffer of `transmit` | receive and parse a request, prepare a path, open files, read and compress chunks, queue messages, send them | two tasks of one pool which share locals by reference; the client, by messages |
| `Client` (`network/client`) | decompression queue, `doneReceiving`, mutex, condition variable, socket, output stream | `init`, `requestFile`, `shutdown`, destructor; `decompress` on a thread of its own | the server, by messages |
| `TCPSocket`, `Socket` | file descriptor, address | `accept`, `connect`, `send`, `receive`, `close` | the kernel; throw `NetworkError` |
| File processors, `DirectoryExplorer` | open file, bytes read, sizes; queue of directories, next file | `preparePath`, `hasNextFile`, `openNextFile`, `hasNextChunk`, `getNextChunk` | called by `processRequest`; throw `IOError`, `CompressionError` |
| Compressors: single, round robin, training, adaptive; decision tree | current compressor or level; the adaptive one's function-local statics | `compress`, `setCompressor`, `classify` | called for each chunk; read `ResourceState` |
| CPU monitor, bandwidth estimate | `ResourceState` | sample `/proc/stat`; estimate at each send | written by their threads, read by the adaptive compressor |
| `AsynchronousBuffer`, `SynchronizedFile`, `PerformanceDataWriter` | queue of buffers, `done`, the writer's thread | `overflow`, `sync`, destructor, `worker`; `write` | written to by compressors of all requests |
| Messages (protobuf) | kinds, `lastFile`, `lastChunk` | serialize, parse | between server and client |

What is hard in it, and what correctness means:

- *Thread pool.* `run` pushes and notifies without the mutex that protects the
  workers' wait. Correct: every accepted task is executed once, in order; a
  shutdown drains what was accepted before it and returns; nobody sleeps on
  after the last notification. (It does not hold that an open pool always wakes
  a worker: section 5.)
- *Server.* A request waits for a transmission queued in its own pool. Correct:
  locals are not destroyed while the transmission uses them, requests end while
  a thread is left for them and woken, and a stopped server has left nothing behind.
- *Request.* Two threads, a queue and a flag, with errors at every step and a
  connection that may break. Correct: the client gets a stream of the shape it
  parses, in order, complete when the request ends normally; the last notification
  is not lost, so the request ends.
- *Client.* A parser driven by position and by flags of earlier messages, and a
  writer thread. Correct: it returns only with whole files, loses nothing
  between its threads, and ends when the server or the connection does.
- *Transfer.* Both sides have to agree on what comes next after every error.
- *Data path.* Chunks go through a codec named in a header, a framing with
  partial reads and writes, and buffers that are swapped and resized. Correct:
  what is written is what was read; the predictors of FPC stay in step on both
  sides; the bandwidth estimate counts what left the kernel.
- *Files.* Requests walk one tree while scripts create and remove temporary
  files in it. Correct: every file is offered once, its chunks are all of it,
  and the tree is afterwards as it was.
- *Adaptive compression.* Its counters are function statics that all requests
  update without a lock. Correct (in spite of lost updates): it looks at the data
  again in time, and does not ask the tree about data it found incompressible.
- *Performance log.* Requests write lines to one file through a buffer, a queue
  and a thread; the last owner destroys it. Correct: lines are whole, in order,
  and all in the file when the destructor ends; it ends.
- *Destination directory.* Files are named by base names and decompressed by
  scripts. Correct: a file that was received is there, or its loss is logged.

`PROJECT.json` lists the components with their status, and the hazards with
the line where each bites and the properties that cover it.

## 2. Modules

| Module | What it is |
|---|---|
| `TaskPool` | abstract: what a pool of workers promises, without locks |
| `ThreadPool` | the pool's mutex, condition variable, queue and workers; implements `TaskPool` |
| `ServerRequests` | the server's life and its requests, on `TaskPool` |
| `MessageStream` | abstract: an ordered stream, no message lost or repeated, closed when all is delivered |
| `Transmission` | one request on the server: `processRequest` and `transmit`; implements `MessageStream` |
| `Client` | the client's two threads against an arbitrary server; the entries it makes are a `MessageStream` |
| `Transfer` | `Transmission` and `Client` on one connection |
| `FPCCompressor` | FPC, the one codec written in this repository, as operators |
| `Compression` | codecs, levels, the decision tree and the strategies, as operators |
| `TCPSocket` | messages over a byte stream, by partial reads and writes |
| `DataPath` | a request's data from the served file to the client's; on the two above |
| `FPCRequests` | what FPC has to do at the level that a request configures; on `DataPath` and `FPCCompressor` |
| `FileTree` | the server's names and inodes, shared by requests |
| `DirectoryExplorer` | the walk of each request over the tree |
| `FileProcessing` | the file processors, their scripts and temporary files; on the two above |
| `AppendLog` | abstract: what the performance log promises |
| `AsynchronousLog` | the writer, the buffer and its thread; implements `AppendLog` |
| `AdaptiveCompression` | the statics shared by requests that compress; extends `AsynchronousLog` |
| `ReceivedFiles` | what the client's `decompress` leaves in the destination directory |
| `MC...` | instances for TLC, one for each module that is run |
| `QueueLemmas` | what a push and a pop do to a queue without repetitions, and to the sequence of all that was pushed; what moving bytes from one sequence to the next leaves as it is |
| `ThreadPoolProofs`, `ServerRequestsProofs`, `ClientProofs`, `TransferProofs`, `DataPathProofs`, `FileProcessingProofs`, `AdaptiveCompressionProofs` | theorems and their proofs; those about `Transmission` are in `TransferProofs`, those about `AsynchronousLog` in `AdaptiveCompressionProofs`, those about `ReceivedFiles` in `ClientProofs` |

`ThreadPool` implements `TaskPool`; `ServerRequests` is built on `TaskPool`, so
it sees the pool at the level at which it has been proved. `Transfer` extends
`Transmission` and instantiates `Client`, whose stream is what the server's
socket has accepted.

Each definition that models code is in `map` of `PROJECT.json` with its lines.

### ThreadPool
One action for each step that another thread can see. A queue method is one
step, because the queue locks itself. The worker's wait is split into `Test`
(the predicate) and `Block` (release and sleep) because `run` does not take the
mutex: its push and its notification can come between the two. `Lock` is the
entry of the critical section, first and after a wake-up; `SpuriousWake` is what
`condition_variable` allows. `Pop` is `taskQueue.pop(task)`, `Check` the
assignment of `doneWorking` and the release of the mutex, `Execute` the task.
`ShutdownFlag`, `ShutdownNotify` and `ShutdownJoin` are the three parts of
`shutdown()`, which the destructor calls as well. `executed` and `promised` are
history variables. Each task is submitted once, and the pool is initialised at
most once; after a shutdown, tasks may still be submitted, as the code allows.

### ServerRequests
The main thread goes from "created" through `init` ("serving", or "failed" when
it throws after the pool has started) to the joins of the pool and the monitor.
A connection is accepted (`AcceptRequest` submits the request's task), then a
worker that has started it rejects it or submits its transmission to the same
pool (`SubmitTransmit`), prepares its messages (`Prepared`) and returns when the
transmission has finished (`RequestReturns`). `kept` is the function object
that a worker's local `task` holds on to until its next pop, and with it the
shared pointer to the client's socket. `AcceptFails` is the exception that ends
the process. A worker's `Leave` is that of `TaskPool`, which happens with
an empty hand or, for a worker that has just taken the last task, before it
executes it (a transmission has no progress of its own here, so its worker may
decide later too, which only adds behaviours). The exception that leaves `processRequest` uncaught is in
`Transmission` only.

### Transmission
`rpc` and `tpc` say where the two threads are. `processRequest` pushes and
notifies in separate steps (`PushThen`, `Notify`), opens files, skips those that
fail, reads chunks, breaks off a file on an `IOError`, clears the queue when
training, sets `requestDone` under the mutex and waits for the other task. A
message is its kind, its file and chunk number and its last-flag; of a file's
size only whether it is zero is kept. `NextChunk` lets any chunk turn out to be
the last one (a file that shrinks while it is read). `ExploreFails` is an entry
of the directory that cannot be examined: `getNextFileName` throws before it
returns, so the same file comes again. `OpenFileThrows` is the `out_of_range`
of a pre-compressing request with SNAPPY, which nothing catches. From then on
`transmit` works on destroyed objects, of which nothing can be said, so it takes
no further step.
`SetRequestDone` takes the mutex, the push of an entry does not: `WakeUpIsDue` is the
difference between a notification that cannot be lost and those that can.

### Client and Transfer
`Client` follows `requestFile` by position: an initial message, then header and
chunk in turns until a last chunk, then the next file unless this was the last.
`shutdown` closes the socket, sets `doneReceiving`, notifies and joins; it runs
at the end, before an exception, or from the destructor. `decompress` has the
shape of `transmit`. `out` says whether the output stream is open. In the run
of `Client` alone an arbitrary server sends any kinds of messages, one at a time
(a message that has not been read yet changes nothing for the client).

`Transfer` runs both sides on one connection. The server closes its end at some
time after both tasks have ended, or never, because a worker may keep the socket
(see `kept`). `SendKills` is SIGPIPE: nothing in `src/` handles it.

### DataPath
`GetNextChunk` reads at most `CHUNK` bytes, lets the request's strategy choose
(`Chosen`) and the codec succeed or throw (`Results`), and prepares header and
chunk. `Send` and `MeasureAndSend` are `transmit` with its byte count: when
10 ms have passed it publishes what has left the kernel. `WriteSome` and
`ReadSome` move any number of bytes. `ReceiveInitial`, `ReceiveHeader` and
`ReceiveChunk` are the client's; they keep the buffer's capacity, since a copy is
swapped with it and another chunk decompressed into it. `Resize` is somebody who
writes the file while it is sent. The server prepares a chunk when the messages
before it are with the socket: queues are the subject of `Transmission` and
`Client`. The kernel's buffer is the whole connection, so what is read on the
other side has left it. `source` is a history: the messages made for the client's
file and for the next ones; of them `Handled` have been dealt with, so that what is
written can be compared with what was read (`Chunk`, `Left`). `transit`, the messages
given to `send` and not yet returned by `receive`, is another. The mode "round robin"
is no request's: `configureFileProcessor` has no case for it, and only a `FileProcessor`
that is given that compressor, as in the tests, uses it.

The five library codecs restore what they compressed, fit the output buffer, or
throw. `FPCCompressor` has the program's two predictors, codes, residuals, blocks
and the lookahead at the next header, on doubles of `8 * w` bits. A chunk that is
no whole number of doubles loses its end there (`Restored`), and one without a
double cannot be decompressed. `DataPath` knows of FPC only this; that the doubles
themselves come back is `FPCRestores`, in `FPCRequests`.

### FileProcessing
Names refer to inodes, because a temporary file may be removed or emptied while
another request reads it. One step of `findNextFile` is one entry of a directory
(`DirectoryExplorer`); a directory's stream may or may not return what was
created since it was opened, and may return what is gone (`findNextFile_Throws`).
A script is a start (its output is created or emptied) and an end (it has written
all or a part, and exits with 0). `HasNextChunk` is the non-virtual function that
`processRequest` calls, which counts bytes of the compressed file against the
size of the original; `HasNextChunkOfSource` the one that hides it.
`ChunksCoverFile` says exactly when the two of them send a whole file.
A directory's base name stands for its whole path, so it has one of its own, and
directories may be below each other to any depth. `walked` and `skipped` are
histories of the walk: directories read to their end, and those that could not be
opened. `OfferedOnce` speaks of what is `Reached` without the latter.

### AsynchronousLog and AdaptiveCompression
`Lock`, `Sync` and `Notify` are the writer inside `writingMutex`: a line longer
than the put area reaches the queue in several pieces. `WorkerLock` is the
worker under the queue's mutex, `WorkerWrite` its write without it.
`Release` of the last owner starts the destructor.

In `AdaptiveCompression` an update `x -= inData.getSize()` of a static is a load and
a store, where the load may be that of the test before it (`Lowered`). Windows and
chunks are counted in bytes, and a chunk has any size up to `CHUNK` (`Sizes`), chosen
where it is subtracted: the last chunk of a file, and so every small file, lowers a
window by less than a full one. `since`, `torn` and `overlap` are histories of the last
examination: how many bytes ago it was, whether an
update was lost since or the examiner had found a window of copies closed that
another request has opened meanwhile (it opens it once more, in full), and whether
it overlapped another request's decision.
Any chunk may count high, as concurrent counts share one array and a chunk of
less than 2560 bytes always does.

### ReceivedFiles
One thread, so one action for each entry: `CreateFile`, `StoreChunk`, `CloseFile`,
and `decompressFile` with its scripts, which remove their input and exit with 0
whatever they did. `LostOrReported` lists the four ways to lose a file without a
line in the log. The directory is empty at first; a client makes one request.
No run is about it: `LostOrReported` is proved, for any files and any number of
pieces (section 6).

## 3. Runs

| Run | Instance | Shows |
|---|---|---|
| `MCThreadPool_shutdown` | 2 workers, 2 tasks | conservation, draining, no sleep after the last notification, refinement of `TaskPool`; shutdown returns, and an awake worker drains the queue |
| `MCThreadPool_wakeup` | 1 worker, 2 tasks | violation: the lost wake-up |
| `MCTransmission_request` | 2 files, 2 chunks, 1 entry that fails, every mode | the stream's shape, the last wake-up is not lost, refinement of `MessageStream`, the request ends |
| `MCServerRequests_roomy` | 3 workers, 2 connections | requests end unless a wake-up was lost, quiet shutdowns end, a stopped server leaves nothing |
| `MCServerRequests_starved` | 2 workers, 2 connections | violation: all threads wait for a thread, without any lost wake-up |
| `MCServerRequests_stop` | 2 workers, 1 connection | violation: a shutdown that never ends |
| `MCClient_stream` | any 5 messages | whole files, no overlap, refinement, the client ends |
| `MCTransfer_whole` | 2 files of at most 1 chunk | both sides in step, complete transfers, when a client is left waiting, when the server is killed |
| `MCTransfer_empty` | 1 file of at most 1 chunk | violation: an empty file |
| `MCDataPath_wire` | 2 files of 0, 3 or 8 bytes, chunks of 4, 8 requests | what is written is what was read; FPC restores its doubles; the estimate counts what left |
| `MCFileProcessing_shared` | 2 requests on 2 files in 2 directories | files offered once, chunks cover the file, the tree restored |
| `MCAdaptiveCompression_requests` | 2 requests, 5 chunks of 0 to 2 bytes, windows of 2 bytes, the server, lines of at most 2 pieces | whole lines, refinement of `AppendLog`, windows in time, the log closes |

*Deadlock* is not checked: every one of these systems stops when its work is
done, and a client that waits for a message that never comes is a state the
code has, which `LeftWaiting` and `EmptyFileEnds` are about.

*Bounds.* Two workers are the least that can race for the mutex, wake in place
of one another and leave at different times; the theorems hold for any number.
Two files are the least that have a file that is not the last, two
chunks the least that have a first and a last chunk that differ; three would
repeat the same steps. Five messages are two files without a chunk in the
second one, or any mixture of wrong messages; two whole files (six messages)
are in `MCTransfer_whole`. With three workers and two connections one request
may always run next to its transmission; with two and two the pool can be
exhausted. `MCTransfer_whole` leaves out "snappy", whose undefined behaviour
after the exception ends what can be said about the server, and directories'
failing entries, which `MCTransmission_request` has.

In `MCDataPath_wire` a byte of a double is one bit wide and a double in the chunks
two bytes long; codes are lengths in bytes, so every code, and 4 standing for 5,
occurs. Blocks of 2 doubles and inputs of up to 5 have full, odd and empty last
blocks. A chunk of 4 bytes and files of 3 and 8 that become shorter or longer give
short, full and empty last chunks, and an FPC chunk without a double behind a full one
(a file of 8 that is cut after its first chunk); a kernel buffer of 2 bytes splits every
prefix and message. The request list has every mode, and levels that are the
default, the end of a range, out of it and ignored; `Turns` starts the round robin
one before its end. The modulus 1024 lets the estimate wrap as `size_t` does.
In `MCFileProcessing_shared` sizes 0 to 3 with chunks of 2 and a tool that halves
and one that adds a header make the compressed file shorter, equal and longer
than the original, with a short, full and missing last chunk; `MaxExtensions` = 1
keeps a temporary file that another request was given from being compressed once
more (it may only fail), and 8 inodes are as many as two requests can use. `Words`
are the names' words there are in that tree. The
bounds of `MCAdaptiveCompression_requests` let a window that a full chunk or two short
ones use up open, end and be opened again while the other request is at any place in
it; `CHUNKS` is what the two requests read together, in any shares. (The program's
windows are 8 full chunks long, which only makes the way to their ends longer.)

*No symmetry* is used: most runs check liveness, and the others distinguish their
requests.

Each property of a passing run has a mutant, an operator `<Definition>_<What>`
next to the definition it varies: a dropped guard, a missing notification, a
swapped order. With the mutant in place of the definition the property fails.

## 4. Fairness

Threads that are started keep running (`WF` of each thread's next step), and a
thread that finds a mutex free again and again gets it (`SF` of the step that
takes it: `Lock` of a worker, `SetRequestDone`, `SetDoneReceiving`), which is
what the operating system's scheduler and its mutexes give. Tasks end. Nothing
makes a caller submit a task, a client connect, a shutdown begin, a failure or a
spurious wake-up happen, or a server close a socket.

For the log, its worker and its destructor keep running; nothing makes a request
write or let go. `DataPath`, `FileProcessing` and `ReceivedFiles` state no
fairness and no liveness.

In `ServerRequests` a worker that has a task goes on with it, and once the pool is
closing a worker takes a task or leaves (`GoesOn`): the flag is set under the mutex
and followed by `notify_all`, which is not lost (`NoSleepAfterDone`). Nothing makes a
worker take a task of an open pool, since the notification of `run` may be lost
(`OpenPoolRunsTasks`). So `EveryRequestEnds` and `RequestsAreServed` leave out the
behaviours in which a task waits for ever beside a worker without one (`Overslept`).
The first one says that with a thread to spare this is all that keeps a request from
ending. The violation of the second one is no such behaviour: there every worker has
a task. `WF` of a worker's step also covers clients that send their request: a client
that connects and never sends keeps its worker forever, by design of `receive`.

## 5. What the code does that it says it does not

- **A wake-up can be lost** (`OpenPoolRunsTasks`). `run` pushes and notifies
  without the mutex: when both come after a worker has found the queue empty
  and before it sleeps, the task waits for the next `run`, the shutdown, or a
  spurious wake-up. `AwakeWorkerDrains` says what is left: a worker that is
  awake empties the queue.
- **The pool can be exhausted by requests** (`RequestsAreServed`). `serve` hands
  the request pool to `processRequest` as its transmission pool; the member
  `transmissionThreadPool` is never initialised. With a thread to spare only a lost
  wake-up keeps a request from ending (`EveryRequestEnds`).
- **A shutdown can hang** (`ShutdownEnds`) when it finds a request that has not
  submitted its transmission yet. `QuietShutdownEnds` says when it does not.
- **An empty file hangs the client** (`EmptyFileEnds`), and so does a file cut
  short by a read error, an empty directory, and a rejected request, whose error
  message is queued before there is a task to send it. `LeftWaiting` says that
  these are all the ways a client is left waiting on a working connection.

Three more, of which the last two are exceptions of a property that holds:

- An exception can leave a request that is being transmitted: `PRE_COMPRESS` with
  SNAPPY is accepted, and `compressorScripts.at()` throws `out_of_range` past the
  handlers, under the running transmission, whose locals it destroys (`OpenFileThrows`
  of `Transmission`; no property speaks of it, as the code's behaviour is undefined
  from there).
- Some chunks cannot be decompressed: FPC makes a stream without a value of fewer
  than 8 bytes, and the client writes the chunk before once more. When such a chunk is
  the last one of a file that was cut meanwhile, what is written may have the size that
  was announced, and the client does not report the file (`FilesRestored`).
- Files of one name replace one another, as the client drops directories
  (`LostOrReported`).

`FilesRestored`, `ChunksCoverFile`, `TreeRestored`, `OfferedOnce`,
`ExaminedInTime`, `DecidedOnCompressible`, `EstimateDrained` and `LostOrReported`
hold with more exceptions that each of them names: FPC drops the last `size mod 8`
bytes of a chunk, so that a file is reported as corrupted; the copy of nothing,
read from a file that was cut at a chunk's end, is an empty message, which
`receive` takes for an orderly shutdown; a pre-compressed file that is longer than
the original is cut, and one that ends on a full chunk below the original's size
has no last chunk; an original that is named like another one's compressed file is
overwritten and removed; the estimate leaves out the prefixes and wraps when fewer
bytes left than those.

`WritesOnlyChunks` and `KilledOnlyAfterErrors` state exceptions the code has: a
training's first error message may be decompressed as a chunk, and a client that
gave up (or a training's) can kill the server by SIGPIPE.

## 6. Proofs

TLAPS checks these for every value of the constants: any number of workers, tasks,
connections, files, chunks, errors, messages, requests, lines and pieces, and windows
and chunks of any size. The assumptions say that `None` is not one of the values it stands beside
(`PoolAssumption`, `ServerAssumption`, `MessageAssumption`, `EntryAssumption`,
`LogAssumption`), that there is a worker, that a line has at least one piece, and
that there are finitely many requests and at least one, and windows and chunks of at
least a byte (`CompressionAssumption`).
`SocketAssumption` asks for a base of at least 2 and a kernel buffer of at least a byte,
`CodecAssumption` for codecs that make no empty chunk, and `DataAssumption` for a chunk
that is a whole number of doubles, as 64 KiB and 512 KiB are, an output buffer that
holds a chunk and whose size fits a prefix, and requests of the modes there are.
`TreeAssumption` says of the server's directories that none has the name of another
or is below itself, and `FileAssumption` that there are finitely many files, inodes
for them, and that no file is named like a directory; chunks have at least one byte.
The theorem about the client's files is for every set of files whose names'
extensions can be counted (`NamesCounted`), every mode and every number of pieces.

*ThreadPoolProofs.* `Typing`, `Conservation`, `Draining`, `NoSleep` and
`Refinement` follow from one inductive invariant, `PoolInv`. None of the
properties is inductive by itself. Conservation needs that the queue has no
repetitions and that a worker holds a task only between `Pop` and the end of
`Execute`. Draining needs that a worker that has exited, or will exit after its
task, saw an empty queue after `done` was set, so that what was promised is in
another worker's hand or executed. `NoSleep` needs that after `done` no worker
that holds the mutex can be about to block, which is where setting the flag
under the mutex counts: with the mutant `ShutdownFlag_NoMutex` it fails. The
refinement maps the queue to `pending`, the tasks in hand to `hand`, the workers
that have decided to leave to `leaving`, and every lock, wait and notification
to a stutter.

*ServerRequestsProofs.* `ServerInv` ties each connection's progress to the
places of its two tasks. `RequestOutlives` follows since a connection whose
transmission waits or runs is in a state in which its request is in a worker's
hand. `StopLeaves` rests on `PoolJoinedPreserves`: when the pool's shutdown
began nobody accepts any more, so its promise covers every request; when it
returns they have all finished, so no transmission can be waiting, and every
worker has left and dropped its function object.

*TransferProofs, about Transmission.* `ThreadsInv` is about the two threads: when
`processRequest` has set `requestDone` it pushes nothing more, and `transmit` ends only
after that with an empty queue, or when a send failed. It also says who holds the mutex:
`requestDone` is set under it, so never between `transmit`'s predicate and its sleep,
and `LastWakeUp` follows. `Refinement` of `MessageStream` maps the queue to what is
pending, the buffer to what is in hand, and every lock, wait and notification to a
stutter. `StreamWellFormed` speaks of what was sent, but a message is pushed long before
it is sent, by the other thread. So `StreamInv` speaks of `Made`, which is everything
sent, in hand and queued: it has the shape of a stream (`Shaped`), and its last message
is one that the place of `processRequest` may follow (`DueInv`). A training request that
clears the queue cuts `Made`, which leaves a prefix; a failed send loses the message in
hand, after which the invariant only keeps what was sent.

*ClientProofs.* Here the server is any. `EntriesInv` ties the parser's place to the
last entry it made (`ParserInv`), says that a file's entry is where a file is due
and nowhere else (`FilesAlternate`), and that only a file announced as not the last
is followed by one (`FilesGoOn`). `FilesDoNotOverlap` is about the other thread: it
deals with the entries in their order, so its stream is open only within a file
(`OutputInv`). `ReturnsWholeFiles` needs besides that `decompress` ends only when
nothing is left (`WriterInv`).

*TransferProofs, about Transfer.* A transfer's server is a request (`TransferIsRequest`), so what is
proved of `Transmission` holds here. `ServerInv` adds what the stream says at the end:
every file begun is in it or there is an error (`FilesMade`), nothing follows the last
chunk of the file announced as the last (`Closing`), and a training ends with two
errors (`ErrorsMade`). `ClientInv` relates the parser to what was sent, not to what
it made of it: a chunk is due exactly after a header. `InStep`, `CompleteTransfer`,
`LeftWaiting`, `KilledOnlyAfterErrors` and `WritesOnlyChunks` follow from the two.

*FileProcessingProofs.* `TreeIsRestored` rests on four parts (`TreeInv`). Who deals with
a file was given it (`BusyInv`), so what it overwrites and removes is `Overwritten`.
What a script writes has no name but that of its compressed file (`OutputInv`): the
inode is new or had that name. So
a file that is not overwritten keeps its name and size (`OriginalsKept`), and a name
that is none of the first ones belongs to a request that is sending that file or did
not deliver it (`TemporaryInv`). For `ChunksCover` an open file that nobody disturbed has the
size that was taken (`SourceInv`, `SizeInv`), what was read is a multiple of a chunk
until the last one (`ReadInv`), and the division lemmas `LastChunk` and `ShortChunk`
say at which chunk the loop's two conditions stop. `EveryFileIsOffered`
needs to know where a walk is (`WalkInv`). A directory is entered when its entry is
returned and none twice (`DirectoriesInv`), because the one that was asked for is
not below itself (`NewDirectory`). Whatever lasts in a directory is in its stream's
buffer, although others create and remove entries (`BufferInv`), so at the end of the
stream it was returned (`AllReturned`). A file that was passed is the next one or was
offered, not both (`FilesInv`): that is what an exception in the middle of
`getNextFileName`, which keeps `nextFile`, must not disturb. When no directory is left
those that were walked contain the one asked for and are closed under what is below,
so they have all that is `Reached` (`AllWalked`).

*AdaptiveCompressionProofs.* `LogInv` is inductive: the mutex is held by exactly the
user inside `write`; who writes holds the log, and a log that is held is not
being destroyed; and the worker decides to end only after `done`, with an empty
queue. That is why nothing can be pushed behind its back, and the last of it is
what `Refinement` rests on when the log closes: `stored = given`. Every push maps
to `Give`, a write of one piece to `Store`, the join to `Close`, and everything
else to a stutter. `WholeLines` needs `EndInv` besides: what was pushed last is the
piece before the one that is due, or the end of a line. Requests that compress use
the log so (`SharedLog`). The statics they share are another matter, as every update
is a load and a store of which others lose theirs. `BoundsInv` bounds each counter by
the chunks of the requests there are, all of which may be about to lower it, by a full
chunk at most. `OverlapInv` says
that while no examination overlapped a decision, one request at most examines, and
none decides after a high count. `WindowInv` is the measure: unless an update was
lost, the bytes since the last examination and those its window still allows come
to at most a window and one chunk of each other request, however long each chunk
is: what a short one adds to the first it takes from the second. Losing an update or opening
a window twice is where that breaks, and why `ExaminedInTime` names both.

*DataPathProofs.* Bytes are cut anywhere, so nothing can be said of a single read or
write. `ConnectionInv` speaks of all bytes on their way at once: what was read of the
message that arrives, what the kernel holds and what is not written yet are, one behind
the other, the frames of the messages in `transit` (`FramesInv`). Writing and reading
only move the borders between the three (`MovedBytes`), so when a loop has no bytes
left to read, it has the first message's prefix or that message (`WholeMessage`), and
the prefix gives its length (`PrefixLemma`). `EstimateDrained` needs `EstimateInv`, its
form while a message is half sent. `PathInv` relates the two ends without a history of
what was served: each message that was made fits the two before it (`Shaped`: who made
the chunk behind a header, where its piece begins), those that wait and those on their
way are the last of them (`PendingInv`), and the client's place is behind the others
(`ClientInv`). That a chunk always fits the client's buffer, although a copy is swapped
with it, is `BufferInv`: only a file's last chunk may be shorter than `CHUNK`, and the
buffer is resized before the next file. `FilesRestored` is `WrittenInv` with what the
connection returns.

*ClientProofs, about ReceivedFiles.* `Received` rests on an invariant about the file under way:
its content has as many pieces as were received, or its opening was reported, or a
write failed (`CurrentInv`); and, once it waits to be decompressed, it is known to
be short if it is. Files before it stay accounted for because a step changes
contents only under the names of the current file, and a file that has one of
those names is `Overwritten` from then on (`KeepsBefore`).

Model-checked only:

- all liveness, which is outside the prover's reach, as is `ENABLED`;
- `FPCRestores`: what FPC's predictors and codes make of a sequence of doubles is a
  recursion over data with operations on bits, and no theorem can be in a module that
  reaches those.

## 7. Not modelled

- The compression libraries and what is in a file: data without control.
- Text: of log lines and exceptions, the options of the executables, the file of
  the decision tree (the tree itself is a constant of `Compression`).
- The CPU load, which is computed in floating point: the tree is asked about any
  load. That the load's level could be out of range is listed as a hazard.
- That requests overwrite one another's bandwidth estimate, and that the end of a
  transmission stores 0 over it: the tree is asked with the estimate of one request
  in `DataPath`, and any decision is possible in `AdaptiveCompression`.
- Links and special files in a walk; a name longer than 999 characters, of which
  the client's `strncpy` makes an unterminated string; an empty destination
  directory, whose `back()` is undefined.
- The bandwidth modulator and `estimateBandwidth`, which nothing calls; a second
  `init()` of a pool or a client, which no caller makes.
- Executables, scripts and studies around the library.

## 8. Plan

Done: the modules of section 2 and the proofs of section 6, which state every invariant
and every action property of the runs that pass, but for `FPCRestores`. Left: the
bandwidth estimate that requests share, composed with `AdaptiveCompression`.
