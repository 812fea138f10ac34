# A model of glove_cpp

TLA+ modules for the program in `src/`: GloVe word vectors in C++ (`src/src/glove`), and two small
reactor servers that answer requests for word vectors (`src/src/server`, `src/src/server_pop`).
Line numbers below are those of the files under `src/src/`.

## 1. The system

### Components

| component | state | operations | interacts with |
|---|---|---|---|
| Vocabulary (`glove/vocabulary.cpp`) | `freq`, `atoi`, `itoa` | `build`, `add`, `load`, `operator[]` | read by CoMat::lookup, written out by Train::to_txt |
| CoMat::build (`glove/cooccur.cpp`) | the input stream, `center`, `id`, `exists`, the window `ids`/`flags`, the list `low_cooccur`, `fidCounter`, the files `temp.bin_<n>` | one pass over the corpus; `lookup`, `sliding_window`, `write_chunk` | adds to the dense table, leaves files for the merge |
| dense table (`CoMat::initParas`, `write_high_cooccur`) | `index`, `bigram_table`, `high_cooccur` | layout, add, list | CoMat::build |
| merge (`CoMat::merge_files`, `glove/priority_queue.cpp`) | one stream per file, the heap, `old`, `_new`, `nums` | fill, pop, refill, write | reads `temp.bin_<n>`, writes `log/cooccur.bin` |
| Train (`glove/train.cpp`) | `threadInfo`, the threads, `partial_loss`, the matrices `W1`, `W2`, `GW1`, `GW2`, the biases | `threadCount`, `train`, `single_thread` | reads `log/cooccur.bin`; the threads share the matrices |
| model files (`glove/glove.cpp`, `glove/train.cpp`, `Data` of both servers) | `log/wordvec.txt`, `log/wordvec.txt.meta`, `log/vocab.txt`; `vocab.txt`, which only `load` reads | `to_txt`, `load_model`, `Vocabulary::load`, `Data::init`; `most_similary`, `getTop` | written by one process, read by others at any time |
| matrices, vectors, arguments, timer, trace, Python binding | - | arithmetic, parsing, printing, declarations | - |
| server: `EventLoop`, `EPoller`, `Channel` | the epoll set, the map of channels, `events_`/`index_` of a channel, `restWork` | `loop`, `poll`, `updateChannel`, `removeChannel`, `queueInLoop`, `doRest` | one loop per thread; the acceptor's thread calls into the others |
| server: `TcpServer`, `TcpConnection` | the map of connections, the two buffers | `newConnection`, `connectEstablished`, `handleRead/Write/Close`, `connectDestroyed`, `send`, `shutdown` | the callbacks of `main.cpp` |
| server: `Task`, `EventLoopThreadPool` | `loop_`, `loops_`, `next_` | `startLoop`, `getNextLoop` | starts the loops |
| server: `Buffer`, `Data` | `begin`, `end`, `capacity`; the word vectors | `append`, `readAll`, `readFd`; a lookup | connections |
| server_pop: `Epoller`, `Handler`, `Server`, `MyServer`, `HttpParse`, `Buffer` | the epoll set, `handlerMap`, the buffers and callbacks of a handler, `words` | `accept`, `read`, `write`, `parse`, `sendFd` | one thread |
| server_pop: `threadPool` (two editions) | a queue of tasks, a mutex, a condition variable; `stop_` in the earlier one | `append`, `add`, the worker loop; the destructor | created by the event loop, given no work |

The program runs as a pipeline: the vocabulary is built, `CoMat::build` counts and merges,
`Train::train` learns, `to_txt` writes the vectors; a server loads them. Within the pipeline the
steps are sequential and communicate through files; the only threads are those of `Train`, those of
`server` and those of the pool of `server_pop`.

### What is hard about it

* *Agreement of code written apart*: the row lengths of `initParas` and the test in `build`; the
  end of the region of a thread and the beginning of the next; the reader and the writer of the
  temporary files.
* *Streams*: reads that fail and leave the variables as they were, `eof()` asked before or after
  the read, several streams open on one file.
* *A hand-written heap* whose size shrinks exactly when a file ends.
* *Threads*: the regions and epochs of training, the unsynchronised updates of the parameters;
  the acceptor's thread reaching into the loops of the other threads.
* *Condition variables*: notifications outside the mutex, and one, at the end, without it.
* *Sockets*: short writes, requests in several segments, closing, descriptors that are used again,
  events collected before they are handled.
* *Files of another process*: read while they are written, and paired line by line.
* *Widths*: `int` for file lengths and for `max_product`.

`PROJECT.json` lists these hazards at their lines.

### Properties that make each part correct

* dense table: every frequent pair has a cell, no two share one, none lies outside the vector; the
  list that is written has each non-zero counter once, in order.
* build: what the table, the list and the files hold is exactly the weight of the pairs read so
  far; memory stays bounded; the files are faithful; the build ends.
* merge: a k-way merge; no weight is lost; no file is forgotten; the result is strictly sorted.
* training: each record once per epoch, epochs apart, the loss that of the epoch; training ends.
* server: a channel is used by one thread and registered when it should be; a connection is
  destroyed once, and nothing leads to it afterwards; a reply is whole before its socket is shut;
  queued work is done before the loop sleeps; what is asked is answered, what is closed is
  destroyed; the loops are complete when the connections come.
* parameters: whatever is lost to a race is lost to an update of the same row in the same epoch, and
  no step is divided by an empty sum.
* vocabulary: ids without a gap, in the order of frequency; only what is too rare, or beyond the
  limit, is left out.
* model files: a server has whole vectors under the right words; what loading makes of the files.
* nearest words: as many as asked for, the best first.
* server_pop: a handler lives as long as its events; a reply has the vectors of its request, in order,
  whatever writes fail; everyone is served.
* pool of tasks: each task once, in order; no notification lost; nothing half done at the end.

## 2. The modules

| module | models | |
|---|---|---|
| `PairCounts` | what the dense table promises | abstract specification |
| `HighPairs` | which pairs are frequent | operators |
| `BigramTable` | the dense table | implements `PairCounts` |
| `CoRecords` | records of the matrix and their order (`declare.h`) | operators |
| `CoMat` | `CoMat::build`, on top of `PairCounts` | |
| `CoBuild` | the constructor's layout, `build` and the listing, as one program | composes `CoMat` and `BigramTable` |
| `KWayMerge` | what `merge_files` promises | abstract specification |
| `MergeFiles` | `merge_files` and the heap, comparison by comparison | implements `KWayMerge` |
| `Train` | `threadCount`, `train`, `single_thread` | |
| `ThreadPool` | `Task::startLoop`, `EventLoopThreadPool` | |
| `TcpServer` | acceptor, loops, pollers, channels and connections of `server`, with the callbacks of `main.cpp` | extends `ThreadPool` |
| `Hogwild` | the updates of the parameters in `single_thread`, one load or store at a time | |
| `Vocabulary` | `Vocabulary::build`, `add` | |
| `TopWords` | `most_similary`, `getTop` | extends `Vocabulary` |
| `ModelFiles` | `Glove::train`, `load`, `to_txt`, `load_model`, `Data::init` | extends `TopWords` |
| `Buffer` | the buffer of `server` | used by `TcpServer` |
| `PopBuffer` | the buffer of `server_pop` | used by `Reactor` |
| `WordService` | what a server of word vectors promises | abstract specification |
| `Reactor` | the loop, poller, handlers, parser and replies of `server_pop` | implements `WordService` |
| `TaskPool` | both editions of `threadPool` | |
| `BigramTable_proofs`, `CoMat_proofs`, `Train_proofs`, `Hogwild_proofs`, `ModelFiles_proofs`, `TcpServer_proofs`, `Reactor_proofs`, `TaskPool_proofs` | theorems | |
| `MC*` | constants for TLC | |

**BigramTable.** One action per iteration of the loops of `initParas` (`LayRow`, `AllocTable`) and
of `write_high_cooccur` (`StartScan`, `ScanCell`, `ScanRow`, `EndScan`); `AddHigh` is the branch of
`build` for frequent pairs. By itself the module allows additions of any weight to any frequent pair;
`CoBuild` says which are made. `max_product` is a constant: `initParas` computes it in floating point,
and nothing in the table depends on how. It is assumed to fit an unsigned int.

**CoMat.** `FlushChunk`, `ReadCenter`, `PairContext`, `Slide`, `WriteRest`, `WriteHigh` are the pieces
of `build`, in its order. The corpus is one line: a sequence of words, each an id or `Oov`, and whether
white space follows the last, which decides whether the last word is a center twice. Corpora of several
lines are left out: the comment at `cooccur.cpp:233` says that a line break separates contexts, the test
for it in `sliding_window` looks at the member `input`, which is never opened (line 236), and so the
code counts pairs across lines. Nothing is claimed of such corpora. Weights are integers, `Unit` for
1.0. A file is the list of its records, and the file `temp.bin_0` is written by the three streams the
code opens on it. The table is used through `PairCounts`. `Orders` are the orders that the stable sort
of `write_chunk` may be given as (there is one), and `Chunk` is what it makes of a list in such an
order; `back()` of the list it has just emptied is undefined in C++, and `Chunk` takes the last record
that was written, as the library in use does.

**CoBuild.** The two joined as in the code: `Prepare` is the constructor's layout, `PairHigh` one step
that adds to the cell and to the counter, `Scan` the walk of `write_high_cooccur` over the rows and
`WriteTable` its end, where the list goes to a file. The counters of `CoMat` are what the pass over
the corpus counted, the vector what the program stores, and `ListedIsCounted` relates them.

**MergeFiles.** A step is a read, a pop or one comparison of the heap: `place` is where the heap is
being repaired (the `j` of `priority_queue`), `phase` what the loop does next. The records keep the
number of their file; `_new` and `old` start with whatever was on the stack (`Garbage`), and failed reads
leave `_new` alone. `Live` tells which places of the heap hold a record that was not taken: the
code has no variable for it, it is `nums` or one less, depending on where it stands.

**Train.** The main thread starts (`Spawn`) and joins (`Join`) the threads and ends the epoch;
a thread opens the file and seeks (`Begin`), and reads and uses a record per round (`ReadRecord`,
`ReadPastEnd`). Offsets are counted in records; `Size` wraps as the `int` of `untils::size` does.
The number of records is read once and is a variable, so that one run has files of several kinds.

**ThreadPool.** The thread of main creates a thread (`StartTask`), tests `loop_` under the mutex
and waits (`CheckLoop`); the new thread sets `loop_` and notifies (`Handover`). A wait may also end
by itself (`SpuriousWake`).

**TcpServer.** Three kinds of actors: the clients with the kernel's part of their sockets (`sock`,
`epoll`), the thread of main, and a thread per loop. `Accept` is everything from `accept` up to
`updateChannel`'s use of the map of the other thread's poller, `Establish` the use itself and the
registration: between the two the thread of main is inside that map, and if the loop is in
`removeChannel` at that time the map ends up with any content, or the process ends
(`RemoveChannel`, `MapCrash`). A loop polls (`Poll`: every ready descriptor, in any order), handles
the read and then the write branch of each channel, and runs `restWork` after having swapped it
out. `handleRead` and all it calls is one action per outcome (`ReadAndSend`, `ReadAndAppend`,
`ReadEnd`, and the two that end the process, `ReadAndDie`, `ReadError`). `connectDestroyed` is
`DisableAgain`, which registers the channel again because its index says it is deleted, and
`RemoveChannel`. Data are counted: a request is what one read returns, a reply is `ReplyLen` units,
a send buffer holds `Capacity`. The end of the process (`died`) is a state like any other: an
assertion, `exit` or SIGPIPE, always named by its cause. Descriptors are never closed by the code,
so a connection is its client. What a connection has still to send is in its `Buffer`, of which the
indices and the capacity are followed (`Exp` stands for the 4096 of `exp_`). `accept` may fail with
an error that ends the process (`AcceptFails`). Left out: the number of descriptors, the wake-up
descriptor (nothing writes to it), the hang-up branch of `handleEvent` (unreachable, by
`ChannelRegistration`).

**Hogwild.** `addVectorToRow` and `operator[] +=` are a load and a store of a row (`Load`, `Store`);
`single_thread` makes them for eight arrays in the order of `Steps`, and reads the row it divides by
(`ReadDivisor`) between the addition to a sum of squares and the update of a parameter. A cell holds
the set of the gradients, each an epoch and a record, that its value has taken in: a lost update is
a gradient that is missing. All columns of a row behave alike and are one; a `double` is loaded and
stored as a whole on the machines the program is built for.

**Vocabulary, TopWords, ModelFiles.** One process trains, saves, then either answers queries or loads;
other processes start a server at any time. The variable `stage` is where the first stands. The corpus
is the number of occurrences of each spelling, some of which differ in case only (`Lower`). Words of
equal frequency are sorted in any order. A word that was read has a letter at least; `EmptyWord` is what
a failed read leaves in a string that was empty. `Numbers` are the numbers of `wordvec.txt`, one after
the other, as `Data::init` and `load_model` read them. A row of `W1` is what training left in it, the
pairs (word, column): arithmetic does not matter to where a value ends up. `to_txt` is taken apart cell
by cell (`WriteCell`), as is `Data::init` (`ReadWord`, `ReadVector`), so that they interleave; the
files' buffers are flushed at any time before they are closed (`VectorsWritten` opens the next file only
when all is written). `to_txt` writes `log/vocab.txt` (`train.cpp:148`), but `Vocabulary::load` opens
`vocab.txt` and asserts that it exists (`vocabulary.cpp:111-112`), in the same working directory, for
`threadCount` needs `log/cooccur.bin` there (`train.cpp:159`). No code writes `vocab.txt`: `LoadAborts`
is the assertion, and `StartLoad` needs a copy of the words that somebody made by hand (`CopyWords`,
external). `load` is one step per iteration, with the line that is skipped and the word that is read
behind it. `LoadModel` keeps what `load_model` would write beyond the matrix at the end of the data; no
property is claimed there. A query gives every word any weight, an order with ties, and `getTop` works
on it element by element. NaN, which compares with nothing, is not modelled.

**Reactor, PopBuffer.** One action per system call of the loop, with the code up to the next call:
`Poll` collects the handlers of the ready descriptors, in any order; `NewConn`, `ReadRequest`,
`SendSome` handle one. `handlerMap` and `epoll` hold identities of handlers, so that a pointer to one
that was freed would be seen. Descriptors are the lowest free ones, as the kernel gives them, and are
used again. A request is a sequence of tokens (a header line, the empty line, spaces, words) and arrives
in segments. Each handler has an output buffer of its own, as in `Handler.h`, while `words`, a member of
the one parser, is shared by all. `Parsed` gives the words that `parse` finds in what one read returns,
each at the place where it ends. `Words` are the words of the vector file. `sendFd` is one `write` per
step, and a failed one (`SendFails`) moves the pointer back and the count up, as the unsigned arithmetic
does; what lies before the buffer is `"stray"`. `accept` fails for want of descriptors only.
`WordService` is the promise that the refinement keeps: a question is what was parsed, a reply is what
was sent up to the close.

**TaskPool.** A worker's step is one access to what other threads may change. `edition` says which of
the two pools a behaviour is about: they share everything but `stop_` and the destructor. `Check` and
`Sleep` are the predicate of `wait` and the wait: between them a notification finds nobody.
Waits end by themselves too (`SpuriousWake`).

## 3. The runs

| run | shows | bounds |
|---|---|---|
| `build` | `HighCellsInBounds`, `HighCellsDistinct`, `ImplementsPairCounts`, `GatheredIsExpected`, `FilesFaithful`, `ListedIsCounted`; `BuildEnds` | `MaxProduct` 4 and three words: rows of lengths 3, 2, 1, so that full, cut and minimal rows occur, and infrequent pairs; every line of up to four words over the ids and `Oov`, and those of five over the most frequent word, the rarest and `Oov`; window 2, so that words leave it; a list of two, so that it is flushed within and between words. `MaxFid` and `MaxWeight` are above what such lines can reach. 33,949 states |
| `merge` | `OneEntryPerFile`, `WeightConserved`, `ImplementsKWayMerge` | three files of one or two records over three cells: files end at different times, equal cells meet within a file and between files |
| `train` | `OncePerEpoch`, `LossOfEpoch`, `EveryRecordUsed`; `TrainingEnds` | three threads, two epochs; files of 7 records (an uneven division), 2 (fewer than threads), 9 (negative as an int) and 20 (beyond the range of an unsigned) |
| `server` | `ChannelRegistration`, `DestroyedOnce`, `ShutAfterWhole`, `LoopsConstructed`, `OutputInBounds`; `ClosedIsDestroyed`, `RequestAnswered`, `Serves` | one loop with two connections, so that the thread of main registers one while the loop destroys the other; one send buffer holds a reply, the other half of one; two segments each, so that a second request meets a shut socket, or a reply that is still being written. Loops share nothing but the acceptor, so a second loop adds no behaviour of a connection |
| `hogwild` | `DivisorNeverEmpty`, `UnsharedExact`, `EpochLeavesMark`, `EarlierEpochsKept` | two threads with a record each, two epochs; they share one word, and each has one of its own. A race is between two threads on one row, and an epoch hands over to the next once |
| `model_files` | `WordsByFrequency`, `BestFirst`, `ServedVectorsAreWhole`, `LoadedOneOff` | every corpus of three words, one spelled in two ways, each spelling up to twice; limits below and above; two columns, loaded with one and with two; weights 0 to 2, so that words tie; 0 to 3 words asked for, so that the assertion and the empty queue occur. The files are written once, into an empty directory; the words are copied to where `load` looks, or not. 313,916 states |
| `reactor` | `PendingEventsLive`, `OneHandlerPerConnection`, `NothingLeftOut`, `ImplementsService`; `EveryoneServed` | three clients and two descriptors, so that numbers are used again and run out; two clients whose request comes in two segments, one that resets, one that shuts; replies longer than the send buffer (`Room` 2) and one failed write per reply. 77,773 states |
| `task_pool` | `TakenOnceInOrder`, `NoTaskSleeps`, `DestroyedIsQuiet`; `SubmittedIsRun`, `DestructionEnds` | three workers, two submitters, three tasks: a worker waits, one is about to and one is busy while two notifications are on their way |

The type invariant of a module is a conjunct of the property named first for it here (`build`,
`merge`, `server`, `task_pool`, `hogwild`), of `OneHandlerPerConnection` in `reactor` and of
`ServedVectorsAreWhole` in `model_files`; those of `BigramTable` and `Train` are proved for all
instances and are in no run. A refinement stands for what its abstract specification makes plain:
`ImplementsKWayMerge` for the order of the merged file, `ImplementsPairCounts` for the listing.

Runs that end in a violation, each on one statement of the sources:

| run | statement | what the code does |
|---|---|---|
| `build_lost` | `cooccur.cpp:8`: the merge of both kinds of triples is the matrix | the table is written over the list of the others |
| `merge_heap` | `cooccur.cpp:150`: a min-heap | the greater of two children moves up, from four files on |
| `server_map_race` | `Channel.h:19`: a channel belongs to one I/O thread | the thread of main enters it into the loop's map |
| `reactor_words` | `server_pop/MyServer.h:23`: the words of the reply are those of the post | `words` is never cleared (`HttpParse.h:31`), and the reply to one client begins with the vectors of the words of those before it |

Where else the code and a sentence of the sources part, no property asserts either side:

* `cooccur.cpp:233`, line breaks separate contexts: corpora have one line (see `CoMat` above).
* `README.md:63` of the repository, case is ignored: words are counted in lower case and looked up as
  they are written (`vocabulary.cpp:33`). `WordsByFrequency` is about the ids that words are given;
  `CoMat`'s corpora are sequences of ids, whichever spelling has one.
* `cooccur.cpp:105`, duplicates are added up: `Chunk` compares each record with the last one of the
  list. `FilesFaithful` is about sums.
* `train.cpp:157`, the parts of the threads are isolated: with fewer records than threads they overlap,
  with a negative length all threads but the first have nothing to do. The files of 2 and 9 records in
  `train` are such; `EveryRecordUsed` holds for them, `OncePerEpoch` is about the others.
* `server_pop/old/threadpool.h:14`, the guard joins the threads: not if one stands between its test
  and its wait. `DestructionEnds` has the other case as its premise.
* `vocabulary.cpp:111`: `load` does not find what `to_txt` has saved. There is no sentence that it does, only the
  names; `LoadedOneOff` says what comes of the files when they are put in place.
* An empty temporary file would contribute the record of the file before it, or an uninitialised one
  (`cooccur.cpp:162`; `Fill` in `MergeFiles` models it, the run has no such file). The number that
  `merge_files` reports (`cooccur.cpp:184`, `203`) leaves out the record written after the loop.

**Fairness.** `CoBuild` is one sequential program that is never blocked, so weak fairness of `BuildNext` is
what the code gives. In `Train` the main thread and each worker are threads of the operating
system, which runs every thread that can run: weak fairness of each. `Join` waits for a thread,
and is not enabled before that thread has ended. In `TcpServer` likewise: weak fairness of the
thread of main and of each loop's thread, none of the clients, and none of spurious wake-ups. The
liveness properties say "unless the process ends", because a client that resets, or that sends a
second request after its reply, ends it; and they assume descriptors enough.

`Reactor` has weak fairness of its one thread, none of the clients: `EveryoneServed` says "or a write
fails", because `sendFd` may then repeat for ever and nobody else is served meanwhile. `TaskPool` has
weak fairness of every worker, the submitters' notification and the destructor, and strong fairness
of acquiring the mutex: a mutex that becomes free again and again is acquired in the end, which the
threads of an operating system rely on. `ModelFiles` and `Hogwild` assume no
fairness: their properties are of safety.

**Deadlock.** `CHECK_DEADLOCK FALSE` in all runs: each of these programs ends, and
the server rests when no client does anything.

## 4. The proofs

Every invariant that a passing run checks is a theorem as well (`WeightConserved` where no file is
empty, which is what its run has too); so are `OncePerEpoch` and `EarlierEpochsKept`, which are about
steps, and the refinements of `PairCounts` and `WordService`. The table and the pass over the corpus are
proved about one by one, and `CoBuild` is shown to be both (`BuildIsCoMat`, `BuildUsesTable`), so that
what holds of either holds of the whole. They hold for every value of the constants that satisfies the
assumptions the modules state: numbers of threads, sizes and limits are natural numbers, positive where
the program needs it; the threads, clients, submitters and spellings are finitely many; a value that
stands for nothing (`Nobody`, `NoClient`, `Oov`, `Empty`, `EmptyWord`) is none of the values it stands
beside; the files of a merge are lists of records, sorted or not.

Few of the properties are inductive: most speak of a moment of rest, such as the end of an epoch or the
head of a loop. What each proof adds to say where things stand in between is below. In each module a
lemma says that every action keeps the invariant, one step for an action, and the theorems follow by
`PTL`.

| module | theorems | what the inductive invariant adds |
|---|---|---|
| `BigramTable_proofs` (also of `CoBuild`) | `InvHolds`, `TypeCorrect`, `InBounds`, `CellsDistinct`, `TableIsPairCounts`; `BuildIsCoMat`, `BuildUsesTable`, `ListingIsTheCount` | `Layout`: rows follow one another, each as long as `RowWidth` says. `ScanInv`: the list has the non-zero cells that were passed. `WordInv`: a word that is flagged has an id of the vocabulary. `MemberInv`: vector and counters agree |
| `CoMat_proofs` (also of `MergeFiles`) | `NothingGatheredIsLost`, `FilesAreFaithful`; `MergeInvariant`, `NoFileForgotten`, `MergeLosesNothing` | `Reading`: where the stream stands. `WindowInv`: the window holds the words before the center. `Storage`: frequent pairs are in the table only, later files are empty. `GatherInv`: the pairs up to the context word at `k` are counted. `FillInv`, `OpenInv`: which files have a record in the heap while it is filled, and between a pop and the read behind it. `Balanced`: where the weight is before the first pop |
| `Train_proofs` | `InvHolds`, `TypeCorrect`, `EpochsUseEachRecordOnce`, `LossIsOfTheEpoch`, `NoRecordLeftOut` | `Regions`: the records before the frontier of a thread were used in this epoch, the others were not. `LossInv`: what a thread has summed up. `FirstInv`: what the first thread has used of an odd file |
| `Hogwild_proofs` | `TypeCorrect`, `LoadsAgreeOnThePast`, `EpochsNeverUndone`, `EveryEpochLeavesMark`, `DivisorsNotEmpty`, `UnsharedRowsExact` | how what a thread has loaded relates to the cell now: the same epochs before this one (`LoadedOlder`), the same value if nobody shares it (`LoadedOwn`); an update that was made left a gradient of the epoch, its own or that of whoever overwrote it (`Marked`) |
| `ModelFiles_proofs` | `IdsFollowFrequency`, `TheBestIsFirst`, `ServersReadWholeVectors`, `LoadShiftsByOne` | `Kept`: what remains to be numbered is the end of a sorted list. `Begun`, `Closed`: what is in the files is a beginning of what will be. `CopyInv`: a copy of the words is whole. `ReaderInv`, `LoadInv`: how far a reader is. `BestIn`: the best word seen is in the queue |
| `TcpServer_proofs` | `ServerInvariant`, `LoopsBuilt`, `RegistrationAgrees`, `DestroyedAtMostOnce`, `ShutOnlyAfterWhole`, `WaitingStaysInside` | `LoopInv`: what a loop has in hand. `RefInv`: whatever leads to a connection belongs to its loop, and the channel is registered or about to be destroyed. `ChanInv`: where a channel is in its life. `WireInv`: a connection that is shut had one reply, written whole. `PoolInv`: the loops are started one after the other |
| `Reactor_proofs` | `ReactorInvariant`, `PointersStayLive`, `HandlersAreNotShared`, `FailedWritesLeaveNothingOut`, `ReactorIsWordService` | `FdInv`, `HandlerInv`, `MadeInv`: each descriptor has one handler, the one in the map, never made before. `EventInv`: the events of a round are of different descriptors. `ReplyInv`: the buffer of the handler at hand holds the vectors of all words so far, `ptr` and `left` say how much of it was sent, and what was sent up to `ptr` lies in the stream in its order |
| `TaskPool_proofs` | `TakenInvariant`, `TasksTakenInOrder`, `NoWakeUpLost`, `DestroyedPoolIsQuiet` | `FrontWaits`: a worker that the predicate let through finds its task. `SleepsOnEmpty`: one that is about to wait leaves an empty queue. `DeadStayDead`: a worker that was joined has ended |

The argument in each case:

* *The table.* `HighFitsRow` is the arithmetic: what `isHigh` accepts is within the width of its row, by
  two different divisions. Since rows follow one another, no two pairs share a cell. The refinement
  then is step by step: an addition to a cell is one to a counter, `AllocTable` and `StartScan`
  change no counter, and a cell that is passed is listed if it is not zero. Within `build` an addition
  is one to the cell and to the counter; at the end both are listed in strict order, and two such lists of the
  same records are equal (`OneListing`: look at the first place where they differ).
* *The gathering.* A center and the words of its window are the pairs of the specification that end at
  that center; each step of the inner loop adds one. A flush moves the list into a file of its own, and
  `Chunk`, a sort and a merge of the last cell, keeps the weight of every cell.
* *The merge.* A comparison of the heap only swaps two records, which renames places: a bijection, so
  a sum over the heap stays what it is and so does the record that each file has there. What a pop
  takes is added to the line being gathered, what a read takes off a file is put into the heap.
  Whether the heap is in order plays no part, and it is not (`merge_heap`). `MergeLosesNothing`
  needs that no file is empty: `Fill` inserts a record for an empty one too, which was never in it.
  The last file of `build`, the listing of the table, may be empty (`cooccur.cpp:132`), so this is
  not idle.
* *Training.* The lemmas on `ThreadInfo` show that the regions of a regular file are not empty,
  disjoint and cover it; a step of one thread moves its own frontier only. At the end of an epoch all
  frontiers are at the end of their regions, which is where the next epoch begins. For other files
  only the first thread's region matters, and no thread starts beyond the end (`StartBound`).
* *The parameters.* Nothing about a shared cell survives from load to store except what no thread can
  change: the gradients of earlier epochs, for the barrier has been passed, and that there is one of
  this epoch, for stores of this epoch only ever put theirs in.
* *The server.* Each property leans on the others: a connection is destroyed once because only its
  loop's events lead there, because its channel is deregistered then, because nothing enables writing
  on it any more, because a reply that was written whole is the only one that is shut behind. One
  invariant carries them all, in pieces that name what they are about. None of them reads the map of a
  poller, so they hold whatever the race of `server_map_race` leaves in it; and the process ends neither
  because `epoll_ctl` failed nor because a read found nothing.
* *The reactor.* `Parsed` is shown to be a sequence by counting the places where words end, and
  `Vectors` to distribute over concatenation: so a reply is the vectors of `words`, which only
  grows at the end. After failed writes some of it is sent again, and for each part of the buffer that was
  passed there is still a way to find it in the stream in order (`InOrder`).
* *The model files.* A reader that has read a line has read a line that will never change, because a file
  is only added to at the end; that is enough for whole vectors, whenever it starts.
* *The pools.* The mutex: between the predicate and the taking nobody else takes.

Two things look out of the prover's reach and are not. A sum over a finite set (`SumFunctionOnSet`) is
shown to be the cardinality of a set of grains, so that the library's facts on cardinalities give its
laws. An induction over a set or a sequence is the search for a smallest counterexample, which needs
only that a set of numbers has a least element (`Least`, `SetInduction` in `CoMat_proofs`).

Only model-checked: `ImplementsKWayMerge`, which holds for three files and not for every number of
them (from four on the heap may be out of order, see `merge_heap`); and all liveness, since the prover
has neither fairness nor `ENABLED`.

## 5. What is left, and the plan

1. Theorem: `ImplementsKWayMerge` where there are at most three files. There the invariant is that
   the top is the least; it needs `Greater` to be a total order and the files to be sorted.
2. `CoPipeline`: `CoBuild` and `MergeFiles` together, with the abstract matrix as specification.
3. A second generation of model files, written over the first while a server reads.

## 6. Not modelled

* Floating-point arithmetic on matrices and vectors beyond the reads and writes that threads share,
  the logarithmic formula for `max_product`, and NaN: no state, and out of TLC's reach.
* Parsing of arguments, timers, traces, the Python binding: no state of interest.
* Functions nothing calls: `Buffer::CopyFrom`, `Absorb`, `ReadFileAndWriteBack`; and
  `disableWriting`, whose call is never reached because the rest of a reply is never taken off the
  buffer (`TcpConnection.cpp:69-71`).
* `server_pop/old/threadPool.h` and `server_pop/old/reactor.cpp`: earlier drafts, in no build. The
  other file of that directory, `old/threadpool.h`, is in none either; it is modelled because it has
  the destructor that the present pool lost.
