# TLA+ models of ti3

The repository holds the exercise programs of a course on system programming,
one directory per exercise (`U01` to `U11`). Each program is small and sequential
to read; what makes them hard are the other parties: peers of a socket, other
processes in the same directory, signals, kills between two system calls. The
models put these parties next to the code.

## Inventory

| Program | State it keeps | Operations | What is hard | What makes it correct |
|---|---|---|---|---|
| `U09/http-server.c` | list and count of clients, `max_fd`, `readfds`, request buffer, descriptors | event loop: pselect, accept, read, parse, send file, close; SIGINT | peers act between any two calls; descriptors are closed twice and reused; list nodes are used after they were freed; signals | only open connections are registered, no read blocks, nothing leaks, a connection gets at most one answer, requests are served, SIGINT ends the server |
| `U02/trashcan.c` | the file system only | put, get, remove | commands that run together; kills half-way | no file is lost, overwritten or cut short |
| `U10/crc.c` | `<name>` and `<name>.crc` | calculate, validate | kills, damage to the coded file, short files | what is accepted is the original; the checksum is the remainder |
| `U11/pseudo-tr.c` | parent: TTL, flag; child: socket | send probes; receive answers, exit, SIGCHLD | signal before its handler, lost and late packets, failing child | the parent stops in time and not too early, both processes end |
| `U07/drive-ls.c` | a FAT16 image, an iterator over a directory | walk down a path, list a directory | 16-bit entry numbers, sector numbers and byte offsets, signed characters, values of the image that stand for something else in the program, directories and chains that contain themselves | exactly the entries of the directory the path leads to; "not found" only if it is so; an end |
| `U08/tcp-server.c`, `tcp-client.c` | sockets, the log file and its buffer | accept, log, greet, close; SIGINT handler | SIGINT before what its handler closes exists; kills; messages in parts | whoever was greeted is in the log; the log only grows; no client waits for ever |
| `U08/uds-server.c`, `uds-client.c` | a socket in the file system, buffers | send lines as datagrams, print them | the socket's file stays behind; whole buffers are sent with old bytes in them; a full queue | the lines read are printed, in order, and nothing else; no client waits for ever |
| `U06/pseudo-grep.c` | a position in a stream, `matched_chars`, `from_linestart` | search with seeks back | partial matches, newlines among them; streams that cannot seek | exactly the lines with the pattern, each once, and an end |
| `U06/wc.c`, `cat.c` | counters; a buffer | count; copy piece by piece | words and lines without end, lines longer than the buffer, NULs | counts fit their definitions; the output is the input |
| `U01/mult-test.c` | a sum | read products, add, compare | overflow on the way, lines that are cut | the verdict, if there is one |

The programs share no state; `errors.h` and `messages.h` are constants. Within
`U11` parent and child interact by a signal; `U08` by messages. `U02` and `U10`
interact with themselves through the file system, each run with the ones before
it and (`U02`) beside it.

`PROJECT.json` lists, per program, what is modelled, the hazards with their lines
and the properties that cover each.

## Modules

* `HttpServer` models `http-server.c`. The variables `client_fds`, `client_cnt`,
  `max_fd`, `readfds`, `client_fd` and `infile` are the program's own; `to_visit`
  is the list from `cur_client` on; `req` and `line_from` abstract the request
  buffer to the kind of request found in it and whose line feed it still holds;
  `fdtab`, `backlog`, `peer`, `request`, `unread` and `reply` are the kernel and
  the peers; `serving` is a history variable. A connection of `Returning` that is over
  leaves its name to a new one, so that clients may come without end; `Asks` says what
  each peer sends and `StackHolds` what the uninitialised request buffer starts with.
  That a peer does not read makes no difference before it is sent something, so `Stall`
  waits for that. `pc` names the system call the
  process is about to make, since only there other parties get in between:

  | `pc` | actions | lines |
  |---|---|---|
  | register, pselect | `Register`, `PselectReady`, `PselectInterrupted` | 109-126, 385-388 |
  | dispatch | `Shutdown`, `AcceptClient`, `AcceptNobody` | 128-187, 394-400 |
  | visit | `EndPass`, `SkipClient`, `ReadEof`, `ReadError`, `ReadRequest` | 189-234 |
  | parse, header, open, body | `Parse`, `SendHeader`, `OpenFile`, `SendChunk`, `EndFile` | 236-362 |
  | respond, finish, advance | `Respond`, `Finish`, `Advance` | 364-375, 402-438 |

  Where the code's behaviour is undefined the model chooses among what a build may
  do: `Advance` reads the link of a freed node as what it was, as NULL or as
  garbage; `request_line` starts with any contents (`StackHolds`); `FD_SET(-1)` after a failed
  accept may kill the process or not.
* `ConnectionService` is what the server promises to its peers: connections are
  accepted once and in order, each gets at most one answer, only while it is open.
  `ImplementsService` (in `HttpServerProps`) is the refinement.
* `HttpServerProps` states the properties; `HttpServerInv` the inductive invariant;
  `HttpServerProofs` the theorems about them, `HttpRefinementProofs` the refinement;
  `ListLemmas` the facts that several proofs need: on `Min`, `Max`, lists and their
  concatenation, what `Stdio`'s calls return, induction and definitions by recursion.
* `Trashcan` models `trashcan.c` for files of one name: `dirent` is the entry of
  the name per directory, `file` the contents of the inodes, and each process has
  a `pc`, its mode, directory and descriptors. A document is the contents some
  file of the user had, its length counted in blocks of `BUFFSIZE`. `Fail` ends a
  command at any step: an error return, the assertion or a kill. `TrashcanInv` is its
  inductive invariant, `TrashcanProofs` holds the theorems about it.
* `Crc` is the division of `crc.c` on real bytes: the register is the set of its 1
  bits, `Divide` one round of the loop. `CrcFile` is the program around it: `plain`
  and `coded` are the contents of `<name>` and `<name>.crc`; `Damage` flips bits of
  a coded file. stdio writes out at `fseek` and `fclose`, so these are the points
  between which a kill leaves something behind. A `fgetc` or `ftell` that fails in the
  division goes unnoticed: `Fetched` is the bytes it then works on, `misread` and
  `misjudged` record that it happened in calculate or in validate's check. `CrcProofs` has
  the theorems about both.
* `PseudoTr` models both processes of `pseudo-tr.c` and the network between them and
  the destination. A packet is its TTL on the way out and its sender's distance on
  the way back. `canonical` says whether the argument is spelled as `inet_ntoa` prints
  the address, with which the child compares it as text. `PseudoTrProofs` holds the theorems about it.
* `Stdio` is what `fgets` and `fputs` do with bytes, as far as programs tell them
  apart. `Stream` has the variables that the programs of U01, U06 and U07 share: which
  one runs, its `pc`, the text, the position in it and the output, and whether the build's
  `char` is signed. `Wc` (one action
  per byte), `Cat` (per buffer), `PseudoGrep` (per byte, with its `fseek`s) and
  `MultTest` (per line) extend it, each with its variables, and with a definition of
  what the output should be that looks at the whole text at once (`WordsIn`,
  `CopiesInOrder`, `MatchingBytes`, `ProductsSum`). A line of `MultTest` is the integers
  in it and the pieces `fgets` makes of it (`CutOf`).
* `DriveLs` models `drive-ls.c`. `path` and `sec_num` are the arguments of `ls`, `it`
  is the `dir_entry_iterator_state`, `offset` where `next_dir_entry` reads. The
  operators from `read_32` to `FatOffset` are the program's address arithmetic,
  `sprint_filename` its handling of names, at the byte. The image is not fixed
  beforehand: `dir` and `fat` hold what was read so far, and an entry or a cell is
  chosen when it is first read. The properties read a directory off `dir` by the
  rules of the file system (`Slot`, `EntriesOf`, `Reached`), with addresses of their
  own. `BootAssumption` is what any FAT16 volume has: entries do not lie across sectors,
  directories have entries, and how many fits 16 bits.
* `Readers` composes the five programs: any one is run on any input. `ReadersProofs`
  has the theorems about it.
* `TcpChat` models server and clients of U08 over TCP: `pc`, `logfile`, `sock_fd`,
  `client_sock_fd` and `sockaddrlen` are the server's, `buffered` what stdio has not
  written to the `log` yet, `client`, `shown` and `got` the clients', `backlog`,
  `conn` and `wire` the network's. `EndAs` is the end of the process, in order or by
  a signal.
* `UdsChat` models the datagram pair with real buffers; `Chat` lets either pair run.
  `ChatProofs` has the theorems about both.

`MC...` modules add what only the runs need (symmetry, sets of bytes). Where a
definition is followed by a variant that nothing uses (`ListenerOnly` beside
`Watched`, `TruncatesExisting` beside `CreatesAt`), the variant is a plausible
mistake in that place; `PROJECT.json` lists which property notices each.

## Runs

| Run | Instance | Shows |
|---|---|---|
| http_safety | 2 connections, all events of peers and user, every value of a freed node | `RegisteredAreOpen`, `ReadNeverBlocks`, `NoLeakWithoutReset`, `CleanExitClosedAnswered`, `ImplementsService` |
| http_limits | 3 connections for 2 clients, 2 descriptors beside the listening socket's | `TypeOK`, `CountMatchesList`, `EveryClientWatched`, `ClosesOnlyItsOwn`: the limits are met, accept and fopen fail |
| http_live | 3 clients, of which 2 connect again and again while the third asks for a file and may stop reading for a while; SIGINT, fairness; a freed node still has its link | `RequestsAreServed`, `ShutsDownOnSigint`: as long as no peer stalls for good, and for SIGINT if there is an end to new clients |
| http_walk, http_line | 2 connections; the buffer starts without a line feed | `WalkVisitsAll`, `LineIsOwn` violated, see below |
| trash | 3 processes put, get and remove in 2 directories, 3 documents; only puts and gets of one directory overlap | `NothingLost`, `RemovesTheOriginal`, `NeverOverwrites` |
| trash_race | 2 processes, 2 directories, any commands overlap | `NothingLost` violated, see below |
| crc_file | files of 0 to 2 bytes, 2 flipped bits or a burst of 6, kills, any reads that fail unnoticed | `AcceptedIsOriginal`, `SealedVerifies`, `DividesCorrectly`, `NothingLost` |
| pseudo_tr | destination at hop 3 of 5, one other packet, every call may fail, the argument spelled as it is printed or not | `TypeOK`, `AtMostOneMoreProbe`, `ReachedIsNoticed`, `AnswerEndsBoth` |
| readers | wc and cat on texts to 4 bytes (buffer of 3), grep on texts to 6 with patterns to 3, on shorter ones with a byte from 0x80 up, signed characters, sums of up to 3 products in ints from -8 to 7, images of 3 geometries with directories of 2 entries out of 10 | `CountsFit`, `CopiesInOrder`, `PrintsMatchingLines`, `VerdictIsRight`, `ListsTheDirectory`, `NotFoundIsTrue`, `EveryRunEnds` |
| drive_chain | one geometry, a directory of two clusters | `EntryInCluster` violated, see below |
| chat | 2 TCP clients, or 2 datagram clients with 6 inputs, a server started twice, kills anywhere, fairness | `ToldIsLogged`, `OnlyFirstAddressTorn`, `LogIsKept`, `ClientsEnd`, `PrintsOnlyLines`, `NoLineSkipped`, `SendersFinish` |

*Bounds.* Two connections are enough for every conflict of two clients in the
server (the list, the walk and the descriptors relate them in pairs); the third in
http_limits is the one beyond the limit, and in http_live there is one that waits, one
in front of it in the list and one that connects meanwhile. A file has at most one chunk: a second one
repeats the step. A peer sends a request at most once before it is read, since the
server reads once per connection. Two blocks make a copy that can be incomplete;
three processes are a put, a get and one that comes between. Damage within
`MaxFlips` and `MaxBurst` is what a CRC of 16 bits with this polynomial must detect
(any three bits, bursts to 16 bits); two bits and bursts of 6 keep the run short, with
every set of bytes that could not be read.
Five TTLs leave two beyond the destination.

The run of the trashcan identifies states that differ in the numbers of inodes only:
`View` shows which entries and descriptors refer to which contents. Processes,
directories and documents are interchangeable (`Symmetry`; its properties are safety
only). `Crossing` says whether commands of different directories, or a remove and
another command, may overlap.

Buffers of 3 and 4 bytes have lines below, at and above their size. A pattern of 3
and a text of 6 have partial matches that overlap, across a newline, and a match
after a rewind. With ints from -8 to 7 every sum of three products overflows for some
values. In
drive-ls a directory has two entries, so that an end mark, a deleted entry or a
volume label comes before, behind or instead of another entry; a path has up to two
parts, which lead down, back to the root or round; `MCEntries` has each kind of entry
that the code tells apart. The image is larger than 2 MB, so that what is read behind a
second cluster's wrong offset exists; `MaxHops` bounds how often a cyclic chain is
followed, and is as much as any chain that ends can have with two cluster numbers. What
lies at an offset where no entry starts is any of `Junk`: a directory of the sought
name, something skipped, or an end. In U08 a server that is started a second time
meets what the first has left.

*Deadlock* is not checked: the servers may wait for peers that do nothing more, and
the other programs end.

*Fairness.* `FairSpec` of `HttpServer` is weak fairness of `ServerStep`: a process
that can run is run. Peers and user owe nothing. `FairSpec` of `PseudoTr` is weak
fairness of each process; the network may lose everything. `RequestsAreServed` and
`ShutsDownOnSigint` suppose `<>[]NobodyStalls`: a peer that stops reading for good while
it is answered stops the single thread in `send`. `ShutsDownOnSigint` also supposes that
new clients stop coming (`NobodyComes`): pselect reports readable descriptors rather than
a pending signal, so a stream of clients keeps SIGINT out. `Readers` has weak fairness of the one
program that runs; a read may fail, but an image or text always has an end. `Chat` has
weak fairness of the server, of each client and each sender: they are run when the
call they are in returns. That a server is started, ends, is interrupted or that
somebody connects is owed by nobody.

## Where code and comments disagree

* http_walk: the walk takes the next client from a list node that was just freed
  (`http-server.c:192`, `:223`); when it reads NULL there, clients that pselect
  reported are not gone through. New clients are put in front of the list (`:163`), so
  with a stream of them every walk may end behind the newest one, and a client further
  back is never answered. `RequestsAreServed` is checked where the node still has its
  link.
* http_line: the buffer is terminated at its end and not behind the data read
  (`:227`), so a fragment is completed from an earlier client's request. The run starts
  with a buffer that holds no line feed, so that it takes two clients.
* trash_race: get from another directory copies what an unfinished put has written
  so far and removes it; the put then removes the original (`trashcan.c:71`).
* drive_chain: behind the last entry of a cluster, the iterator takes the number of
  the next cluster's sector for a byte offset and 65535 for the number of the entry
  (`drive-ls.c:283-284`), so it reads 2 MB behind the start of the image, or fails
  there, and then goes on in the boot sector.

Met while modelling, and built into the models, but without a run of their own:

* A socket whose header could not be sent is neither closed nor listed
  (`http-server.c:333`); the exit status still says that all sockets were closed
  ("Depending on whether all sockets were closed properly, exit", `:142`).
* A client at end of file stays registered and readable (`:208`), so that pselect
  never has to wait and a pending SIGINT may never get in. The same happens when the
  server is full and a further connection waits, or as long as clients keep coming.
* crc: a `fgetc` that fails while calculate divides is not noticed (`crc.c:211`), nor is an
  `ftell` (`:70`, compared with 0): calculate writes a wrong checksum and exits with success, and
  a later validate refuses the file. `SealedVerifies` is about a calculate whose reads
  succeed; `NothingLost` holds for the others, too: the data are still in the coded file.
  A read that fails in validate's check may accept a bad file, which is then copied.
* pseudo-tr: the child compares addresses as text (`pseudo-tr.c:86`). An argument such as 127.1,
  which the parent sends to, never equals what is printed, so that the parent goes through all
  TTLs and the child waits for ever. `AnswerEndsBoth` is about an argument that is spelled
  as it is printed.
* trashcan: a remove, or a put, that overlaps another command takes whatever its name
  refers to by the time of the unlink, also a file that has come in between.
* drive-ls: `read_32` takes its upper half one byte too early (`:506`), wrong for a FAT
  of 256 sectors or more that is given in 32 bits; an empty file without attributes
  ends the listing (`:344`); with signed characters deleted entries are listed
  (`:308`); a name of eight characters with an extension writes to NULL (`:374`).
  `ListsTheDirectory` says what holds for images without these, where also directories
  have one cluster, names have blanks only at their ends, and no entry names cluster 1
  (`Supported`). An image of which the wrong half of `read_32` is zero anyway is one of them.
* drive-ls: the comment on volume labels (`:292`) speaks of the root directory, the code skips
  them everywhere, and an entry with that attribute is no end mark to it even if its name
  starts with 0 (`Supported` excludes those).
* pseudo-grep: "Prints every line of *stream containing pattern" (`pseudo-grep.c:43`) is not so
  where `char` is signed and the pattern has a byte from 0x80 up, as that of an umlaut: the
  `int` from `fgetc` never equals it (`:75`), and nothing is printed. `PrintsMatchingLines` says
  both. After a search of standard input `main` goes on to `fopen(NULL)` and ends
  with an error; a pipe cannot seek, not even by 0; the debugging output of line 83
  goes to standard output.
* mult-test: a read that fails passes for the end of the file (`:65`), and the verdict
  is one on the lines before it.
* tcp-server: SIGINT before the log is open makes its handler call `fclose(NULL)`; the
  first address of each run is logged from bytes that accept did not write (`:81`).

## Proofs

`HttpServerProofs` proves, for all values of the constants that satisfy
`ConstAssumption`, that `Spec` implies each of `TypeOK`, `RegisteredAreOpen`,
`CountMatchesList`, `EveryClientWatched`, `ReadNeverBlocks`, `NoLeakWithoutReset`
always, and `ClosesOnlyItsOwn`. None of them is inductive. The invariant `IInv`
adds what they lean on:

* `KernelInv`: a connection is in one place only, not opened, queued, or behind
  one descriptor; without it closing a descriptor could close two connections.
* `ListInv`: the list is distinct and counted; a removal takes the right node.
* `HandlerInv`: the handler's descriptor has left the list and denotes the
  connection it serves or nothing, so the second and third close hit nothing else.
* `WalkInv`: the nodes still ahead are registered and distinct, and what pselect
  reported of them is still true; it holds since only the handler takes input away
  and only from the node it stands on.

`Invariance` is proved by one lemma per part, each with one step per action of
`Next`; TLC has checked `IInv` on the instances of http_safety and http_limits
first. The proofs assume nothing else about the code.

`HttpRefinementProofs` proves `ImplementsService`. On top of `IInv` it needs
`AnswerInv`: a connection that is away, queued or still registered has been sent
nothing, and the one being served has been sent what the handler's `pc` says, so
that a status sent after a header and chunks is still part of one answer. Each
action is then a step of the service (`Connect` queues, `AcceptClient` accepts,
`SendHeader`, `SendChunk` and `Respond` send, `ReadError`, `Respond` and `Finish`
close, `Shutdown` closes the registered) or changes nothing it speaks of.

`PseudoTrProofs` proves, for every route, TTL limit and set of failing calls, `TypeOK`,
`AtMostOneMoreProbe` and `ReachedIsNoticed`. The invariant adds that a queued packet of
the destination is an answer to a probe, which only a parent with its handler
installed can have sent, with at least that TTL (`ProbesInv`, `AnswersInv`), and that no
probe counts as late before the child has exited (`ExitInv`).

`ReadersProofs` proves `CountsFit`, `CopiesInOrder`, `PrintsMatchingLines`,
`VerdictIsRight`, `ListsTheDirectory` and `NotFoundIsTrue` of `Readers` for inputs of any
length, any size of buffer, any width of an int and any geometry of the image. Its
invariant `ReadersInv` has a part for each of the five programs (`OwnStep`: where these can
be, only they make steps):

* `WcInv`: the counters are the numbers of newlines and words of the text up to `pos`, and
  `in_word` tells whether the byte before `pos` is part of a word; one more byte adds at
  most one newline and one beginning of a word to these sets.
* `CatInv`: the output is the files before the current one and what was read of it. A piece
  that `fgets` returns is what follows in the text (`FgetsReads`), and without NULs `fputs`
  writes all of it (`CutAtNul`).
* `GrepInv`: while it searches, `pos - matched_chars` is where the bytes compared begin
  and `pos - from_linestart` where their line does; the pattern does not occur on this line
  before them, and the matching lines before it are printed (`OnLine`). This is not always
  so: a mismatch at a newline inside a partial match seeks back into a line that is done
  and leaves `from_linestart` negative. Then what is left of that line is too short for
  the pattern (`PastLine`), so that nothing can be printed until the search gets to the
  newline again. While it prints, the line it is on has an occurrence, and all before
  `pos` is printed. With a pattern that a build never finds (`NeverFound`) it stays in front
  of the first byte that equals nothing, and prints nothing (`Fruitless`).
* `MultInv`: no line so far was refused, and the sum is that of the products so far,
  reduced to an int. At the end nothing was cut: of k pieces each needs two integers to
  pass, and k - 1 cuts add at most k - 1 (`NotCut`). This is assumed of the files
  (`MultAssumption`), as is the format that the program's header asks for, but not its
  fulfilment: there may be too few integers.

* `LsInv`: as long as the image is `Supported`, the names of the path that are done lead,
  directory by directory (`WayTo`), to the one whose sector is `sec_num` and in which the
  iterator is (`InDirectory`, `Iterator`); the slots of it before the iterator's were read,
  none ends the directory, and each was listed or does not have the name that is sought
  (`LookedAt`). What was read stays, and a further read can only make an image one that
  is not supported. At the end the way is unique and is what `Reached` computes
  (`WayIs`). This invariant speaks of any way, which TLC cannot enumerate; TLC checks the two
  properties that follow.

The way rests on the addresses: for every geometry, the FAT cell read for a cluster is that
cluster's (`CellOfCluster`), an iterator finds the cluster number back from the sector it was
computed to (`ClusterRoundTrip`), and clusters neither overlap nor reach before the data
area (`ClustersApart`).

`ChatProofs` proves `ToldIsLogged`, `LogIsKept` and `OnlyFirstAddressTorn` for any number
of clients, restarts and message lengths. `TcpInv` adds to the types that the server
knows whom it serves from accept to close, and that this client's entry is in the
buffer before the flush and on the disk before `send` (`EntryAhead`). Four effects of a
step on the log are all there is (`LogSteps`: none, an entry is printed, the buffer is
written out, or lost with the process), from which `LogIsKept` follows. `TornInv` is about
the log and the buffer as one list: the entries of the current run come last, and there
are none while `sockaddrlen` is still too short. Of the datagram pair it proves
`PrintsOnlyLines` and `NoLineSkipped` for any inputs and sizes. `UdsInv` says that what a
client is about to send, and whatever is in the server's queue, is a whole buffer that
begins with the line and its NUL, so that the server prints the line and nothing that was
in either buffer before; and that for each client the lines that were taken, queued or
are about to be sent make up, in this order, what it has read of its input.

`TrashcanProofs` proves the three properties of `Trashcan` for any finite numbers of
processes and directories and for documents of any length. `NeverOverwrites` needs
`BaseInv`: a process that copies or unlinks has an output of its own, no file has two
entries, and there is always an inode nobody has (`FreeInode`, by counting). With
`~Crossing`, i.e. while the user lets only puts and gets of one directory overlap,
`NothingLost` and `RemovesTheOriginal` follow from `MoveInv`. Neither is inductive by itself,
since a second command may have opened its input long before it gets to copy. `OneMover`
says that while one command copies, source and target are both taken, so that nobody else
can create an output (`NobodyMoves`); `MovesRightly` that what it copies is still equal to
the source's entry; `ReaderInv` that a file opened so far is an entry's or equal to one
that nobody is writing, even if its own entry is gone. There is one lemma per action. The
run trash_race shows that the assumption is needed.

`CrcProofs` proves what `crc.c` computes, for files of any length. A register's value is
the set of its 1 bits; the remainder of a file is the sum, over the file's 1 bits, of the
remainders of the powers of x they stand for (`RegisterComputesRemainder`), so that
damage changes it by the remainder of the damaged bits alone. From this follow `SealedVerifies`
(`Seals`, of a calculate without failed reads), `DividesCorrectly` (`DividesAlways`), `NothingLost` (`KeepsTheFile`) and
`AcceptedIsOriginal` for a single flipped bit or a burst of up to 16 bits anywhere in a file
of any length (`AcceptsOnlyTheFile`). That two or three separate flips are noticed depends
on the order of the polynomial and the length of the file; two are model-checked.
Reads that calculate did not notice to fail leave a wrong checksum, of which validate can
only accept the file as it is, so `KeepsTheFile` holds with any of them; both theorems
say nothing of a validate that could not read the file it checks.
The last two theorems assume `NoMultiples`: no file is, as it is, a multiple of the
polynomial. Without it `AcceptedIsOriginal` is not true: a calculate that is killed right
after its rename leaves such a file as a coded one that validate accepts and cuts
(`crc.c:106`).

`HttpRefinementProofs` also proves `CleanExitClosedAnswered` (`CleanExit`), with resets at any
moment: when the server exits with success, a descriptor that is still open is one of a
connection that its peer had reset and that had been sent nothing. It needs `SentInv`
(`SentAreServed`): whatever a connection is sent, the handler that sends it closes it.

*Induction.* What a recursive definition computes for inputs of any length is proved
with `NatInductiveSet` (a set with 0 that is closed under successors holds all natural
numbers, from `Min`) and `RecursionExists` (`RecursionAlways`, of all functions at once): a recursive
function is a `CHOOSE`, and has the values its equation gives once some function satisfies
the equation.

*Only model-checked* are all liveness (`RequestsAreServed`, `ShutsDownOnSigint`,
`AnswerEndsBoth`, `EveryRunEnds`, `ClientsEnd`, `SendersFinish`), which is beyond the prover
as `ENABLED` is; and `AcceptedIsOriginal` for two flips outside a burst. The
reductions of the runs (`View`, `Symmetry`) and the four violations are TLC's as well.

## Not modelled

* In the servers: texts of requests and replies; failing set-up before the http
  server's loop; accept that fails there for another reason than descriptors.
* In trashcan: an unset `HOME`, file permissions, directories as arguments. `NothingLost`
  says nothing of commands of which the user lets a remove overlap another.
* In `crc.c`: a validate of a file without the extension `.crc`; files of 2^28 bytes and
  more, where the bit counter overflows; a write that the disk takes in part; what a calculate loses that renames over an
  existing coded file (`clobbered`; the code makes no promise about it).
* In pseudo-tr: the headers of packets; an argument that is no address, with which the parent
  ends at once and the child never. That any exit of the child, also a failed one,
  makes the parent report success is in the model, but no property is about it.
* In drive-ls: paths without the trailing slash (which end in a write to NULL), NULs and
  newlines within names, cluster number 1, a root directory without entries, volumes of 4 GB
  and more, where a byte offset exceeds 32 bits (`sec_to_offset`).
* In the programs of U06 and U01: write errors and a full disk; counters beyond an
  int; numbers in a file that do not fit an int; an empty pattern.
* In U08: write errors of the log, up to a failing `fclose` (`tcp-server.c:122-124`); SIGINT within a stdio call of the server, where its
  handler is not safe; paths longer than `sun_path`; empty datagrams of other programs;
  what is still in the buffer of standard output when the datagram server is killed.
* `errors.h` and `messages.h` are constants: exit codes appear as the ends of a process.

## Plan

Done: the servers and clients (U08, U09), the trashcan, the CRC tool, the traceroute and
the programs that read (U01, U06, U07), with theorems on every component. What is left:

1. `AcceptedIsOriginal` for two flips far apart: the remainders of the powers of x up to the
   length of the longest file must be distinct, which is a fact on the order of the
   polynomial and would be an assumption on the length.
2. A theorem about drive-ls on images of which the first cluster alone is read right: what is
   listed then is at least a prefix of the directory.
