# The HTTP proxy, specified

A TLA+ development of the proxy in `src/`: a small caching, prefetching HTTP
proxy with one accepting thread, two pools of worker threads, two bounded
stacks of jobs between them, and a cache of pages in files that the workers
share. The modules follow the C code, TLC checks them on small instances,
and TLAPS proves the main safety properties for every value of the constants.

## The system

| part | source | state | operations | talks to |
|---|---|---|---|---|
| job stack | `thread-safe-job-stack.c` | jobs, `finished`, a mutex, waiters on `not_empty` and `not_full` | `push`, `push_back`, `pop`, `signal_finish` | shared by main and the workers |
| job | `job.c` | socket, request buffer, `expiration_time` | construct, destruct | one owner at a time |
| main thread | `server.c` | `SHOULD_SHUTDOWN`, the job just accepted | accept and push, handler, shutdown | pushes jobs; joins workers |
| workers | `worker.c` | `current_job` | `worker_main`, `process_job`, `dispatch_prefetch_jobs` | pop, push back, push links |
| relay | `worker.c`, `handle_valid_request` | open file, server socket, `cache_action` | hit, miss, prefetch | cache table, cache files, servers |
| cache table | `cache-record.c` | a record per page: `expiration_time`, `write_in_progress`, `readers` | `get_or_create`, `close` | called by the relay |
| connection | `worker.c`, `process_job` | `request_tail`, `expiration_time` | read, parse, answer, time out | clients; the parser; the relay |
| name resolution | `worker.c`, `resolve_host` | `addr_lookup_lock`, `server_address` | look up, scan the addresses, free them | block table, `getaddrinfo` |
| block table | `block-table.c` | a set of lines, read only after start | `add`, `check` | filled by main, read by workers |
| parsing | `parsing.c` | the position in the searched file | request line, response header, links | called by the workers |
| console output | `thread-safe-file.c` | a mutex | write, close | all threads |

What is hard here: four kinds of threads (main, client workers, prefetch
workers, a signal handler) on two monitors with one-shot waits (a call that has
waited returns FAIL and is tried again by its caller, or not at all); jobs that
go round through many hands; a shutdown in the middle of anything; a
readers-writer protocol whose critical sections only hand out permissions, the
file being used outside of them; requests that fail half way; and texts that
the network cuts anywhere, while the parser sees one piece at a time. What
makes each part correct:

- *job stack, main, workers*: a job has one owner; the array is never overrun;
  no wakeup is lost; nobody waits for ever; the shutdown drains everything.
- *cache table, relay*: a file has one writer or readers and does not change
  under a reader; a hit is a complete page; every permission is given back;
  a stale page is fetched again.
- *connection*: however it is cut, a request gets the one answer it deserves,
  or runs out of time; nobody who has been heard stays for ever.
- *resolution, block table, console*: what is listed is refused and nothing
  else; one lookup at a time; addresses are freed; every request is answered.
- *parsing, with the relay*: the cached page is the server's page; links are
  found, and asked for as the page says.

`PROJECT.json` lists the hazards line by line with the properties that cover
them.

## The modules

**JobStack** is the monitor: the whole `struct job_stack` is one record
variable `stack`, and every critical section of the C file is an operator.
`pthread_cond_wait` cuts a call in two: the first half joins `notEmpty` or
`notFull` and frees the mutex; after a signal, a broadcast or a spurious wakeup
the second half (`Reacquire`) takes the mutex, frees it and returns FAIL, as
the code does, without looking at the stack again. A signal picks any waiter. The mutex is
a field because one path, `push` on a finished stack, returns with it locked.
`push_back` reads `finished` before it locks (`PushBackRefused`), so this test
is a step of its own in Server.

**Server** composes two instances of JobStack (`CS`, `PS`) with the main
thread, the client workers and the prefetch workers. `pc` says where each
thread is, `job` what it has in hand, `fate` what became of each job, `heard`
for which jobs `expiration_time` has been set. `process_job` appears by its
outcomes: TERMINATE because of the expiry, because of the client, or after an
answer and any number of links to dispatch; ENQUEUE without or after data. A
failing `accept` makes a job with socket -1 (`Phantoms`). The handler may run
at any moment, also before `SHOULD_SHUTDOWN = 0`. Steps that touch only local
data of one thread are merged with the critical section next to them.

**JobLifecycle** is the abstract specification of the above: a job is unborn,
held, queued, and then freed or (a link only, and only at birth) lost.
`ImplementsLifecycle` is its `Spec` under the refinement mapping that reads a
job's state from `fate` and from where the job is.

**CacheRecord** is the table of `cache-record.c`. Each function is one step;
`GetOrCreate(k, s)` is the call that returns the status `s`. Time is kept as
the seconds left (`left`), down to -1 for "in the past"; `Tick` is the clock.

**Relay** is `handle_valid_request` run by several threads over one table, one
file per page and an environment that fails in the ways `Faults` names. `disk`
counts the chunks of a page that are in its file, of which `fwrite`
keeps back any number until `fclose`. How long the loop goes on is decided by the
first `recv` alone: when that gets no whole header the loop may end after any
chunk, and a part is closed as a finished page, though nothing has failed. With
`HeaderComesWhole` the network does not cut headers; what is said of whole pages is
said under this condition, and Exchange shows what happens without it (`exchange_cut`).
`handle` is `cache_file`, including the
uninitialised one (`Garbage`: NULL, or a wild pointer whose use ends the
process). Each error path releases exactly what the code releases there.

**PageFiles** is the abstract specification of the cache: a page's content is
missing, partial or whole; it is fetched by one thread while nobody else uses
it, and read when it is whole. `ImplementsPageFiles` is its `Spec` under the
mapping that reads readers and writers off the open handles and the content off
`disk` and the writers.

**Resolver** has the resources shared by all threads and their life: main
loads the block list line by line, starts the workers one by one, joins them
and destroys the mutexes; a worker has one request after the other, prints it,
asks the table for the name, takes `addr_lookup_lock` around `getaddrinfo`
(which returns any addresses, or none), goes through the addresses, and frees
them when it has replied. `live` is the set of `addrinfo` elements that have not
been freed. A line of the block list is a name, an address or one of these with a port.

**Parsing** is `parsing.c` as functions on texts. A text is a sequence of
symbols: characters, or pieces the code compares as a whole (`"Host: "`,
`"HTTP/1.1"`). A symbol is never split between two calls of `recv`; that the code cannot
be fooled by a piece cut in two follows for requests from its looking for
line ends first. Positions count from 1, NULL is 0, and where C would read
a negative length the outcome is `"crash"`: for a URL without a path, and for a `Host` line with
nothing but spaces. The odd cases of the C code are kept: the
`Host` line that is copied one character short, the stripped `/`, the path of which
only `MAX_URL_SIZE` symbols are copied, the
buffer of `find_href` that still has old bytes behind the block.

**Connection** is one socket from `accept` to `close`. A client sends a
request from `Requests` in pieces of any length, waits or leaves; `Visit` is
one call of `process_job`: expiry first, then `recv` (nothing, end, or all that
fits), the parser, and the outcome: back onto the stack, an error, or a page.
`left` is the time until the job expires. A request has a `Host` line
when it is `named`, and the line may be empty.

**Exchange** extends it to the page: the server may not be reached or the request not be sent
(`ServerUnreachable`, the end without an answer); `FirstRecv` gets a piece of any length and
takes the lengths from it, `NextRecv` the others until the length has been
counted down, `Relayed` goes on to the links and `ScanBlock` is one block
of `find_href` with the dispatch of its link. `Memory` is what may lie behind the block
in the buffer. Failures of clients and files during the transfer, and other
threads, are in Relay. That a server closes early is `Spins`.

**MCServer**, **MCRelay**, **MCResolver**, **MCExchange** are the instances for
TLC: symmetry sets, and the requests and pages. **JobStackProofs**,
**ServerProofs**, **RelayProofs**, **RelayFaultProofs**, **ResolverProofs**,
**ExchangeProofs**, **AnswerProofs**, **LinkProofs** hold the proofs. Definitions whose
comment begins with "Mutation of" are not part of any specification: each is a
plausible bug in the operator it names, under which a property has to fail.

How the modules fit: Server lets `process_job` end as it likes, so it covers
every connection of Connection; in return Connection is visited again and again,
as Server's `HeardIsClosed` needs and shows. Connection takes the answer of
`resolve_host` from two sets of hosts, Resolver shows how it comes about.
Relay and Exchange are two views of `handle_valid_request`: many threads,
faults and chunks in the first, one thread and every symbol in the second.

## The runs

| run | instance | what it shows |
|---|---|---|
| `server_safety` | 2 client and 2 prefetch workers, 2 connections, 1 failed accept, 4 links, client stack of 1 (+2 reserve), prefetch stack of 2, 2 links a page | types; `WithinSlots`; `OneOwner`; `NoLostWakeup`; `NoStrandedProducer`; `CleanShutdown`; `ImplementsLifecycle` |
| `server_liveness` | 2 + 1 workers, 2 connections, 2 links, fair | a connection that has sent something is closed (`HeardIsClosed`); the server stops (`ShutdownCompletes`) |
| `server_finish` | as above | violated: prefetch workers do not get FINISHED, since `push` kept the mutex |
| `relay_safety` | 2 client threads, 1 prefetch thread, 1 page of 2 chunks, 2 seconds to live, every fault, headers cut or not | types; `ExclusiveWriter`; `StableWhileRead` |
| `relay_live` | same threads, 3 chunks, no faults, the header of each page whole in the first `recv` (otherwise: `exchange_cut`), fair | `HitsAreWhole`, `RecordsAreReleased`, `NothingLeaks`, `RequestsEnd`, `StalePagesAreRefreshed`, `ImplementsPageFiles` |
| `relay_abandoned` | fault "connect" | violated: the record of a page whose server cannot be reached is never closed |
| `relay_truncated` | fault "client" | violated: a page cut short by its client's leaving is served as a hit |
| `relay_unavailable` | no fault | violated: a request for a page that is being fetched may end the process |
| `resolver_safety` | 2 workers, 1 name, 2 addresses, 1 port, every block list of up to 2 lines, every answer of up to 2 addresses, fair | `BlockedIsNotServed`, `RefusedIsBlocked`, `OneLookupAtATime`, `OnlyBlockedLeak`, `RequestsAreResolved` |
| `exchange_safety` | a buffer of 20 symbols, 1 second to live, 133 requests, pages of up to 2 links, fair | `QueuedIsIncomplete`, `HeardExpires`, `NoSilentEnd`, `RightAnswer`, `CrashNeedsBlank`, `WholePage`, `CloseLinksAreFound`, `PrefetchesAreRight`, `HeardEnds`, `PageEnds` |
| `exchange_cut` | the same | violated: a page whose header is cut by the network is cached in part |
| `exchange_full` | the same | violated: a line that fills the buffer to the last byte does not get the 400 it is to get |

*Bounds.* One slot on the client stack makes main wait, and with the two
reserve slots three jobs fit: all of main's, the workers' and the failed
accept's jobs meet on it. Two prefetch slots and four links of two pages make
both dispatchers wait at once while the prefetch workers drain the stack. These
cases were looked for and are reached. One page is enough for the relay, as
records and files of different pages share nothing; two readers and a writer
need three threads; two chunks give a first and a last one, the third gives
one in the middle, where a client's leaving truncates the page. The
live runs have room for all readers, so that `MaxReaders` never bites there;
in `relay_safety` it stops the count of readers that were never given back.
Two lines make a list with a name and an address, both addresses, or one line twice; two
addresses make a first that is blocked and a second that is not; two workers
meet at both locks and at the end. The requests of `exchange_safety` are those of
`parsing-test.c` and of the two clients with each part varied (method, scheme,
path, version, `Host` line, also an empty one and one of a space, keep-alive), with lines that are shorter than the buffer, fill it
to one byte less (which is answered), fill it, and exceed it (7 to 10
more characters of path). `MAX_URL_SIZE` is 10 symbols: a path of 11 is cut, to one that
ends in `/`, and a block is 10 symbols, which a link of the instance may fit, cross, or leave
for the next one; fillers of 0, 2 and 5 symbols move the links against the blocks.
With every thread spinning in `recv` nothing else may happen: that loop is the
step `Spins`. `Dead` and `Exited` are the stuttering of a process that has ended.

*Fairness.* Server: threads are scheduled (`WF` of main and of each worker: the
mutexes starve nobody, no more than the default ones of a POSIX system do
among eight threads), and a connection that is looked at for ever ends (`SF` of
`Ends`): every look at it either finds its time run out, a closed or complete
request, or more bytes, of which the buffer holds a bounded number. Only jobs
with an expiration time are promised this; nothing is assumed of silent
clients, of new connections, signals or spurious wakeups. Both properties
except the leaked mutex (`Leaked`), which `server_finish` shows. Relay: threads
run and servers answer (`WF` of `Step`; `Faults` is empty in that run), and
every page is asked for again and again by clients (`SF` of `RequestPage`),
without which no page would ever be refreshed. The clock need not tick.
Resolver: strong fairness of each worker's steps, since a mutex may be taken by
the others each time the worker looks: threads are scheduled, mutexes starve
nobody among a handful of threads, `getaddrinfo` returns. New requests and the shutdown are
not assumed. Exchange: an expired job is visited
(`VisitExpired`: Server shows that jobs come round), time passes, and the
server of a page that has begun to come sends on; nothing is assumed of a server
that is being connected to. Nothing is assumed of clients; with that, `HeardEnds` shows what Server assumes as
the `SF` of `Ends`: a connection that has been heard ends.

## The proofs

*Server.* Assumed of the constants: finite non-empty pools without a thread in
common, distinct kinds of jobs, at least one slot on each stack, and at least as many prefetch slots
as client workers (`SizesAssumption`; the code has 128 and 4). Proved for all
of them:

- `TypeCorrect`, by `TypeInv` = `TypeOK` and `Hands` (which threads have a job
  in hand at which place, and that main and workers hold jobs of their kinds);
- `EveryStepIsAMove`: every step moves jobs in one of nine ways (created,
  pushed, taken, put back, freed, dispatched, given up, or none). From it alone
  follow `SlotsSuffice` (a worker that puts a job back has taken it before, so
  jobs on the stack plus jobs in hands do not grow past the slots),
  `JobsHaveOneOwner` and `ServerImplementsLifecycle`;
- `WorkersAreWoken`, `ProducersAreWoken`, `ShutdownIsClean`, by `Sync`: who may
  be waiting where (`Waiters`), how `finished` follows main and what an exited
  worker implies (`Phases`), `NoLostWakeup`, and `Room`: while n
  dispatchers wait for room on the prefetch stack it holds at least n jobs more
  than `PrefetchMax` less the number of client workers. `NoStrandedProducer` is not
  inductive without `Room`: a pop wakes one dispatcher only, and nothing but the
  number of jobs left says that enough pops will follow to wake the others.

*Relay.* Assumed: finitely many threads, a chunk at least. `RelayInv` is
`TypeOK`, `Stages` (what a thread holds at each place) and, for each page,
`Owned`: the record counts at least the readers there are, has at most one owner,
who is known to it, and no readers while it is being written. "At least" and
"also a thread that has returned without closing the file" make it hold on
the error paths: a record that is never closed errs on the safe side. From it
follow `RelayTypeCorrect`, `OneWriterOrReaders` (`ExclusiveWriter`) and
`PagesAreStable` (`StableWhileRead`), for every set of faults.

*Relay, by faults* (RelayFaultProofs). What the error paths break is proved for
the faults that do not reach them, and the counterexamples of the runs show
that the limits are where they seem to be:

- `HitsAreWholeWithGoodPeers`: with faults among "open" and "connect" only, and
  headers that come whole (`HeaderComesWhole`): a cut header leaves a part of a page as
  a finished file without any fault. Inductive with `Complete` (how much a thread has read of the file, or received, at
  each place) and `Fresh` (a record that may be read has a whole file);
- `RecordsAreReleasedWithReachableServers`: with "server" and "length" only; it
  needs that whoever has a record is still to close it;
- `NothingLeaksWithReachablePeers`: without "connect" and "client";
- `RelayImplementsPageFiles`: with "open" only, and `HeaderComesWhole`. Initial states map to initial states,
  and each step of each thread to a step of one page or a stutter.

*Resolver.* Assumed: finitely many workers and distinct special values. `IInv` is
`TypeOK` with `TableInv` (what the table holds at each point of the loading),
`RequestsInv` (per worker and place: what is known of its status, its addresses
and what of them is still allocated), `LockInv` (who holds which mutex, by its place) and `CloseInv`
(when main is done all workers have exited). Proved for all lists, answers and
numbers of workers: `BlockedNeverServed`, `OnlyBlockedRefused`,
`LookupIsExclusive`, `LeaksAreBlocked`, and the types.

*Exchange.* Assumed: texts are texts, buffers of at least two symbols. `IInv`
is the types, `Fetched` (what is fetched has a target, what is relayed a page) and the three properties
proved with it, `QueuedIsIncomplete`, `HeardExpires`, `NoSilentEnd`. `EndsAreAnswered` is about
connections that never get as far as a page: those that do, and whose server cannot be reached,
are ended without an answer. All that is used of
the parser there is that it says FAIL only for a text without a line end, and that
positions are numbers, for which `Min` and `Max` of the sets of positions have
to exist (well-foundedness of the naturals).
`PagesAreWhole` proves `WholePage` for all pages and cuts: the
first empty line of what has come is the one that ends the header
(`LengthsAreRight`, from the shape of `HeaderText`), so what the loop counts
down is exactly what is still to come (`Counted`), and pieces follow each other (`Pieces`).

*Answers* (AnswerProofs). `RequestsAssumption` says that a request is what it is
taken for: its method, version, URL and `Host` line hold no separator that ends
them (a name with a space in it would be two words to the model as to the
code), paths begin with `/`, and hosts that resolve hold no separator either, as
`getaddrinfo` knows no such names. Names are taken to fit `hostname`
(`MAX_NAME_LENGTH`), into which they are copied without looking. Everything else is free: any
method, scheme, version,
paths of any length (of which `MAX_URL_SIZE` symbols are kept), missing parts, blank `Host` lines, headers of which only some have
come. First the position of each separator in the text of a request is
proved (`SpacesOfLine` and `EndOfLine` for the request line, `HeaderPositions` for
the rest), then what `Find` and `FindLast` make of a text of which only the
first n symbols have come. `ParserWaits`: as long as the request line is not
whole the parser says FAIL. `ParserIsRight`: from then on it gives the parts of the
request, however much of the headers is there, and the host of the URL unless a
`Host` line names another, or ends the process because the line is blank. The invariant
is `AnswerInv`: `RightAnswer`, `CrashNeedsBlank` (proved as `OnlyBlanksCrash`), and that a job that waits has
neither answer nor target, without which they are not inductive: `RightAnswer`
says nothing of a request that was answered and looked at again. It uses `IInv`:
a buffer that held a whole line would have been answered at an earlier visit.

*Links* (LinkProofs). `LinksAssumption`: the names of links hold neither the quote
that ends them nor `href=`, nor spaces and line ends (an HTML link that holds
them is not a URL; the code would send it as it is), and a host is followed by a
path that begins with `/` or by none. `PrefetchesNameLinks` builds the request
that a link stands for, shows that `PrefetchRequest` is its text, and applies
`ParserIsRight`. Nothing is said of a link that an earlier page has left in the
buffer, for which the code may also make a job. `PrefetchInv` says that links are only dispatched of pages whose host was
resolved. `LinksAreFound` needs three things. What a page shows: each link of its text
begins with `href=` and ends before the next, and each link of the page is
there (`PageShowsLinks`; `FlattenSeq` is a recursive function of the community
modules, shown to exist by a smallest counterexample, `FlattenExists`). What a block finds:
`find_href` returns the first link behind the position if it ends in the block,
whatever lies in memory behind the block (`BlockFinds`). And the
inductive invariant `LinksInv`: no link that begins before `pos` ends behind it, and all
of those have been taken (`Searched`); with `WithinBlocks` the next link then
ends in the next block (`NextLinkIsNear`).

*Only model-checked*: all liveness (`HeardIsClosed`, `ShutdownCompletes`,
`RequestsEnd`, `StalePagesAreRefreshed`, `RequestsAreResolved`, `HeardEnds`,
`PageEnds`), which is out of the prover's reach. Every invariant of a
passing run, `StableWhileRead` and both refinements are proved, those of
`relay_live` for the faults named above. The assumptions on the constants
are checked by TLC in each run that extends their modules.

## Not modelled, and why

- Option parsing and the set-up of the listening socket: done before any thread
  is started, nothing of it is kept.
- `popen` of `md5sum`: a page stands for its hash. `uthash.h` (third party) is
  the map and the set it is used as.
- Names longer than `MAX_NAME_LENGTH`, which `block_table_add` cuts and
  `parse_request_string` copies beyond the end of `hostname`; memory that runs out.
- The bytes of a symbol (see Parsing): a piece such as `HTTP/1.1` arrives whole.
- What TCP does when a socket is closed with unread data (the client may lose the answer), and
  what clients make of the error replies.
- The drivers among the manual tests (`block-table-test.c`,
  `cache-record-test.c`, `job-stack-test.c`, `resolve-host-test.c`): they call
  the functions one after the other, and print; the runs call them in every
  order. The clients and `parsing-test.c` are the source of the instance of
  Exchange.
- Server does not open up the relay and Relay not the stacks: the relay's
  outcome is free in Server, so whatever Relay does is covered, except for not
  returning at all (`Spins`) and dying.

## Findings

`PROJECT.json` has them with the lines they contradict: the mutex that `push`
keeps on a finished stack (`server_finish`), the record of an unreachable
server (`relay_abandoned`), the page cut short by its client
(`relay_truncated`), the file pointer nobody assigned (`relay_unavailable`), the
header cut by the network (`exchange_cut`), and the buffer that is full to the last byte
(`exchange_full`), which `NoSilentEnd` leaves to that run.

Three more disagreements can be read off a single line each, and have no run of
their own. The models do what the code does, and no property takes a side:

- *https URLs.* Case 2 of `parsing-test.c` (line 68) expects `NOT_SUPPORTED`, a 505;
  `parsing.c:79-80` makes it MALFORMED, a 400. `Deserved` allows both.
- *Silent connections.* `worker.c:73` says of every job that is put back that its
  "expire time [is] already set during `process_job`"; one that has sent nothing is put back
  (122-123) without one, and stays until the server stops. `HeardExpires` is about
  the others.
- *Ports in the block list.* `src/README.md:10` describes entries with ports;
  `resolve_host` cuts the port off (226-231) before it asks the table (233), so they
  never match. `BlockedIsNotServed` is about entries without.

The empty or blank `Host` line and the URL without a path,
which end the process, contradict no sentence of the repository:
`CrashNeedsBlank` says that there is no third way.

## Plan

Done: all components above. What would come next:

1. Server with the spinning and the dying of Relay as outcomes of
   `process_job`: how many stuck workers a shutdown survives (none).
2. Two keys in Relay under one table mutex, if the table ever evicts pages;
   now records of different pages share nothing.
