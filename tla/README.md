# Verification of the socket programs of 3k-code

The repository is a C++ workbook: TCP servers over `epoll` and `select`, the
clients that talk to them, programs that fork, daemonize and handle signals, a
small job that reads a database, and single-file exercises. Its own logic with
state, order and failure lies in the servers, the clients and the process
supervisors, and that is what this project models and checks with TLC. Every
safety property the runs check, the refinement of the main server's protocol
included, is also proved with TLAPS for all values of the constants.

Paths of the source are relative to `src/my_cmake/src/`.

## Inventory

| component | state | operations | what is hard | what makes it correct |
|---|---|---|---|---|
| epoll server, `epoll/epoll_socket.cpp` | tables by descriptor `recv_msg`, `total_len`, `used_size`, `finish_flag`; the array of events; the kernel's interest and ready lists | the loop of `onepoll`, `onaccept`, `onread` with `adjust_buf` and `release_buf`, `onwrite` | edge triggering, reuse of descriptors inside one batch of events, requests cut over reads, buffers that grow, short writes, peers that leave at any moment | no wakeup lost, no event for another connection, buffers within bounds, every byte in its own request, one reply for each request, every connection served and closed |
| earlier epoll server, `socket/epoll_socket.cpp` | the same tables | the same loop with handlers written in place, `adjust_buf` | as above; the first buffer is not zeroed, the close paths leave the tables as they are, a failed send ends the reply | as above, but a reply is given up where its peer asks before it has read all it was sent, or resets; no buffer lost |
| select server, `socket/select_socket.cpp` | `list_accept_fd`, `vec_close_fd`, the set `select` filled | `onselect`, `onReplyFromServer` | blocking reads after one `select`, a list edited while it is walked, descriptors used again | the list is what is open, no first read blocks, all answered, all reclaimed |
| epoll client, `epoll/client.cpp` | per process: address, descriptor, two threads; per message: `body_len`, `recv_msg` | `main`, `onconnect`, `getIpbyHostName`, `onread` with `judge_recv`, `onwrite` | a stream cut anywhere against a reader that expects messages; children that end in any state | a message is a reply; the thread ends with the stream; one client, again and again connected |
| signal supervisor, `other/signal.cpp` | two workers, the stack of handlers, pending signals | `main`, `sig_proc`, `ontest` | signals merged, discarded, and handlers that interrupt each other | no worker replaced twice or forgotten, both there in the end |
| earlier client, `socket/client.cpp` | as the epoll client; the text in its socket | the same `main`; `onread` with `MSG_DONTWAIT`, `onwrite`, `main` waits for the writer | EAGAIN ends the process, so that a child lives only while text is at hand | one client at a time; none stays while the server is silent, and another one connects |
| simple client, `socket/client_socket.cpp` | one connection, two threads | `main`, `onread`, `onwrite` | the descriptor is closed at the end of the stream and read again; the writer waits for the user | the reading thread ends, and the process once the input does |
| daemon, `other/daemon.cpp` | `g_run`, the session, descriptors 0 to 2 | options, `daemonize`, `signal_handler`, the loop | a signal in any gap; SIGHUP, which the handler knows and nobody registers | a request to end is followed |
| driver trace job, `driver_trace/src/` | configuration; of `CMysqlWrapper` the result, `select`, `v_fields`, `v_result` | options, signals, `daemonize`, `PLConfig::init`, statements, `printInfo`, `getResult` | standard output and a database connection share the descriptor table; results that are empty, failed or left from before | output apart from the connection; a list is the column it was asked for, of one result |
| older variants `*.head`, `*.bk`, `*.ok` | | | the `.head` server reads a head with a length; no build file compiles them | not modelled |
| copies, `cpp_20170602/` | | | byte for byte `socket/` and parts of `other/` | modelled where their originals are |
| HTTP client, database examples, exercises (`db/`, `stl/`, `template/`, `boost/`, most of `other/`) | none that lasts | calls of libraries, a few values printed | none | not modelled, see the end |

How they interact. A client process and a server process share one TCP
connection and nothing else; inside the server a single thread serves all
connections, so that connections meet only in its tables, in the descriptor
numbers the kernel hands out again, and in the order of events. Client and
supervisor are pairs of a parent in `waitpid` and the children it forks; they
meet through the process table and signals. The epoll client and the epoll
server do not fit together: `cin >> msg` never yields the `"\r\n\r\n"` the server
waits for, and the head of a reply is two characters long where the client reads
eight bytes (`ReplyChannel`). The driver trace job shares its start with the
daemon - options, signals, `daemonize` - and then uses one `CMysqlWrapper`;
descriptors are what the two halves have in common.

## Modules

| module | models |
|---|---|
| `Sockets` | external: the backlog, the table of descriptors, receive and send queues, and what a peer does (connect, send, read, close, abort) |
| `Epoll` | external, over `Sockets`: interest and ready lists, `epoll_ctl`, `epoll_wait`, the edges peers cause |
| `EpollServer` | `epoll/epoll_socket.cpp` over `Epoll` |
| `RequestReply` | abstract: what an epoll server promises each connection, and with `GiveUp` what is left of it when a failed send ends the reply |
| `EpollServerProofs` | theorems about `EpollServer`: what the loop and its handlers keep true |
| `EpollServiceProofs` | theorems about `EpollServer`: what its clients get, and that it implements `RequestReply` |
| `SocketEpollProofs`, `SelectServerProofs` | theorems about the other two servers |
| `ReplyChannelProofs`, `ClientProofs` | theorems about `ReplyChannel` and about both clients' processes (`SocketClient`) |
| `SignalProofs`, `DriverTraceProofs` | theorems about `SignalSupervisor`, and about `DriverTrace` and `MysqlWrapper` |
| `SocketEpollServer` | `socket/epoll_socket.cpp`, over the tables, the loop and the helpers of `EpollServer` |
| `SelectServer` | `socket/select_socket.cpp` over `Sockets` |
| `ReplyChannel` | `onwrite` of the epoll server, a stream of bytes, `onread` of the epoll client |
| `ClientSupervisor` | the processes and threads of `epoll/client.cpp` |
| `SocketClient` | `socket/client.cpp`, over `ClientSupervisor`: a behaviour is of one of the two clients, so that what both parents owe is checked of both |
| `SimpleClient` | `socket/client_socket.cpp` |
| `SignalSupervisor` | `other/signal.cpp` |
| `Daemon` | `other/daemon.cpp` and the same beginning of `driver_trace/src/baidu_location.cpp` |
| `MysqlWrapper` | `driver_trace/src/CMysqlWrapper.cpp`: one object, its methods called in any order |
| `DriverTrace` | the rest of the job, composing `Daemon` and `MysqlWrapper` |
| `MC*` | values of the constants for TLC |

### From code to actions

One action is one system call of a thread together with all the thread does up
to its next call; the `epoll_ctl` after a read or a write that moved bytes
belongs to the step of that read or write. After a read that returned EAGAIN it
is a step of its own (`Rearm`), for what arrives in between is what an
edge-triggered server can miss. Peers step between any two steps. Names follow
the code: `OnRead` is the beginning of `onread`, `ReadAgain`, `ReadCloses`,
`ReadPart` and `ReadWhole` are the rounds of its loop (EAGAIN; error or end of
stream; data without and with the terminator), `WriteHead`, `WriteBody` and the
two failures those of `onwrite`.

Decisions a reader of the code may want to check:

- Bytes are pairs `<<c, i>>`, the i-th byte of the text connection `c` sends, so
  that a buffer tells where its contents come from. Texts consist of the bytes
  the code compares: `\r`, `\n`, `\0`, and one other.
- `adjust_buf` copies `strlen` bytes into zeroed memory: after a `\0` the bytes
  behind it are lost while `used_size` still counts them (`Grown`). It keeps the
  old buffer; `heap` counts the buffers allocated.
- A head that is sent short is taken for a whole one, as in the code; the reply
  counts as torn then.
- A request remembers whether its peer asked ahead, that is, whether bytes sent
  to it were still unread when the request was complete.
- The comparison with the terminator reads the last four received bytes. With
  fewer than four it reads the size word the allocator keeps before the buffer,
  whose upper bytes are zero, so it does not match.
- `EPOLL_CTL_ADD` may fail (`"enospc"`); the descriptor then stays open and
  unwatched, as in the code. `accept` fails when no descriptor is free, and the
  connection stays in the backlog. The other error paths of `epoll_ctl`, which
  forget the descriptor, are not modelled because `EventsFresh`, which is
  checked and proved, excludes them.
- A FIN or RST puts a descriptor on the ready list whatever it waits for, data
  only one registered for EPOLLIN, space only one registered for EPOLLOUT. A
  peer that reads drains its queue. A send after a reported reset raises SIGPIPE
  (`WriteKills`), after which nothing is followed.
- `peer` ends as `"over"` when the server closes the descriptor. It stays
  `"gone"` for ever in the epoll server when a send, not a read, found the reset.
- In `SelectServer` the text of a request is left out, since no step depends on
  it: the code appends `msg` as a C string, which runs on into the stack when a
  read filled `msg` and loses what follows a `\0`, and then only prints it. What
  is kept is whether the present request has had a read (`got`). At the end of a pass the code takes each closed
  descriptor out of the list; `EndPass` states what is left, the open ones in
  their order (`Kept`).
- In the earlier epoll server a first buffer is full of `Unknown` bytes, since
  nothing zeroes it. When it is outgrown, `strlen` ends at a `\0` among the
  received bytes; where there is none, and nobody has written the byte behind
  them, it may end anywhere, and what follows the received bytes in the new buffer
  is unknown again (`GrownNN`). That `strlen` may run, and `memcpy` write, beyond
  a buffer is undefined and not followed. A byte may also be the zero that
  `adjust_buf` left where it lost what followed a `\0` of the stream (`Zeroed`).
- In `ReplyChannel` a head read in the middle of a body is any text. `Atoi` gives
  the number, or any number when the digits fill `msg` and run into the stack or
  a byte behind the message is not known; `Appended` likewise. Sends of the server
  that fail or are short are left out: the queue has room for a reply. With
  `Delayed` a read may return less than was sent, the rest being on its way;
  without it every read takes all there is, up to the size of `msg`.
- In `ClientSupervisor` `sin_addr` is what the allocation left in it, because
  `getIpbyHostName` loses its result: one of `Addresses`. `shutdown` and `close`
  of `judge_recv` are two steps (`ReaderShuts`, `ReaderEnds`): in between a send
  of the writing thread raises SIGPIPE, afterwards it only fails.
- In `SocketClient` the address is lost as well, but `sin_addr` was set to
  `INADDR_ANY` before and `server_ip` is not cleared: any of `Addresses`, or the
  host itself. `pthread_join` of the writing thread never returns, because that
  thread only ends the process. Which of the text read is printed is left out.
- In `SimpleClient` a `recv` of the closed descriptor fails with `EBADF`, which
  is what ends the thread. When the input has ended `cin` leaves the array as it
  is: what it holds is sent again and again, unless it is empty.
- In `Daemon` the process that runs `main` is followed, and of the one that forked
  it that it exits (`ParentExits`): a SIGTERM it takes before that is lost to the
  child (`ParentTerminated`). A SIGTERM before `signal` kills the program. The handler of `daemon.cpp` writes to `std::cout`, which
  `main` may just be writing to: that may work or end the process
  (`"crashed"`). `-s` without a text makes a string of a null pointer, which ends
  the job.
- In `MysqlWrapper` the connection was made without exceptions
  (`conn(false)`): a failed statement leaves an empty result, a row has an empty
  text for a name that is no column, the empty name among them (the default of
  `getResult` when all columns were asked for). `" limit " + limit` drops `limit` characters
  of the text instead of adding a number, and an order is added only when there
  is none: such a statement is accepted only where what is left is blank, or may
  be, beyond the text. A list is kept in pieces, the values whole.
- In `DriverTrace` the values of the configuration are left out. `etc/setting.conf`
  gives the port as a string, `isInt` refuses it, and the port stays
  uninitialized: `Connect` may always fail.
- In `SignalSupervisor` a running handler blocks its own signal (`signal` of
  Linux), a pending signal is not counted, and the stack holds at most one
  frame of each handler.

## Runs

Bounds are named constants. They were raised until each of these happens:
descriptors used again while older events wait, the backlog fuller than one
`accept` empties, buffers that grow in the middle of a terminator, the send
queue filled by one reply and a part of the next, three or more children one
after the other. `NUM` 10, `HEAD_LEN` 2, `REPLY_LEN` 13, `WRITE_SIZE` 8 and the
sizes of `ReplyChannel` and `SocketClient` are the code's own values; `INIT_BUF_SIZE` is 3 instead
of 10 and `MAX_EVENT` 2 instead of 16, so that more can be ready than the array holds, `MSG_SIZE` 2 instead of 10 in the select server and instead of 1024 in the simple client, so that streams of a few
bytes reach every boundary.

| run | instance | what it shows |
|---|---|---|
| `epoll_reuse` | three connections (two of them symmetric and silent) on two descriptors; close, abort, failed ADD | `EventsFresh`, `AcceptNeverBlocks`, `NoLostWakeup`, and that the server implements `RequestReply` (321,474 states) |
| `epoll_pipeline` | one peer that pipelines, one with a `\0` in its request; both may close | `BufferBounds`, `StreamPartitioned`, `TerminatorNeverMissed`, `TornOnlyWhenPipelined`, `BodyCoversReply` (1,495,172 states) |
| `epoll_live` | fair; two connections on two descriptors, peers may close; one connection waits at a time | `EofReclaimed`, `StreamServed`, `ImplementsRequestReplyFairly` (84,761 states) |
| `socket` | fair; two connections on two descriptors, one sending two requests, the other a part of one; every fault | `BuffersReleased`, `CarriedOnlyAfterClose`, that the server implements `RequestReply` but for the replies it gives up, `GivenUpForCause`, `ReadToTheEnd` (230,582 states) |
| `select` | fair; three connections on two descriptors; close and abort | `ListIsOpen`, `ReportedIsReadable`, `AllAnswered`, `Reclaimed` (448,080 states) |
| `reply` | fair; three replies read write by write, or one cut anywhere; the server closes anywhere | `PacedMessageIsReply`, `RepliesPrinted`, `EndNoticed` (18,587 states) |
| `client` | fair; both clients, every fault, three of them at most; up to 21 bytes of text in a socket against a buffer of 10 | `AlwaysOneClient`, `Reconnects`, `ClientsTurnOver` (1,536 states) |
| `signal` | fair; four deaths, SIGTERM at any moment, failed forks | `WorkersConserved`, `Restored`, `NeverIdle` (1,728 states) |
| `simple` | fair; texts up to five bytes against a buffer of 2, the server closes or resets, the input ends | `ReaderLeaves`, `ProcessEnds` (385 states) |
| `mysql` | results of none to three rows, one or two columns; every method, with any key or none, limits around the length of `" limit "` | `ListNamesOneColumn` (3,852 states) |
| `driver_trace` | fair; both programs, SIGTERM and SIGHUP at any moment, failed fork, `/dev/null` that cannot be opened | `OutputApart`, `ShutdownHeeded` (731 states) |
| `reply_head` | one reply, every read taking all that has arrived | ends with a counterexample, the finding below |

`MaxWaiting` bounds the connections in the backlog at one time. It is 1 in
`epoll_live`: the listening descriptor is edge-triggered and `onaccept` accepts
once for each edge, so of two connections that arrive together one waits for a
third. That every connection is accepted is therefore not true and not stated;
`StreamServed` and `EofReclaimed` need it to be, which is what the bound is for.
`LastFd` stays below `NUM`
(`SlotAssumption`): what the code does beyond its tables is undefined.
`MaxReplies`, `MaxCut` and
`MaxLen` (lengths above it behave alike, no stream here is that long) bound
`ReplyChannel`, `MaxTroubles` what goes wrong in `ClientSupervisor`, `MaxDeaths`
the workers that end, `MaxText` what the server sends ahead of a reader, `MaxFd`
the descriptors of `Daemon`. Two process identifiers in `ClientSupervisor` and three in
`SignalSupervisor` are one more than the code needs, so that a child too many
would show.

Deadlock is checked where the server polls with a timeout of 0 and nothing can
kill it. It is not where SIGPIPE or an error ends a program, `epoll_wait` or
`select` waits without a timeout, or a parent sleeps.

Every property has a mutant, an operator named `<Definition>_<what is wrong>`
next to the definition it replaces; the property fails under it in the same run.

### Fairness

Weak fairness of the one server thread: it never waits for another thread, and
its calls return (the epoll servers' are non-blocking; a blocking call of the
select server is a step that is not enabled until it returns). Weak fairness of
a peer's reading: clients of the repository have a thread that does nothing
else, and without it no server can promise a reply. `SelectServer` also assumes
that peers leave in the end, because one that stays silent in the middle of a
request of ten bytes stops the thread for good. Sending, closing and aborting
are never assumed elsewhere. For the process models the kernel lets parent and
children run on (`WF_vars(Parent)`, `WF_vars(Child(p))`; in `SocketClient` the reading thread,
which never waits, is part of `SocketChild`); faults, the user and
the server are free. In `SimpleClient` the writing thread runs on only once the
input has ended, for it otherwise waits for the user. In `DriverTrace` `main`
runs on, its sleep ends and calls of the database return; signals are free.
`Reclaimed` also assumes that descriptors are freed again
and again: with none left `accept` fails, `continue` skips the reads, and nothing
is ever closed.

## Properties worth knowing

- `NoLostWakeup` (epoll): a watched connection that is ready is on the ready
  list, among the events, or being handled, however arrivals fall between a read
  that returned EAGAIN and the `epoll_ctl` after it.
- `EventsFresh`: an event in the array, when its turn comes, is about the
  connection now behind its descriptor and the event it is registered for,
  although handlers before it closed and accepted.
- `StreamPartitioned`: the requests of a connection and its buffer are, end to
  end, what was read from it.
- `ImplementsRequestReply`: the mapping takes a connection's phase from its
  descriptor's registration, `asked` from the requests, `answered` from the
  replies sent whole.
- `BodyCoversReply`: however writes are cut, a finished body holds what the head
  announced and less than one write more. `ReplyChannel` takes it from there:
  with the stream read write by write the client prints exactly the reply.
- `ImplementsLossyRequestReply` and `GivenUpForCause` (earlier server): a send that
  fails breaks off the reply and registers the descriptor for EPOLLIN, so that a
  request can stay without its reply; this happens only to a connection one of
  whose requests was complete when bytes sent to it were still unread, or that was
  reset. `TornOnlyWhenPipelined` says the same of replies that the epoll server
  sends again from their head. A peer that reads each reply before it asks again
  meets neither.
- `CarriedOnlyAfterClose` (earlier server): bytes of another connection appear
  only where that one was closed inside a request, and bytes of memory nobody has
  written never do.
- `WorkersConserved`: children, forks a handler still owes and failed forks are
  always two.
- `ClientsTurnOver` (earlier client): while the server is up and silent a client
  is connected again and again, and again and again there is no child at all,
  because EAGAIN has ended it and the parent has waited for it.
- `OutputApart`: the two copies of `/dev/null` are what keeps the connection to
  the database off descriptor 1. It excludes a `/dev/null` that cannot be opened:
  then the connection of `mysql_zs` is descriptor 0 and the rows go to a closed
  descriptor 1, that of `mysql_trace` is 1, and what its constructor prints goes
  into it.
- `ListNamesOneColumn`: the list for the next statement names exactly the values
  of the column asked for in one result - a lone parenthesis if there are none -
  and is never made of two results, whatever failed in between; after a failed
  statement it is, unnoticed, the list of an earlier result.

## Findings

`reply_head`: `onread` of the epoll client reads `sizeof(msg)` = 8 bytes as the
head of a reply, the server sends it in two characters. When head and body are in
the queue together the client takes the beginning of the body along and prints
something else.

Other defects the models had to follow, each visible in the module named:

- The tables of the epoll servers have ten slots, are indexed by descriptor, and
  the first connection has descriptor 5: the sixth open connection indexes them
  beyond their end (`SlotAssumption` of `EpollServer`).
- `getIpbyHostName` of both clients assigns the address it found to a parameter,
  and `connect` uses what was in `sin_addr` (`Resolve`).
- The first buffer of the earlier epoll server is never zeroed, so that the `strlen`
  of `adjust_buf` runs on in unknown memory (`GrownNN`).
- The close paths of the earlier epoll server leave the buffer of the descriptor
  for the next connection (`Leftover` of `SocketEpollServer`).
- `adjust_buf` of the epoll server loses the old buffer at every growth, though
  `release_buf` is there to release what a request held: `BuffersReleased`, which
  is checked of the earlier server, fails of it at the first growth. And 16 bytes of body follow a head that says
  13 (`BodyCoversReply`).
- In `CMysqlWrapper` the number of `limit` is added to a pointer, the test of
  `order_by` is the wrong way round (`Accepted`), the list of an empty result is
  a lone parenthesis (`Listed`); `getResult()` without a parameter has an empty
  body and is not declared in the class, so that the file does not compile as
  it is.
- Of two connections that arrive at one edge of the listening descriptor the
  epoll servers accept one (`Accept`).
- The earlier client forks for ever while the server is silent
  (`ClientsTurnOver`).

## Proofs

All theorems hold for any connections, descriptors, processes, streams, faults
and sizes that meet the named assumptions of the modules (`SlotAssumption`,
`QueueAssumption`, `SizeAssumption` and the like). Three have a hypothesis more,
named below.

| theorem | property |
|---|---|
| **epoll server**, `EpollServerProofs` | |
| `Invariance` | the inductive invariant `IInv` |
| `TypeCorrect` | `EpollServerTypeOK` |
| `BuffersBounded` | `BufferBounds` |
| `EventsAreFresh` | `EventsFresh` |
| `AcceptDoesNotBlock` | `AcceptNeverBlocks` |
| `NoWakeupLost` | `NoLostWakeup` |
| `BodiesCoverReplies` | `BodyCoversReply` |
| **epoll server**, `EpollServiceProofs` | |
| `StreamInvariance` | the inductive invariant `StreamInv` |
| `StreamsPartitioned` | `StreamPartitioned` |
| `TerminatorsFound` | `TerminatorNeverMissed` |
| `TornOnPipelinesOnly` | `TornOnlyWhenPipelined`, if `SNDBUF >= HEAD_LEN + REPLY_LEN` |
| `Refinement` | `ImplementsRequestReply` |
| **earlier epoll server**, `SocketEpollProofs` | |
| `InvarianceNN` | the inductive invariant `InvNN` |
| `EveryBufferIsHeld` | `BuffersReleased` |
| `OnlyLeftoversAreCarried` | `CarriedOnlyAfterClose` |
| `LossyRefinement` | `ImplementsLossyRequestReply` |
| `RepliesGivenUpForCause` | `GivenUpForCause`, if `SNDBUF >= REPLY_LEN` |
| **select server**, `SelectServerProofs` | |
| `SelectInvariance`, `SelectTypeCorrect` | the inductive invariant `SelectInv`, the types |
| `ListNamesTheOpen` | `ListIsOpen` |
| `FirstReadsDoNotBlock` | `ReportedIsReadable` |
| `RequestsAreAnswered` | `AllAnswered` |
| **epoll client**, `ReplyChannelProofs` | |
| `ChannelTypesCorrect` | `ReplyChannelTypeOK` |
| `PacedRepliesPrinted` | `PacedMessageIsReply`, if `SizesAgree` |
| **both clients' processes**, `ClientProofs` | |
| `ClientTypesCorrect` | `SocketClientTypeOK` |
| `OneClient` | `AlwaysOneClient` |
| **signal supervisor**, `SignalProofs` | |
| `NoWorkerForgotten` | `WorkersConserved` |
| **driver trace job**, `DriverTraceProofs` | |
| `OutputStaysApart` | `OutputApart` |
| `ListsAreColumns` | `ListNamesOneColumn` |

The hypotheses. `SNDBUF >= HEAD_LEN + REPLY_LEN`, or without the head in the
earlier server: a whole reply, a few dozen bytes, fits an empty send queue; the
smallest the kernel makes is some thousands of bytes. `SizesAgree`: the server writes as many bytes at a time as the client
reads, which is 8 in both sources, they are three or more, so that a head of two
digits does not fill `msg`, and `MaxLen`, a bound of the model, is not below the
length of the message.

None of the properties is inductive alone.

The type invariants `EpollServerTypeOK`, `ReplyChannelTypeOK` and
`SocketClientTypeOK` are proved and not listed in a run.

### The epoll server

`IInv` is `Core /\ Buffers /\ NoLostWakeup /\ Owed /\ Bodies`, and `Core` is the
part both epoll servers share:

- the types;
- `Links`: descriptors and connections are tied one to one, a connection in the
  backlog has no descriptor, a watched one is neither unborn nor over;
- `Dispatch`: what the thread knows of the descriptors whose events it holds -
  `EventsFresh` and `AcceptNeverBlocks`. It needs `Links` to see that `accept`
  takes a descriptor no event is about.

To `Core` are added

- `Buffers`: `BufferBounds` - the sizes (`BuffersSized`), and that all behind the
  received bytes is zero, which a growth keeps because `memcpy` copies no more
  than `strlen` bytes into zeroed memory (`PaddingKept`) - and
  `Cardinality(Live) <= heap`: a buffer is deleted only where one is live, so
  that `heap` stays a natural number;
- `NoLostWakeup`, which needs the other parts to see that a step at one
  descriptor leaves the readiness of all others alone;
- `Owed`: requests less replies is 1 exactly while the connection is registered
  for EPOLLOUT, 0 otherwise;
- `Bodies`: while a body is written, what is sent and what is left are the reply.

Each part has a lemma with one step per action (`TypeStep`, `LinksStep`,
`DispatchStep`, `BuffersStep`, `WakeupStep`, `OwedStep`, `BodiesStep`); facts
about buffers and sizes (`SizesInRead`, `FilledIsBuffer`) come before them.

`StreamInv` carries `StreamPartitioned`, which speaks of connections that have a
buffer only. A new buffer begins where the last request ended because everything
read from a connection without a buffer has been delivered, unless it is over
(`CaughtUp`); a growing one loses nothing of a stream without `\0`, where
`strlen` is `used_size`, and replaces bytes of another by zeroes at most
(`BufferOK`, `AdjustedKeepsBytes`); and when what was read ends in a terminator,
fewer than four bytes of it are still to be delivered, since the four of the
terminator would have been the last in the buffer (`Found`, `TerminatorFound`).

For torn replies two further parts are kept: the queue of a connection that never
asked ahead holds what is being sent and nothing else (`QueueOK`), so a send is
refused or cut only when the queue is full of an earlier reply; and a connection
with a torn reply has asked ahead or was reset while it was owed one (`TornOK`).

`Refinement` maps each step to a step of `RequestReply` at one connection or to
none. The phase of a connection is that of its descriptor (`PhaseOfWatched`),
which `Links` makes unique; `Dispatch` says for which event the descriptor at
hand is registered. `AcceptAdmits`, `ReadWholeAsks`, `WriteBodyAnswers` and
`ReadClosesCloses` are the steps that show, and `StepRefines` goes through all
actions.

### The earlier epoll server

`InvNN` is `Core /\ BuffersSized /\ BuffersReleased /\ Origins`. The steps the
server shares with the other one keep `Core` by the lemmas of
`EpollServerProofs`; `LinksNN`, `DispatchNN` and `ReadTypeNN` treat its own. The
count of buffers is exact here, as `adjust_buf` of this server deletes the old
buffer. `Origins` says of every received byte in a buffer that it was read from a
connection and is in none of its requests, and that this connection is the one
behind the descriptor or is over (or the byte is `Zeroed`); of every byte of a
request that it is its connection's own, a leftover of a connection closed
inside a request, or `Zeroed` - never `Unknown`, because a growth copies what was
received before anything else (`AdjustedHeld`). Closing a descriptor moves its bytes from the
first case to the second, which is why the invariant has to speak of connections
that are over.

`LossyRefinement` needs `Core` only: the shared steps are mapped by `StepRefines`,
and `CloseNNCloses`, `WholeNNAsks` and `BreakGivesUp` are the steps of its own that
show. `SentNN` is the invariant behind `RepliesGivenUpForCause`: as long as no
reply of a connection was given up, requests less replies is 1 exactly while it is
registered for EPOLLOUT; the body written and `left_len` are the reply; and the
queue of a connection that never asked ahead holds no more than that body. All but
four kinds of steps leave these alone (`Quiet`, `LoudSteps`), and a write of such
a reply then finds room for what is left (`RefusedForCause`).

### The select server

`SelectInv` adds to `ListIsOpen`: `Links` as above;
`Place`, where the thread is in its list and that what the pass has closed is no
longer in the set of `select`; `Promised`, that every reported descriptor the
loop has not come to can be read without blocking - peers only add to a queue,
and the thread reads nothing but the descriptor at hand; `Answered`, requests
less replies while a connection is not reset; and `InStream`. A pass ends with
the list renumbered, and `NumberingNamesAll` shows that every numbering of the
open descriptors that keeps their order names each one once.

### The clients

In lockstep the two ends of `ReplyChannel` are in one of a few positions
relative to each other (`Lockstep`): between replies; the head sent and not
read; a multiple `o` of the write size read, and the next write not sent or not
read. `Holds(s, k, o)` says that the message so far is made of the first `o`
bytes of the k-th body in their order, and of bytes of the stack. `HeadIsLength`
and `BodyAdds` are what the client makes of a write: `atoi` of one or two digits,
and the bytes up to the NUL, which the last write holds when it is longer than
what is left of the message. The types need that a write begins at a multiple of
the write size (`Begins`), and that the recursive function in `Atoi` has a value
for every text (`ThereIsANumber`, `NumberIsLength`).

`ClientInv` says that the children are none or one and that the parent forks
only with none; a step of a child leaves it a child until it is waited for
(`ChildGoesOn`). `TextInv` adds the types, which need that a child of the earlier
client is never between its reading thread and its exit.

### Supervisor and job

`SignalInv` counts from the first fork on and adds that no handler runs before
it is installed, since no signal is kept for it; the steps of `sig_proc` change
one frame and one worker (`TopChanges`, `ForkCounts`). `TraceInv` says that
descriptors 0 to 2 are never free once opened, that one of 3 and 4 is free for
each connection (so that `Lowest` exists and is neither of the first three,
`LowestAboveStandard`). `Collected` says that `v_result` is what its last walk
collected - the column `source` names, nothing if there was no result - and that
the list was made of such a `v_result`, the one `given` names; the list built from it is a recursive function, and `AppendedIsPieces`
gives its value for every place, so that `ListedIsInList` finds each value in it.

### Recursive definitions

The two recursive functions the proofs meet, `Appended` of `MysqlWrapper` and
the number in `Atoi`, are handled without an induction theorem: the places at
which a claim fails form a set, a set of numbers that is not empty has a least
element (`WFMin` of `WellFoundedInduction`), and at that place the claim follows
from the one before. `SelectSeq`, of which the prover knows nothing, is not used:
`Kept` and `MessageIsReply` say directly what is selected.

### Only model-checked

Liveness: `EofReclaimed`, `StreamServed`,
`ImplementsRequestReplyFairly`, `ReadToTheEnd`, `Reclaimed`, `RepliesPrinted`,
`EndNoticed`, `Reconnects`, `ClientsTurnOver`, `ReaderLeaves`, `ProcessEnds`,
`Restored`, `NeverIdle` and `ShutdownHeeded` rest on fairness, which is out of
the prover's reach. `SimpleClient` has liveness properties only.

## Not modelled

- The HTTP client, a wrapper that sets options of libcurl and performs one
  request, which nothing in the repository calls; the database examples, single
  calls of client libraries; the database behind the job.
- The `.head`, `.bk` and `.ok` files: saved states of the servers and clients
  that no build file compiles. They differ from the modelled versions in wording
  and in steps that were finished later.
- The exercises of `stl/`, `template/`, `boost/` and `other/`: straight-line
  demonstrations.
- What is printed. The texts of log lines, wording and time stamps never
  influence a step, save where they go (`OutputApart`). Nor is the text of requests
  in the select server and of messages in the earlier and the simple client.
- `main` of the servers up to `listen` and after the thread: the initial state.
- Writing beyond an array (`cin >> msg` of the clients with more than 1023
  characters, the tables of the servers): undefined, and not followed.

## Plan

Done: every component with logic of its own, and a theorem for each of its safety
properties. Left: a larger instance of `SocketEpollServer` with a third
connection; step properties the liveness properties rest on, as theorems - that
`peer` and the streams only move forward, that a descriptor once closed in a pass
of `SelectServer` is not read in it again, that `printed` of `ReplyChannel` never
gets ahead of what the server sent.
