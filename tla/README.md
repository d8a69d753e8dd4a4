# ILEastic in TLA+

ILEastic is a web server in a service program for IBM i: an RPG or C program
registers servlets, routes and plugins, and calls `il_listen`, which accepts
connections and serves each in a thread or a job of its own. This directory
holds a TLA+ model of that server, written from its C sources, the TLC
configurations that check it on small instances, and proofs for TLAPS.

Paths below are relative to the repository (`src/ileastic.c` is the file of the
service program, `plugins/...` the optional plugins).

## The system

| part | state it keeps | operations | talks to |
|---|---|---|---|
| **acceptor** `il_listen`, `getSocket` (ileastic.c 950-1050, 1160-1335) | listening socket, the shared CONFIG, descriptors | open the socket, accept, TLS handshake, copy CONFIG into an INSTANCE, start a thread or a job | client (TCP), connection threads (INSTANCE), scheduler (same process) |
| **connection loop** `serverThread` (825-928) | REQUEST, RESPONSE, receive buffer, thread memory | receive head and payload, dispatch to plugins and servlet, write, end, clean up | client (bytes), callbacks, heap |
| **FastCGI transport** (fastCGI.c) | FCGX streams | accept, read parameters and body, write | web server |
| **scheduler** `schedulerThread`, `catcher` (930-944, 1097-1108) | second counter, shutdown flag | call the scheduler plugin, end the process | plugin, signals |
| **TLS** (1337-1646) | GSKit environment, session, certificate nodes | environment, handshake, certificate data | acceptor, connection loop |
| **plugins and routing** (`il_addPlugin`, `il_addRoute` in api.c, `runPlugins`, `findRoute`) | lists in the CONFIG | register before `il_listen`, run per request | connection loop, simple list |
| **simple list** (simpleList.c) | linked nodes | push at head or tail, iterate, look up, free | everything that keeps a list |
| **stream** (stream.c) | buffer with a position | write, flush, delete | a writer callback (`putChunkXlate`) |
| **request parsing** (ileastic.c 320-552, strUtil.c, api.c) | REQUEST | head, header list, parameters, segments; the getters | simple list, connection loop |
| **configuration** (api.c 314-470, ileastic.c 1117-1158) | CONFIG | setters, environment variables | acceptor, TLS |
| **heap** (teramem.c) | counters, a header before each block | alloc, free, realloc | everything |
| **strings, code pages, base64, media types** | none | conversions | everything |
| **plugins/** basicauth, authsystem, jwt, cors, kong, openAPI | configuration in static storage | pre request and post response callbacks | connection loop |

What is hard here, and what PROJECT.json lists line by line under "hazards":

- *Lazy header.* The header of a response goes out before whatever is written
  first, and any plugin, the servlet, the exception handler or the end of the
  response may be first.
- *Escape messages.* A callback may fail at any point. The handler writes into
  the response and control resumes in the callback or behind its call.
- *A stream cut anywhere.* A read returns any part of head and body, times out,
  ends or fails; buffer, request and response are used again for the next
  request of the connection.
- *One shared CONFIG.* The acceptor keeps the socket, the address and the TLS
  session of the current client in the configuration all threads are copied from.
- *Paths that fail.* A failed accept, handshake, thread or read each have their
  own clean-up, and a fault outside of the exception handler ends the thread
  with its socket open.
- *Bytes left unread.* What is not read of a body is searched for the head of the
  next request.
- *SIGTERM at any moment*, and a scheduler that tests the flag twice.
- *Pointers into a buffer*: parameters, headers and segments are lengths and
  positions in memory that is not cleared, with different ends over HTTP and FastCGI.
- *Values of before*: a route, a certificate element, a GSKit environment and a
  program compiled against an older header each may show what was there before.

## Modules

| module | models |
|---|---|
| `HttpExchange` | what a connection promises: accept a request that was sent (or, once it has lost track of where requests begin, what it takes for one), answer it with one header, chunks and one end, then the next |
| `Roundtrip` | the connection loop with everything it calls, over HTTP, TLS and FastCGI, and the client at the other end |
| `Scheduler` | schedulerThread and the signal handler |
| `Server` | il_listen, with its descriptors, next to the Scheduler |
| `SimpleList` | the linked list of simpleList.c against the sequence its pushes describe |
| `Response` | one response: headers, writes, streams and the end (api.c, stream.c, putHeader and putChunk of ileastic.c) |
| `Text` | strings of bytes and the routines that work on them: memmem, a2i, urldecodeBuf (strUtil.c, api.c) |
| `Base64` | il_encodeBase64 and il_decodeBase64 (base64.c) |
| `Routing` | il_addRoute, findRoute and the parameters of a route (api.c, ileastic.c) |
| `Request` | from the bytes of a request to the answers of the getters: extends Routing, Base64 and Text |
| `Configuration` | the setters, the environment variables, the GSKit environment and session, the certificates a request shows |
| `MCRoundtrip`, `MCServer`, `MCSimpleList`, `MCResponse`, `MCRequest`, `MCConfiguration` | the small instances for TLC |
| `RoundtripProofs` | proofs about the connection loop: types, the order on the wire, who may run the servlet |
| `DialogProofs` | proofs about the dialog with the client: which request is answered, how much of it is seen, when the connection is kept, what a failure leaves behind; that over plain HTTP `Roundtrip` implements the safety part of `HttpExchange` |
| `ParsingProofs` | proofs about the operators of `Text` and the parse functions of `Request`: what they return for what a client composed |
| `RequestProofs` | proofs about the reading of a request, with those of `ParsingProofs`, and about its route |
| `ServerProofs`, `SimpleListProofs`, `ResponseProofs`, `ConfigurationProofs` | the proofs about the module of that name |

PROJECT.json ("map") gives the source lines of every definition. Definitions
have the names of the C functions where they model one. A definition that begins
with the comment "Mutant:" is a deliberately wrong form of the one it stands in
front of; no specification uses it, it serves to show that a property can fail.

### Roundtrip

`pc` is the place of `serverThread`: `receive` (receiveHeader), `payload`
(receivePayload), `dispatch`, `pre` (runPlugins before the servlet), `servlet`,
`post`, `end` (putChunkEnd), `check` (Connection: close), `cleanup`
(cleanupTransaction), `closing`, `closed`, and `died`, where a NULL dereference
or a fault outside the exception handler has ended the thread with its socket
open: a head without two blanks (517-522), a memcpy with a negative length or one
beyond what was allocated (562), a request without a headerList (909), a
certificate node that was freed. `plugin` is the position in
the plugin list, `request` the fields of REQUEST the loop depends on,
`firstWrite` and `status` those of RESPONSE, `connected` the local variable.
`heap` names the blocks the loop has to free, the INSTANCE among them, `leaked`
counts those it has lost the last pointer to. `cert` follows the certificate node
of a TLS connection: the thread's `own`, `lent` to the thread memory of a request,
`freed` with it, or `dangling`, freed and moved once more.

A request is a number of *units*: pieces of the head, of which the last contains
the CRLFCRLF (`eoh`; or `half` of it comes with one piece and the `rest` with the
next), and pieces of the body, of which there are as many as Content-Length
says. TCP delivers units; a read takes any number of those that have arrived, as
far as the buffer (`SOCMAXREAD`) has room. The client may stall, hang up or reset
at any time, and may not read what is written to it (`config.reads`). It does not
pipeline: it sends a request after the end of the last response. It need not keep
to the grammar; its `flaws` are an empty line in front of the request line
(`lead`), fewer than two blanks in the head (`blankless`), a line without a colon
in front of Content-Length and Connection, which parseHeaders then does not reach
(`colonless`), a body that holds CRLFCRLF (`mimic`), and a CRLFCRLF sent in two
pieces (`split`), of which memmem, which reads up to three bytes too far, may find
the first half enough.

What was parsed from other bytes than a head (`request.clean` is FALSE) announces
any length of `StrayLengths`, closes or does not, and may break lookForHeaders.
`ghost.left` remembers the requests whose bytes were not all read as theirs: cut by
a timeout, with a hidden Content-Length, or parsed before the last byte. As long
as it is empty, server and client agree on where requests begin, and several
properties are stated for that case (`InSync`).

Callbacks (plugins, servlet) write, set the status, return *ON or *OFF, or raise
an escape message once per request, in any order (`acts` counts what they do, up to
`MaxActs`); the handler's resume point is nondeterministic among those the code can have. `wire` is what went to the socket,
as header, chunk and end tokens that carry the request they answer.

`config.isWorker` says whether the loop runs in a thread, which ends with
pthread_exit (924) and never gets to the memFree of its INSTANCE (926), or in a
worker job, which does. A content longer than announced (562) is written behind
its block on the heap: the thread dies or goes on, and what that does to other
blocks is not modelled. Behind a failed TLS read plugins and servlet run
for an empty REQUEST, and the thread dies at 909 if not before.

### Server and Scheduler

`acceptor` is the place of `il_listen`. `backlog` is the kernel's queue of the
listening socket. `conn` says for each client whether it is away, accepted, or
served by a thread or a job; `instance` is the copy of the CONFIG its thread got.
`fds` counts open descriptors, opened and closed one by one where the code does,
and `lost` those that nothing refers to any more. The connection itself is
Roundtrip's; here it ends at any time, or dies with its socket open, over any
transport, as receiveHeader (863) runs under no handler. A job gets no INSTANCE
from its parent: it is another process that builds its own from the pipe (1266-1290),
so that `ContextIsOwn` speaks of threads; the parent's INSTANCE for it is a copy
nobody uses.

`Scheduler` has a step for each place of `schedulerThread` at which the signal
may come in between: after the sleep, after the test of the call, after the call,
and before the test of the exit. One step of `sleep` is a second. A call comes every
`Timer + 2` of them (`SchedulerPeriod` in `ServerProofs`), not every `Timer`.

### SimpleList

The nodes, `pHead`, `pTail`, `length` and the iterator are those of simpleList.c;
the payload of a node is the node itself. `order` is the sequence the pushes
describe, `snapshot` and `visited` what the iterator has to return and has
returned (that it does is a theorem, `IteratorComplete`). `sList_free` is a step for each node, as its loop is. A second
iterator, and a list that is freed while it is iterated, do not occur in the code.
`sList_lookupLVPC` walks the same chain and changes nothing.

### Response

Roundtrip knows that something is written; `Response` follows what. `pc` is the
function that is executing: `servlet` and `runner` (the callback of a stream) are
the user's program between its calls, `stream_write`, `putHeader` and `send` (the
rest of putChunk) run inside a call. `p`, `line`, `kept` and `closed` are the locals
of putHeader, `size`, `buffer` and `pos` the STREAM. The body is a row of numbered
characters, so that one that is lost, doubled or out of place shows. A header added
after the first write stays in `headerList` and is never sent, as in the code. `high`
is how far sprintf has written in the header, its NUL included: when the lines fill
the buffer to the byte, the empty line is inside and the NUL lies behind. The
writer of every stream is streamWriter, which returns the length it was given: the
stream_* functions are not exported (headers/ileastic.bnd), so that no other occurs.

### Text, Base64, Routing and Request

Roundtrip follows a request as units of head and body; `Request` follows its
bytes. A string is a sequence of tokens: a byte the code looks for (`CR`, `LF`,
`SP`, `?`, `&`, `%`, a digit) is a token, and a run of bytes it treats alike, as a
name, is one token too. A client composes a message (`scenario.message`: method,
segments, parameters, header lines, body) and `Wire` is what goes over the
socket. `receiveHeaderHTTP` reads any part of what is left, as often as it takes,
and runs `lookForHeaders` (`Parsed`) over the memory it has, which behind the
bytes received holds what was there before (`scenario.memory`: nothing the code
looks for, an earlier request, or a longer one), because it is not cleared.
`receivePayload` reads the rest. `fcgiReceiveHeader` gets the same message as the
environment strings of a web server: its headers have `_` for `-`, Content-Type is
not among them, and a name that does not fit `key[64]` (102, 105) may end the thread
(`HasLongName`). Then `Route` is findRoute, and each action
below `Servlet` is a call of one getter with its answer; since they change
nothing, one is enough in a behaviour.

`request` has the fields of REQUEST. `wild` is the place of a thread that copies
a content with a negative length, writes a header's name over its stack, or reads
match positions that were never set. `router`, `pRouting` and `parmValue` are
Routing's; a value from a `groupArray` that no call of regexec has filled is
`garbage`, and a route without an expression may carry the parameters of the
route added before it, because the variable of il_addRoute is not initialised; its
number of parameters is then any number of `StackNumbers`, and findRoute with a
number that does not fit its arrays may end the thread (`RouteDies`).
il_getPathParameter with five parameters (api.c 171-176) is an action of its own,
`il_getPathParameterByIndex`.
The expressions are literals, `^`, `$`, `{name}` and groups of the program's own;
regexec is their meaning, first place that fits. What a route is meant to match is
given to TLC beside its text as a template of segments, and `FirstRouteWins` and
`ParametersBound` compare against that, not against regexec.

The timeouts, the end of the stream, the failed reads and the next request on the
connection are in Roundtrip and not here.

### Configuration

`phase` is the place of il_listen: `configure`, `getSocket`, `accept`, `accepted`,
`serving`, `ended`, `exited`. `config` is the CONFIG, `said` the calls the program
made, in order. A program compiled before the TLS fields existed has blanks
(`blank`, X'40') in them. `handles` are the GSKit environments opened so far, with
what was set in them; none is ever closed, and each time il_listen opens its
socket there is another. Any call of GSKit may fail, as may one for the socket.
`nodes` is what `serverThread` puts below `/ileastic/certificate`: a record of the
nodes made, `server` and `client`, each a function from the names it shows; a name
that is not in its domain is a node noxDB does not have. addCertificateDetails is a
function of the number of elements seen. The text of a certificate element may fail
to convert, and then is what the buffer held; one longer than the buffer
(`TooLong`) is converted past its end before it is cut (1362), which the thread may
not survive (`serverThreadDies`). GSKit may also refuse the elements of a certificate (1353,
1516: the node has no fields), the validation code (1526: it is missing), and the
type of client authentication (1632, whose result is not looked at: the handshake
goes on with GSKit's default type).

## Runs

| run | shows |
|---|---|
| `roundtrip` | nine invariants of a connection with two requests, well formed or not, over HTTP with a servlet, TLS without one, and FastCGI with routes in a worker; 2 pre request plugins, 1 post response plugin |
| `roundtrip_live` | over HTTP, with a client that reads and one that does not: every accepted request is ended and the thread ends when the client has gone, unless a write to the client blocks; and the loop implements `HttpExchange` |
| `server` | type, descriptors, contexts, the final call, and three liveness properties with two clients and a table of four descriptors, or of two |
| `list` | the list holds what was pushed, nothing in it was freed, and sList_free frees every node |
| `response` | the body arrives in order and completely, between one header and one end; the header ends with the empty line, in its buffer up to one NUL; headers are left out only for want of room; a write returns |
| `request` | however reads cut a request, and over FastCGI, the fields, parameters, segments and content are those the client composed; the early end of a head; the getters and base64; the route and its parameters |
| `configuration` | a connection is served with what the program and the environment said, whatever fails in between; the certificate nodes show all a client presented or nothing |
| `not_received`, `framing`, `certificate`, `final_call`, `client_certificate` | a sentence of the documentation the code does not keep, see below |

Bounds, and why they are enough:

- `MaxRequests = 2`: the properties relate a request to the one before it; what
  a third could find in buffer, response or heap is what the second finds.
- `MaxActs`: how often the callbacks of a connection write, set a status or fail, 2
  in `roundtrip`, 1 elsewhere, plus the write of the end: first and later write
  both occur, before and behind a failure, and `firstWrite` has only two values.
- `PrePlugins = 2`, `PostPlugins = 1`: first, last and not last in the list;
  one of each in `roundtrip_live`.
- Requests of 1, 2 and 3 head units with a buffer of 2: a head in one piece, in
  two, and too long for the buffer; bodies of 0, 1 and 2 units, with part of the
  body arriving with the head, and none. Each flaw occurs in one of them, also in
  the first of two requests. `StrayLengths = {0, 1}`: stray bytes announce no body,
  or one.
- `StackNumbers = {-1, 0, 1, 5}` for an uninitialised number of parameters: negative,
  none, one, and more than there are, with `MaxParms = 3` for the 256 of the code.
- A process may have four descriptors open (`maxFds`): listening socket and two
  clients fit, pipe() of the second job does not; or two, so that one client fills
  the table and accept fails for the next. `Timer = 1` gives a call of the
  scheduler every third wake-up. Two clients: one being set up while the other is
  served.
- `Nodes`: 4 in `list`, so that a list grows by two at either end, and once more
  while an iterator is on it. The nodes are interchangeable (symmetry).
- `HEADER_SIZE = 20` with first lines of 8, 12 and 18 bytes and header lines of 2
  and 7: both fit, one fits and a shorter one behind it does, none fits.
  `MaxBody = 5` with buffers of 2 and 3: one write fills the smaller twice and
  leaves one character, and two writes meet at the end of either.
- `Request`: messages with no, one and two header lines, an empty line in front, a
  line without a colon, no body and one of three bytes; parameters with an empty
  value, escapes in name and value, a name twice, a part without `=`; resources
  with none to three segments, empty ones among them. `MaxRoutes = 2` out of six
  routes, in either order: first and second in the list, overlapping, with
  parameters, with groups of their own, without an expression behind one with
  parameters. Reads of every length, so a cut at every byte. Headers, parameters
  and routes are varied apart from each other: no code reads two of them together.
- `Base64`: 0, 1, 2, 3 and 4 bytes, which is every tail and one full group, in
  lines of one and of three characters.
- `Configuration`: `MaxSettings = 3`, so a call and one that overrides it with one
  in between; `MaxHandles = 2`, an environment and one set up after it;
  `MaxFailures = 1` failing call in one attempt: the first that matters ends it.

`CHECK_DEADLOCK` stays on everywhere: a connection or a process that is over
says so with a step of its own (`Terminated`).

### Fairness

`Roundtrip`: weak fairness of the receiving steps (select() has a timeout and
returns when data or the end of the stream is there) and of the loop's own steps.
The return of callbacks and putChunkEnd, which writes, are fair only as long as the
client reads: write() (122, 167) has no timeout, so to a client that does not read it
need not return, until a reset ends it (`Stalled`). None for the client, for the
writes of callbacks or for their failures. A servlet that does not return would
hold its thread; that it returns is an assumption about the user's program.

`Server`: weak fairness of the scheduler thread and of `il_listen`, where
`accept` returns when a client is queued. None for the handshake, which nothing
in the code bounds: `QueueMoves` is stated for servers without TLS.

`Response`: weak fairness of the steps inside a library call, none for what the
program calls. It takes write() to return, which a client that stops reading may
delay; `WriteReturns` is about the loop of stream_write.

## Where code and documentation differ

Found while modelling; each has a run in which TLC shows it.

1. `not_received`: a failed TLS read is taken for a request (ileastic.c 622):
   plugins and servlet run for an empty REQUEST, then `getHeaderValue`
   dereferences a NULL list and the thread dies with its socket open.
2. `framing`: the result of `receivePayload` is ignored (637): a body cut by a
   timeout is served as it is, and its rest is parsed in front of the next request,
   or, when it holds CRLFCRLF (495), as a request of its own.
3. `certificate`: the certificate data of a TLS connection is moved into the
   first request's thread memory and deleted with it (816, 876); the second request
   moves the freed node again. TLS.md says it can be queried in the thread local
   storage.
4. `final_call`: a SIGTERM between the two tests of the flag (936, 942) ends the
   process without the last call of the scheduler plugin that
   examples/scheduler.rpgle announces.
5. `client_certificate`: the result of setting the type of client authentication is
   not looked at (1632). When GSKit refuses it, a client without a certificate is
   served in mode REQUIRED, where headers/ileastic.rpgle:1140 says that it must
   provide one. That GSKit's default type lets it in is external behaviour.

Differences without a run of their own: calls of the scheduler plugin are timer + 2
turns of a loop that sleeps a second apart (937; headers/ileastic.rpgle:894 says
"Seconds between calls", and `PeriodHolds` proves what they are); a route that an RPG
program adds with its `IL_ANY` (1023, headers/ileastic.rpgle:832, "Any HTTP method") is
not found for a method outside of the seven of sysdef.h, as the C code looks for
0xffff (ileastic.c 753; `AnyOfRpg` in the `request` run); il_getPathParameter with an
index is il_getRequestSegmentByIndex (api.c 174) and never returns the default that
headers/ileastic.rpgle:609 promises (`AnswersAsSent`); a thread leaks its INSTANCE, because
pthread_exit (924) stands in front of the memFree (926; `OnlyInstanceLeaked` says that
this is all a well formed connection leaks); a head without two blanks ends the thread
with its socket open (517-522); sprintf writes its NUL behind a header that fills
its buffer (290, 300; `HeaderEnds`); a parameter whose name has an escape is not found
and gets the default (api.c 154); a list begun at the head (simpleList.c 72)
and continued at the tail counts a node that is not linked (`Represents`
and `AllFreed` leave those lists out, `mixed`; the server pushes at
the tail everywhere); a route without an expression has the parameter names of the
route added before it and values that were never set (api.c 403, ileastic.c 727);
memmem reads behind what was received and the buffer is not cleared, so that an
earlier request may complete the end of a head (strUtil.c 61,
`EarlyOnlyByRemnant`); the extension of a static file is compared with what lies
behind it on the stack (api.c 240-256); a certificate element that cannot be
converted shows the text of the one before (1362); the expression for the
content type of a route is compiled and never used; the query string ends with the
blank before the protocol, the list of parameters and that of headers at the
first part without `=` or `:`, and `+` is not decoded; over FastCGI there are no
segments, the names of headers have `_` for `-` and Content-Type is not one of them;
PROT_HTTPS without a certificate
serves without TLS; an expression whose last brace is not closed reaches regcomp
without an end (api.c 368). Post response plugins run before the
response is ended; a FastCGI response nobody writes to has no header; a FastCGI
body shorter than declared keeps the loop in FCGX_GetStr for ever (the step
`fcgiPayloadSpins`); a refused pre request plugin skips the post response plugins.

## Proofs

All proofs are checked by tlapm with SMT, Zenon and, for the temporal steps, LS4.
They assume only the named assumptions on the constants (`RoundtripAssumption`,
`SchedulerAssumption`, `ServerAssumption`,
`ListAssumption`, `ResponseAssumption`,
`RoutingAssumption`, `ConfigurationAssumption`, `ProgramsAssumption`,
`SettingsAssumption`, `ScenariosAssumption`, `MessagesAssumption`,
`CallsAssumption`), which TLC evaluates in the runs.
`ProgramsAssumption` and `SettingsAssumption` say that a CONFIG begins initialised,
or with blanks in the fields its program does not know (headers/ileastic.rpgle:395-408),
and that a call passes what its prototype says; `ScenariosAssumption` that the head a
client sends has one empty line, the one that ends it, and that a brace opened in the
expression of a route is closed (without that parserRouting, api.c 368, returns before
it has written the end of the expression, and what regcomp reads is not modelled).
`CallsAssumption` says that a servlet passes strings to the getters, and bytes to
il_encodeBase64. `MessagesAssumption` is the grammar of what a client writes, over HTTP
or to a server that hands it on over FastCGI: no part contains the byte
that ends it (a method no blank, a segment no slash, the name of a header no colon,
nothing a line end), there is a method and a resource, a name in the header and its
value do not begin with a blank, and only the client's own last line announces the
length, with the one digit that `LengthLine` writes. It says nothing of how many
segments, parameters, lines and bytes there are, of empty ones, of lines without a
colon or parameters without `=`, or of the memory behind what was received. A client
that breaks the grammar is not in `Request`, where there would be no parts to compare
with; it is in `Roundtrip`, where it may end the thread.

- `TypeCorrect`: `TypeOK` of Roundtrip is not inductive: that lookForHeaders
  yields a length needs the units in socket and buffer to belong to requests the
  client has asked. `TypeInv` adds that (`Sent`).
- `WireOrderHolds`: a token may be appended when what is on the wire belongs to
  earlier requests, or to this one with its header there and its end not.
  `WireSync` says which, by `pc` and `firstWrite`; `WireInv` is `TypeInv`,
  `WireOrder` and `WireSync`. Every write goes through one lemma (`EmitOrder`),
  every other step through another (`QuietStep`).
- `ServletIsAuthorized`: in stage `pre` no plugin has refused and the position in
  the list counts the approvals, or the handler has cut the list short (`AuthInv`).
- `DialogInvariant`: which request the loop has in hand depends on what is left of
  those before it. The invariant speaks of the connection as long as every byte of
  the requests so far was read as its request's (`InSync`); behind a cut payload, a
  hidden Content-Length or an early parse it promises nothing. `StreamInv` says it
  with the whole stream (`Stream`), what is in the buffer, in the socket and still
  with the client: with `Taken` heads taken off it, it is `Aligned` with the units
  of the request that is `Expected`, from the first unit on; in receivePayload
  it holds no more than is missing of the body. A read moves units from the socket
  to the buffer and leaves the row as it is (`ReadKeepsStream`), which is why it does
  not matter how reads cut it. That the end of a head found in an aligned row is that
  of its own request is `TakeHead`; that what was parsed announces the right length,
  `RequestInv`; `CountInv` ties the ends on the wire to the requests served. From it
  `AnswersItsAsker`, `BodyIsWhole` and `RequestsAreFramed`.
- `CloseIsHonoured`: `CloseInv`, together with the dialog: `connected` falls in the
  step that looks at the request just ended, and the requests before it did not
  ask for a close. `FailureIsReported`: `FailInv`, that a failure is noted from
  the callback until the end of its response, with its header on the wire since;
  tokens are only appended. `OnlyInstanceIsLeaked`: `MemInv` says which blocks `heap`
  may hold at which place, so that no allocation finds its own block still there, and
  what is left at the end is the INSTANCE, which a worker frees and a thread does not.
- `ExchangeImplemented`: the mapping forgets the status of a header, reads the
  phase of the exchange from `pc` and `firstWrite`, and `astray` from `ghost.left`.
  Each action of Roundtrip is mapped to Ask, Accept, Write, Finish, LoseTrack,
  Release, Close or a stutter (`ExchangeStep`; one lemma `Abstract...` for each), with
  `DialogInv` for the guard of Accept: a request is dispatched only when the client
  has sent one that is not served, or the server is astray. The thread that dies is a
  Close. The theorem is about the safety part
  of `HttpExchange`; that a response once begun is ended is liveness.
- `ConfigInvariant`: `ServedAsConfigured` speaks of the connection at the end of a
  long way. `SaidInv` says what the calls so far have left in the CONFIG: the last
  one of a name (`LastOfMore`), each plugin at the place that counts the calls up
  to it (`EnumeratesMore`). `ListenInv` adds the environment; `SocketInv` that who
  gets past getSocket has a GSKit environment that is ready, and a worker has
  none; every environment opened is made from the same key file (`Handle`);
  `SessionInv` that a session is one of the last. That a set of indices has a
  greatest member is proved from the well-foundedness of < (`LeastNumber`).
- `ShowsCertificate`: addCertificateDetails visits the elements of a certificate one
  by one, and a node shows the last of those with its id. `ShowsFirst` says so of
  the first k elements; it holds of none and, by `ShowsMore`, of one more
  (`FromTheStart`, again a least counterexample in the place of an induction; that
  there is a function that computes the nodes is `FunctionFromTheStart`).
  `CertificateInv` ties `nodes` to the session and the CONFIG while the connection
  is served: GSKit gave all elements or none, and a text is that of the last element,
  cut to the buffer.
- `HeadParsed`, `LinesParsed`, `ParmsParsed`, `SegmentsParsed`, `DecodesEncoded`: the
  loops of the parser are recursive functions from a place in the memory to the list
  read from there on. Such a function is computed from the end of the memory to its
  beginning, and `FromTheEnd` and `FunctionFromTheEnd` make an induction over that out
  of a least counterexample (`LeastNumber`), since no theorem of the library for
  induction can be instantiated here. `ListComputed` and `Listed` say for any such loop
  that it returns the items at the places it visits. `Holds` says that a string lies in
  a memory at a place; `FlattenParts` and `JoinParts` where the parts of a composed
  string then lie. So each parse function needs three facts: where the parts of one item
  lie, what one turn makes of them (`LineTurn`, `PartTurn`), and that the turns follow
  each other. What lies behind the string does not matter, as the searches stop at a
  byte of the string itself: for the parameters that is the blank before the protocol.
- `RequestInvariant`: `HeadEndFound` says where memmem sees the end of a head after
  a read of any length: at its place when the whole head has come, and before that
  only across the end of what was read. From it `EarlyParseNeedsRemnant`, which
  needs `ReadingInv` (an early parse finds a content of negative length, so it never
  goes on to receivePayload, and `received` stays where the parse left it), and
  `HeadIsFound`. `RequestTyped` needs that parserRouting returns a list of names, which
  is again computed from the end of the expression.
- `RequestArrives`, `WaitsOnlyForWhatComes`: `SentInv` says of a request whose head was
  parsed as a whole that its fields are those composed (`FieldsAsSent`), that content
  and what is still to come are the body, and that the length is that of the body unless
  a line without a colon stands in front of the one that announces it (`LinesWhole`;
  the body is then not received, as in the code). It holds after the parse by
  `HeadParsed` and its companions, receivePayload appends to the content what it takes
  off the wire, and no step behind it changes these fields.
- `AnswersArrive`: `AnswerInv` says that an answer is what its getter makes of the
  request as it is, which no step changes once a servlet runs; with the fields of
  `RequestArrives` there is one lemma for each getter. `HeaderFound` and `ParmFound`
  compare the first place in a list with the first in what the client composed
  (`EscapesLengthen`: a name as long encoded as decoded needs no escape, which is why
  il_getParmStr finds those names and no others: for an escaped one the theorem
  says that the default is returned); `EnvHeaderFound` does so over FastCGI,
  for names with `_` for `-`, where Content-Type and the lines without a colon are left out (`SieveFirst`: leaving items out does not
  change which of the others is the first); `ExtensionFound` and `TypeDocumented` are
  about il_serveStatic.
- `DecodesBroken`: of the characters il_encodeBase64 writes, those that are no pad are
  the first (4n + 2) \div 3 of n bytes (`EncodedLetters`, `PadsBehind`); broken into
  lines they keep their order with only line ends between them (`BrokenLies`), which
  the table of the decoder does not have (`TablesInverse`), so that it reads their
  values (`SextetsRead`), and four of these are three bytes (`ThreeBytes`).
- `SchedulerInvariant`: counter and seconds since the last call go together, at a
  distance that depends on the place of the thread; from it `PeriodHolds`, which says
  what the code does (`Timer + 2` wake-ups, for every timer, against the documented
  `Timer`), and `FinalCallHolds`.
- `ServerInvariant`: the client being set up is the one whose socket il_listen
  holds, accepted and not in the queue (`PlaceInv`); with it opening and closing
  a descriptor adds or removes one client from those that hold one. From it
  `DescriptorsHold` and, for the connections served by a thread, `ContextHolds`.
- `ListRepresents`, `IteratorComplete`, `FreeIsComplete`, `ListTypeCorrect`: `ListInv`
  says that the nodes of `order` are distinct, allocated and linked in that order
  with `pTail` at the last (`Linked`), that the iterator stands behind what it has
  visited (`Iterating`), and that what is left to free is the rest of `order` from
  the cursor on (`Left`).
- `ResponseTypeCorrect`, `BodyIsInOrder`, `ResponseIsFramed`, `HeaderAlwaysEnds`,
  `HeadersLeftOutOnlyIfFull`: in `ResponseInv`, `Content` says that the characters
  sent, those of the putChunk under way and those in the buffer follow each other
  and, with what is left of the current write, are all that was written; `Place`
  what each place of the program holds, above all that the buffer is never full
  outside of putChunk; `HeaderInv` that there is room for the empty line as long as
  putHeader runs, and that sprintf is one byte further than the lines (`high`);
  `FrameInv` how far the response has come.

Only model-checked:

- all liveness properties (`RequestAnswered`, `ConnectionReleased`, `ShutdownEnds`,
  `QueueMoves`, `ListensAgain`, `WriteReturns`) and with them the fairness part of
  `ImplementsExchange`: TLAPS does not do fairness here;
- of Request `FirstRouteWins` and `ParametersBound`: they compare what regexec, which
  is modelled by sets of places, makes of an expression with what the program meant by
  it (`template`), and that the one is written for the other is a fact about the
  instance, not an assumption on a constant.

## Not modelled

- `websockets.c` and `sockets.c` are not among the modules src/src/makefile compiles.
- noxDB and the FastCGI library are submodules; they appear as what the code
  here does with their results.
- What is in RPG: `mediatype.rpgmod` (the Accept header, called by programs and not
  by the server), `ileasticr.sqlrpgmod` (parameters of api.c prepared for RPG).
- `serialize.c` (lock and unlock of the operating system, for programs),
  `sndpgmmsg.c` (job log), `githash`; memRealloc and the counters of teramem.c,
  which nothing in the server depends on; of strUtil.c and varchar.c what copies,
  trims and formats strings.
- Wording and layout of headers and the conversion between EBCDIC and UTF-8:
  `Response` counts one byte for each character. A failed or short write to the
  socket, whose result the code does not look at.
- What follows a fault that does not end the thread: a heap written behind its end
  (562), values of a path that were never set and are freed (806).
- The handshake a worker of TM_JOB would need of its own with TLS; two and more empty
  lines in front of a request; the trailing blank of the query string over HTTP
  (`RequestAsSent` does not compare `queryString`).
- Nothing in ILEastic calls stream_write: noxDB, which runs its own copy of
  stream.c, does, as the runner of il_responseWriteStream; `Response` takes the file here.
- examples/, performanceTest/, itests/ and utils/ use the service program.
- The content of what plugins decide; a plugin is any callback that returns *ON
  or *OFF, writes or fails.

## Plan

Done: the connection loop against the client (`HttpExchange`, `Roundtrip`), the
acceptor with the scheduler (`Server`, `Scheduler`), the list (`SimpleList`), the
response with its streams (`Response`), the parsing of requests, the routes and
base64 (`Request`, `Routing`, `Base64`, `Text`), the configuration and TLS
(`Configuration`). No module declares a RECURSIVE operator, so each can be proved
about.
Next, in this order:

1. The plugins: a chain of authentication plugins over the thread memory, the
   decision of the CORS plugin, the life of a Kong registration and the claims of
   a JWT.
2. `Worker`: descriptors 0 and 1 and the pipe on the other side of TM_JOB,
   composed with `Server`.
3. Composition: `Server` with a `Roundtrip` per client, so that exit finds
   connections in the middle of a response.
