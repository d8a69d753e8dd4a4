----------------------------- MODULE Roundtrip -----------------------------
(***************************************************************************)
(* One connection of the server: the loop of serverThread in ileastic.c    *)
(* with everything it calls for a request (receiveHeaderHTTP and           *)
(* lookForHeaders, receivePayload, fcgiReceiveHeader, findRoute,           *)
(* runPlugins, the servlet, the exception handler, prepareResponse,        *)
(* putChunk, putChunkEnd, cleanupTransaction), and the client at the other *)
(* end, which sends a request in pieces, stalls, hangs up or resets.       *)
(*                                                                         *)
(* A request is a number of units: pieces of the head, the last of which   *)
(* ends it (CRLFCRLF), and pieces of the body.  A read takes any number of *)
(* the units that have arrived.  The client does not pipeline: it sends    *)
(* the next request after the end of the response to the last one.  It     *)
(* need not keep to the grammar (flaws).                                   *)
(***************************************************************************)
EXTENDS Integers, Sequences, FiniteSets

CONSTANTS
  Configs,       \* the server configurations to consider
  Requests,      \* the requests a client may send
  MaxRequests,   \* bound: responses after which the client asks no more
  MaxActs,       \* bound: what the callbacks of a connection do, see Callback
  Statuses,      \* statuses a callback may set
  PrePlugins,    \* number of IL_PREREQUEST plugins
  PostPlugins,   \* number of IL_POSTRESPONSE plugins
  StrayLengths,  \* content lengths that stray bytes may announce
  SOCMAXREAD     \* size of the receive buffer, in units

(* A worker is the job that TM_JOB starts for a connection.  A client that *)
(* does not read all that is written to it may block a write for good.     *)
Config == [protocol : {"http", "https", "fastcgi"},
           serving  : {"servlet", "router", "none"},
           isWorker : BOOLEAN,
           reads    : BOOLEAN]

(* What may be odd about a request: an empty line in front of it, fewer    *)
(* than two blanks in its head, a line without a colon in front of its     *)
(* headers Content-Length and Connection, a body that holds CRLFCRLF, and  *)
(* the CRLFCRLF of its head sent in two pieces.                            *)
Flaw == {"lead", "blankless", "colonless", "mimic", "split"}

Request == [head  : Nat \ {0},  \* pieces of the head
            body  : Nat,        \* content-length, in units
            close : BOOLEAN,    \* it has the header "Connection: close"
            match : BOOLEAN,    \* some route matches it
            flaws : SUBSET Flaw]

ASSUME RoundtripAssumption ==
  /\ Configs \subseteq Config
  /\ Requests \subseteq Request
  /\ MaxRequests \in Nat
  /\ MaxActs \in Nat
  /\ Statuses \subseteq Nat
  /\ PrePlugins \in Nat
  /\ PostPlugins \in Nat
  /\ StrayLengths \subseteq Nat /\ 0 \in StrayLengths
  /\ SOCMAXREAD \in Nat \ {0}

VARIABLES
  config,      \* chosen once, in Configs
  asks,        \* the requests the client has started to send
  toSend,      \* units of the last of them not yet sent
  inbox,       \* units in the socket that the server has not read
  peer,        \* "open", "shut" (orderly end of stream) or "reset"
  pc,          \* where serverThread is
  buf,         \* units in the receive buffer
  request,     \* the fields of REQUEST the loop depends on
  served,      \* iterations of the loop that got past receiveHeader
  firstWrite,  \* pResponse->firstWrite
  status,      \* pResponse->status
  plugin,      \* position in the plugin list being run
  connected,   \* local variable of serverThread
  wire,        \* what has been written to the socket, in order
  heap,        \* blocks the thread still has to free
  leaked,      \* number of blocks nothing refers to any more
  cert,        \* the certificate node, see CertState
  acts,        \* how much the callbacks have done, up to MaxActs
  ghost        \* what the callbacks of this request did

clientVars == <<asks, toSend, peer>>
ioVars     == <<inbox, buf>>
respVars   == <<firstWrite, status, wire>>
memVars    == <<heap, leaked, cert>>
histVars   == <<acts, ghost>>
vars == <<config, clientVars, ioVars, pc, request, served, respVars, plugin,
          connected, memVars, histVars>>

(* The CRLFCRLF ends "eoh", or is begun by "half" and ended by "rest".     *)
Part  == {"head", "half", "rest", "eoh", "body"}
Unit  == [req : Nat, part : Part]
Token == [kind : {"header", "chunk", "end"}, req : Nat, status : Nat]
Block == {"instance", "buf", "lists", "payload", "respHeaders", "threadMem",
          "parmValue"}
(* The node belongs to nobody but serverThread, is in the thread memory of *)
(* the request, was freed with one, or is in one although it was freed.    *)
CertState == {"none", "own", "lent", "freed", "dangling"}
Parsed == [parsed  : BOOLEAN,   \* headerList is set
           from    : Nat,       \* the client's request it was parsed from
           clean   : BOOLEAN,   \* from all of its head and nothing else
           inner   : BOOLEAN,   \* completeHeader.String is not buf itself
           need    : Nat,       \* contentLength
           have    : Nat,       \* units of the body in content.String
           matched : BOOLEAN]   \* pRouting is set
Ghost == [approvals : Nat,      \* pre request plugins that returned *ON
          vetoed    : BOOLEAN,  \* one returned *OFF
          raised    : {"no", "clean", "late"},  \* before or after a write
          left      : SUBSET Nat]  \* requests not all bytes of which were read

NoRequest == [parsed |-> FALSE, from |-> 0, clean |-> TRUE, inner |-> FALSE,
              need |-> 0, have |-> 0, matched |-> FALSE]
NoGhost == [approvals |-> 0, vetoed |-> FALSE, raised |-> "no", left |-> {}]

Http == config.protocol # "fastcgi"
Secure == config.protocol = "https"

(* The units of the n-th request of the connection. *)
Split(r) == "split" \in r.flaws /\ r.head > 1
PartOf(r, i) == CASE i = r.head -> IF Split(r) THEN "rest" ELSE "eoh"
                  [] i = r.head - 1 /\ Split(r) -> "half"
                  [] i > r.head -> "body"
                  [] OTHER -> "head"
Units(n, r) ==
  [i \in 1..(r.head + r.body) |-> [req |-> n, part |-> PartOf(r, i)]]

Ends == {i \in DOMAIN wire : wire[i].kind = "end"}

Init ==
  /\ config \in Configs
  /\ asks = <<>> /\ toSend = <<>> /\ inbox = <<>> /\ peer = "open"
  /\ pc = "receive"
  /\ buf = <<>>
  /\ request = NoRequest
  /\ served = 0
  /\ firstWrite = TRUE /\ status = 200 /\ wire = <<>>
  /\ plugin = 1
  /\ connected = TRUE
  /\ heap = {"instance"} \cup (IF Http THEN {"buf"} ELSE {})
  /\ leaked = 0
  /\ cert \in IF Secure THEN {"none", "own"} ELSE {"none"}
  /\ acts = 0 /\ ghost = NoGhost

-----------------------------------------------------------------------------
(* The client.  It sends its next request when it has got as many          *)
(* responses as it sent requests.                                          *)

serverVars == <<config, buf, pc, request, served, respVars, plugin, connected,
                memVars, histVars>>

Ask(r) ==
  /\ peer = "open"
  /\ toSend = <<>>
  /\ Cardinality(Ends) \in Len(asks)..(MaxRequests - 1)
  /\ asks' = Append(asks, r)
  /\ toSend' = Units(Len(asks) + 1, r)
  /\ UNCHANGED <<inbox, peer, serverVars>>

Deliver ==
  /\ peer = "open"
  /\ toSend # <<>>
  /\ inbox' = Append(inbox, Head(toSend))
  /\ toSend' = Tail(toSend)
  /\ UNCHANGED <<asks, peer, serverVars>>

Hangup ==
  /\ peer = "open"
  /\ peer' = "shut"
  /\ toSend' = <<>>
  /\ UNCHANGED <<asks, inbox, serverVars>>

Reset ==
  /\ peer = "open"
  /\ peer' = "reset"
  /\ toSend' = <<>>
  /\ inbox' = <<>>
  /\ UNCHANGED <<asks, serverVars>>

-----------------------------------------------------------------------------
(* receiveHeaderHTTP, lookForHeaders and receivePayload.                   *)

(* Unit i completes the CRLFCRLF that ends a head. *)
EndsHead(units, i) == \/ units[i].part = "eoh"
                      \/ units[i].part = "rest" /\ i > 1 /\ units[i - 1].part = "half"
NoHead(units) == \A i \in DOMAIN units : ~EndsHead(units, i)
IsHeadEnd(units, i) == /\ EndsHead(units, i)
                       /\ \A j \in 1..(i - 1) : ~EndsHead(units, j)

(* memmem finds a CRLFCRLF with unit i.  It reads up to three bytes behind *)
(* what was received, which may look like the rest of the CRLFCRLF.  Bytes *)
(* of a body that was not read are searched like those of a head, and the  *)
(* rest of a line end and an empty line make a CRLFCRLF too.               *)
Found(units, i) ==
  /\ \/ EndsHead(units, i)
     \/ units[i].part = "half" /\ i = Len(units)
     \/ units[i].part = "body" /\ "mimic" \in asks[units[i].req].flaws
     \/ /\ i > 1 /\ units[i - 1].part = "rest" /\ units[i - 1].req # units[i].req
        /\ "lead" \in asks[units[i].req].flaws
  /\ \A j \in 1..(i - 1) : ~EndsHead(units, j)

(* The headers lookForHeaders finds: parseHeaders stops at a line without  *)
(* a colon (over FastCGI the web server has parsed them).                  *)
Hidden(n) == Http /\ "colonless" \in asks[n].flaws
ContentLength(n) == IF Hidden(n) THEN 0 ELSE asks[n].body
SaysClose(n) == asks[n].close /\ ~Hidden(n)

(* content.Length before receivePayload: what was received behind the      *)
(* head.  It is negative when the head ends behind what was received.      *)
Behind(units, eoh) == IF units[eoh].part = "half" THEN -1 ELSE Len(units) - eoh

(* The units up to eoh are a head of a request, and all of it that matters *)
(* to the parsing. *)
Whole(units, eoh) ==
  LET n == units[eoh].req
  IN eoh <= asks[n].head /\ \A i \in 1..eoh : units[i] = Units(n, asks[n])[i]

(* The request lookForHeaders makes of a buffer when it finds the end of a *)
(* head at unit eoh.  If the head is not that of a request and nothing     *)
(* else, what it announces is anything.                                    *)
Reading(units, eoh, need, inner) ==
  [parsed  |-> TRUE,
   from    |-> units[eoh].req,
   clean   |-> Whole(units, eoh),
   inner   |-> inner,
   need    |-> need,
   have    |-> IF need = 0 THEN 0
               ELSE IF Behind(units, eoh) > need THEN need ELSE Behind(units, eoh),
   matched |-> FALSE]
lookForHeaders(units, eoh) ==
  LET n == units[eoh].req
  IN {Reading(units, eoh, need, inner) :
        need \in IF Whole(units, eoh) THEN {ContentLength(n)} ELSE StrayLengths,
        inner \in IF Whole(units, eoh) THEN {"lead" \in asks[n].flaws} ELSE BOOLEAN}

(* memchr returned NULL for a blank (it may find one behind the head), or  *)
(* memcpy was given a length that is negative or more than was allocated.  *)
Breaks(units, eoh, r) ==
  \/ ~r.clean
  \/ "blankless" \in asks[r.from].flaws
  \/ r.need > 0 /\ Behind(units, eoh) \notin 0..r.need

(* Bytes of the request are still to come and are not waited for. *)
LeavesSome(units, eoh, r) ==
  \/ units[eoh].part = "half"
  \/ r.need = 0 /\ Len(units) - eoh < asks[r.from].body

(* A whole head is there: parse it, and read the rest of the body if the   *)
(* part that came with the head is not all of it.                          *)
Parse(r) ==
  /\ request' = r
  /\ heap' = heap \cup {"lists"} \cup (IF r.need > 0 THEN {"payload"} ELSE {})
  /\ pc' = IF r.have < r.need THEN "payload" ELSE "dispatch"

(* A read returns some of what has arrived, as far as the buffer has room. *)
Read ==
  /\ pc = "receive" /\ Http
  /\ \E k \in 1..Len(inbox) :
       /\ buf' = buf \o SubSeq(inbox, 1, k)
       /\ Len(buf') <= SOCMAXREAD
       /\ inbox' = SubSeq(inbox, k + 1, Len(inbox))

receiveHeaderHTTP ==
  /\ Read
  /\ \/ NoHead(buf') /\ UNCHANGED <<request, heap, pc, ghost>>
     \/ \E eoh \in 1..Len(buf') : \E r \in lookForHeaders(buf', eoh) :
          /\ Found(buf', eoh)
          /\ r.have >= 0
          /\ Parse(r)
          /\ ghost' = IF LeavesSome(buf', eoh, r)
                        THEN [ghost EXCEPT !.left = @ \cup {served + 1}]
                        ELSE ghost
  /\ UNCHANGED <<config, clientVars, served, respVars, plugin, connected,
                 leaked, cert, acts>>

(* Outside of the exception handler of the callbacks a fault ends the      *)
(* thread: the socket stays open and the blocks stay allocated.            *)
lookForHeadersFails ==
  /\ Read
  /\ \E eoh \in 1..Len(buf') : \E r \in lookForHeaders(buf', eoh) :
       Found(buf', eoh) /\ Breaks(buf', eoh, r)
  /\ pc' = "died"
  /\ UNCHANGED <<config, clientVars, request, served, respVars, plugin,
                 connected, memVars, histVars>>

(* select() returns 0, or read() returns 0 or an error: the buffer is      *)
(* freed, except when TLS reports the end of the stream.                   *)
HeaderTimeout   == peer = "open" /\ inbox = <<>>
EndOfStream     == peer = "shut" /\ inbox = <<>>
BufferFull      == inbox # <<>> /\ Len(buf) = SOCMAXREAD
ReadFails       == peer = "reset" \/ BufferFull

(* Mutant: a read of length 0 is taken for no data yet.                    *)
receiveHeaderRetriesAtEnd ==
  /\ pc = "receive" /\ Http
  /\ \/ HeaderTimeout
     \/ ReadFails /\ ~Secure
  /\ heap' = heap \ {"buf"}
  /\ pc' = "closing"
  /\ UNCHANGED <<config, clientVars, ioVars, request, served, respVars, plugin,
                 connected, leaked, cert, histVars>>

receiveHeaderGivesUp ==
  /\ pc = "receive" /\ Http
  /\ \/ HeaderTimeout
     \/ EndOfStream
     \/ ReadFails /\ ~Secure
  /\ heap' = heap \ {"buf"}
  /\ leaked' = IF Secure /\ EndOfStream THEN leaked + 1 ELSE leaked
  /\ pc' = "closing"
  /\ UNCHANGED <<config, clientVars, ioVars, request, served, respVars, plugin,
                 connected, cert, histVars>>

(* gsk_secure_soc_read fails: "return false", as if a request were there.  *)
receiveHeaderTlsError ==
  /\ pc = "receive" /\ Secure
  /\ ReadFails
  /\ heap' = heap \ {"buf"}
  /\ leaked' = leaked + 1
  /\ pc' = "dispatch"
  /\ UNCHANGED <<config, clientVars, ioVars, request, served, respVars, plugin,
                 connected, cert, histVars>>

(* Mutant: one read is taken for the whole payload.                        *)
receivePayloadReadsOnce ==
  /\ pc = "payload"
  /\ \E k \in 1..Len(inbox) :
       /\ request.have + k <= request.need
       /\ inbox' = SubSeq(inbox, k + 1, Len(inbox))
       /\ request' = [request EXCEPT !.have = @ + k]
  /\ pc' = "dispatch"
  /\ UNCHANGED <<config, clientVars, buf, served, respVars, plugin, connected,
                 memVars, histVars>>

(* Mutant: a read is not limited to what is missing of the payload.        *)
receivePayloadUnlimited ==
  /\ pc = "payload"
  /\ \E k \in 1..Len(inbox) :
       /\ inbox' = SubSeq(inbox, k + 1, Len(inbox))
       /\ request' = [request EXCEPT !.have = @ + k]
       /\ pc' = IF request.have + k >= request.need THEN "dispatch" ELSE "payload"
  /\ UNCHANGED <<config, clientVars, buf, served, respVars, plugin, connected,
                 memVars, histVars>>

(* receivePayload, and for FastCGI the loop around FCGX_GetStr.            *)
receivePayload ==
  /\ pc = "payload"
  /\ \E k \in 1..Len(inbox) :
       /\ request.have + k <= request.need
       /\ inbox' = SubSeq(inbox, k + 1, Len(inbox))
       /\ request' = [request EXCEPT !.have = @ + k]
       /\ pc' = IF request.have + k = request.need THEN "dispatch" ELSE "payload"
  /\ UNCHANGED <<config, clientVars, buf, served, respVars, plugin, connected,
                 memVars, histVars>>

(* A timeout, the end of the stream or an error ends receivePayload; the   *)
(* caller does not look at its result.                                     *)
receivePayloadGivesUp ==
  /\ pc = "payload" /\ Http
  /\ inbox = <<>>
  /\ pc' = "dispatch"
  /\ ghost' = [ghost EXCEPT !.left = @ \cup {served + 1}]
  /\ UNCHANGED <<config, clientVars, ioVars, request, served, respVars, plugin,
                 connected, memVars, acts>>

(* FCGX_Accept hands over a whole head; it fails when the listening socket *)
(* is gone.                                                                *)
fcgiReceiveHeader ==
  /\ pc = "receive" /\ ~Http
  /\ \E eoh \in 1..Len(inbox) :
       /\ IsHeadEnd(inbox, eoh)
       /\ \E r \in lookForHeaders(SubSeq(inbox, 1, eoh), eoh) :
            Parse([r EXCEPT !.inner = FALSE])
       /\ inbox' = SubSeq(inbox, eoh + 1, Len(inbox))
  /\ UNCHANGED <<config, clientVars, buf, served, respVars, plugin, connected,
                 leaked, cert, histVars>>

fcgiAcceptFails ==
  /\ pc = "receive" /\ ~Http
  /\ pc' = "closing"
  /\ UNCHANGED <<config, clientVars, ioVars, request, served, respVars, plugin,
                 connected, memVars, histVars>>

(* At the end of the stream FCGX_GetStr returns 0 and the loop, which      *)
(* stops only below 0, calls it again.                                     *)
fcgiPayloadSpins ==
  /\ pc = "payload" /\ ~Http
  /\ inbox = <<>>
  /\ UNCHANGED vars

-----------------------------------------------------------------------------
(* The round trip: serverThread from the test of receiveHeader to the      *)
(* plugins.                                                                *)

Dispatch ==
  /\ pc = "dispatch"
  /\ served' = served + 1
  /\ firstWrite' = TRUE
  /\ status' = 200
  /\ \E matched \in BOOLEAN :
       /\ matched => config.serving = "router"
       /\ (request.parsed /\ request.clean /\ config.serving = "router")
             => matched = asks[request.from].match
       /\ request' = [request EXCEPT !.matched = matched]
       /\ heap' = heap \cup {"respHeaders", "threadMem"}
            \cup (IF matched THEN {"parmValue"} ELSE {})
  /\ cert' = CASE cert = "own" -> "lent" [] cert = "freed" -> "dangling"
               [] OTHER -> cert
  /\ plugin' = 1
  /\ pc' = "pre"
  /\ UNCHANGED <<config, clientVars, ioVars, wire, connected, leaked, histVars>>

(* The certificate node was freed with the thread memory of the last       *)
(* request; it is moved once more, or freed once more.                     *)
CertificateFault ==
  /\ \/ pc = "dispatch" /\ cert = "freed"
     \/ pc = "cleanup" /\ cert = "dangling"
  /\ pc' = "died"
  /\ UNCHANGED <<config, clientVars, ioVars, request, served, respVars, plugin,
                 connected, memVars, histVars>>

InPlugin == \/ pc = "pre" /\ plugin <= PrePlugins
            \/ pc = "post" /\ plugin <= PostPlugins
InCallback == InPlugin \/ pc = "servlet"

(* prepareResponse: the header goes out before the first other write.      *)
NewToken(kind, st) == [kind |-> kind, req |-> served, status |-> st]
(* Mutant: firstWrite is not cleared.                                      *)
EmitKeepsFirstWrite(kind, st) ==
  /\ wire' = wire \o (IF firstWrite THEN <<NewToken("header", st)>> ELSE <<>>)
                  \o <<NewToken(kind, st)>>
  /\ UNCHANGED firstWrite

Emit(kind, st) ==
  /\ wire' = wire \o (IF firstWrite THEN <<NewToken("header", st)>> ELSE <<>>)
                  \o <<NewToken(kind, st)>>
  /\ firstWrite' = FALSE

(* A plugin or the servlet writes (a write of length 0 changes nothing).   *)
putChunk ==
  /\ InCallback
  /\ acts < MaxActs
  /\ Emit("chunk", status)
  /\ acts' = acts + 1
  /\ UNCHANGED <<config, clientVars, ioVars, pc, request, served, status,
                 plugin, connected, memVars, ghost>>

SetStatus(s) ==
  /\ InCallback
  /\ acts < MaxActs
  /\ status' = s
  /\ acts' = acts + 1
  /\ UNCHANGED <<config, clientVars, ioVars, pc, request, served, firstWrite,
                 wire, plugin, connected, memVars, ghost>>

(* Mutant: the status is set after the write.                              *)
handlerWritesThenSetsStatus ==
  /\ InCallback
  /\ ghost.raised = "no"
  /\ acts < MaxActs
  /\ acts' = acts + 1
  /\ ghost' = [ghost EXCEPT !.raised = IF firstWrite THEN "clean" ELSE "late"]
  /\ Emit("chunk", status)
  /\ status' = 500
  /\ UNCHANGED <<config, clientVars, ioVars, pc, request, served, plugin,
                 connected, memVars>>

(* An escape message in a callback.  The handler answers, then control     *)
(* resumes in the callback or after its call; in the latter case the       *)
(* result of runPlugins, allSaysGo, is undefined.                          *)
handleServletException ==
  /\ InCallback
  /\ ghost.raised = "no"
  /\ acts < MaxActs
  /\ acts' = acts + 1
  /\ ghost' = [ghost EXCEPT !.raised = IF firstWrite THEN "clean" ELSE "late"]
  /\ status' = 500
  /\ Emit("chunk", 500)
  /\ \/ UNCHANGED <<pc, plugin>>
     \/ pc = "pre" /\ plugin' = PrePlugins + 1 /\ UNCHANGED pc
     \/ pc \in {"pre", "post"} /\ pc' = "end" /\ UNCHANGED plugin
     \/ pc = "servlet" /\ pc' = "post" /\ plugin' = 1
  /\ UNCHANGED <<config, clientVars, ioVars, request, served, connected,
                 memVars>>

(* Mutant: a plugin's *OFF does not stop the list.                         *)
runPreRequestPluginIgnoresOff(go) ==
  /\ pc = "pre" /\ plugin <= PrePlugins
  /\ plugin' = plugin + 1
  /\ ghost' = IF go THEN [ghost EXCEPT !.approvals = @ + 1]
                    ELSE [ghost EXCEPT !.vetoed = TRUE]
  /\ UNCHANGED <<config, clientVars, ioVars, pc, request, served, respVars,
                 connected, memVars, acts>>

(* runPlugins: stop at the first plugin that returns *OFF.                 *)
runPreRequestPlugin(go) ==
  /\ pc = "pre" /\ plugin <= PrePlugins
  /\ IF go THEN plugin' = plugin + 1 /\ UNCHANGED pc
           ELSE pc' = "end" /\ UNCHANGED plugin
  /\ ghost' = IF go THEN [ghost EXCEPT !.approvals = @ + 1]
                    ELSE [ghost EXCEPT !.vetoed = TRUE]
  /\ UNCHANGED <<config, clientVars, ioVars, request, served, respVars,
                 connected, memVars, acts>>

runPostResponsePlugin(go) ==
  /\ pc = "post" /\ plugin <= PostPlugins
  /\ IF go THEN plugin' = plugin + 1 /\ UNCHANGED pc
           ELSE pc' = "end" /\ UNCHANGED plugin
  /\ UNCHANGED <<config, clientVars, ioVars, request, served, respVars,
                 connected, memVars, histVars>>

(* All pre request plugins let the request pass: call the servlet of       *)
(* il_listen or of the route, or answer 404.                               *)
runServlet ==
  /\ pc = "pre" /\ plugin = PrePlugins + 1
  /\ \/ /\ config.serving = "servlet" \/ request.matched
        /\ pc' = "servlet"
        /\ UNCHANGED <<plugin, status>>
     \/ /\ config.serving = "router" /\ ~request.matched
        /\ status' = 404
        /\ pc' = "post" /\ plugin' = 1
     \/ /\ config.serving = "none"
        /\ pc' = "post" /\ plugin' = 1
        /\ UNCHANGED status
  /\ UNCHANGED <<config, clientVars, ioVars, request, served, firstWrite, wire,
                 connected, memVars, histVars>>

ServletReturns ==
  /\ pc = "servlet"
  /\ pc' = "post" /\ plugin' = 1
  /\ UNCHANGED <<config, clientVars, ioVars, request, served, respVars,
                 connected, memVars, histVars>>

PluginsDone ==
  /\ pc = "post" /\ plugin = PostPlugins + 1
  /\ pc' = "end"
  /\ UNCHANGED <<config, clientVars, ioVars, request, served, respVars, plugin,
                 connected, memVars, histVars>>

-----------------------------------------------------------------------------
(* The end of the round trip.                                              *)

(* Mutant: an empty response is not ended.                                 *)
putChunkEndWithoutHeader ==
  /\ pc = "end"
  /\ IF Http /\ ~firstWrite THEN Emit("end", status)
                            ELSE UNCHANGED <<wire, firstWrite>>
  /\ pc' = "check"
  /\ UNCHANGED <<config, clientVars, ioVars, request, served, status, plugin,
                 connected, memVars, histVars>>

putChunkEnd ==
  /\ pc = "end"
  /\ IF Http THEN Emit("end", status) ELSE UNCHANGED <<wire, firstWrite>>
  /\ pc' = "check"
  /\ UNCHANGED <<config, clientVars, ioVars, request, served, status, plugin,
                 connected, memVars, histVars>>

(* Mutant: connected is not cleared.                                       *)
CheckConnectionIgnoresClose ==
  /\ pc = "check"
  /\ pc' = IF request.parsed THEN "cleanup" ELSE "died"
  /\ UNCHANGED <<config, clientVars, ioVars, request, served, respVars, plugin,
                 connected, memVars, histVars>>

(* getHeaderValue dereferences headerList outside of the exception         *)
(* handler: without one the thread dies with its socket open.              *)
CheckConnection ==
  /\ pc = "check"
  /\ IF request.parsed
     THEN /\ connected' \in IF request.clean
                           THEN {connected /\ ~SaysClose(request.from)}
                           ELSE {connected, FALSE}
          /\ pc' = "cleanup"
     ELSE pc' = "died" /\ UNCHANGED connected
  /\ UNCHANGED <<config, clientVars, ioVars, request, served, respVars, plugin,
                 memVars, histVars>>

(* Mutant: content.String is not freed.                                    *)
FreedWithoutPayload ==
  {"lists", "respHeaders", "threadMem"}
    \cup (IF request.matched THEN {"parmValue"} ELSE {})
    \cup (IF request.inner THEN {} ELSE {"buf"})

(* What cleanupTransaction frees.  memFree ignores a completeHeader.String *)
(* that does not point to the start of its block.                          *)
Freed == {"lists", "respHeaders", "threadMem", "payload"}
           \cup (IF request.matched THEN {"parmValue"} ELSE {})
           \cup (IF request.inner THEN {} ELSE {"buf"})

(* Mutant: the receive buffer is used again.                               *)
cleanupKeepsBuffer ==
  /\ pc = "cleanup"
  /\ leaked' = leaked + Cardinality(heap \ (Freed \cup {"instance"}))
  /\ heap' = {"instance", "buf"}
  /\ request' = NoRequest
  /\ ghost' = [NoGhost EXCEPT !.left = ghost.left]
  /\ pc' = IF connected THEN "receive" ELSE "closing"
  /\ UNCHANGED <<config, clientVars, ioVars, served, respVars, plugin,
                 connected, cert, acts>>

(* The next receiveHeader follows at once: HTTP allocates a new buffer,    *)
(* FCGX_Accept finishes the last response.                                 *)
cleanupTransaction ==
  /\ pc = "cleanup"
  /\ leaked' = leaked + Cardinality(heap \ (Freed \cup {"instance"}))
  /\ cert' = IF cert \in {"lent", "dangling"} THEN "freed" ELSE cert
  /\ request' = NoRequest
  /\ buf' = <<>>
  /\ ghost' = [NoGhost EXCEPT !.left = ghost.left]
  /\ IF connected
     THEN /\ pc' = "receive"
          /\ heap' = {"instance"} \cup (IF Http THEN {"buf"} ELSE {})
          /\ wire' = IF Http THEN wire ELSE Append(wire, NewToken("end", status))
     ELSE pc' = "closing" /\ heap' = {"instance"} /\ UNCHANGED wire
  /\ UNCHANGED <<config, clientVars, inbox, served, firstWrite, status, plugin,
                 connected, acts>>

(* A thread ends with pthread_exit, in front of the memFree that a worker  *)
(* gets to.                                                                *)
CloseSocket ==
  /\ pc = "closing"
  /\ pc' = "closed"
  /\ leaked' = IF config.isWorker THEN leaked ELSE leaked + Cardinality(heap)
  /\ heap' = {}
  /\ UNCHANGED <<config, clientVars, ioVars, request, served, respVars, plugin,
                 connected, cert, histVars>>

(* The thread is gone; nothing more happens on the connection.             *)
Terminated ==
  /\ pc \in {"closed", "died"}
  /\ UNCHANGED vars

-----------------------------------------------------------------------------
Environment == (\E r \in Requests : Ask(r)) \/ Deliver \/ Hangup \/ Reset
                 \/ fcgiAcceptFails

Receive ==
  \/ receiveHeaderHTTP \/ lookForHeadersFails
  \/ receiveHeaderGivesUp \/ receiveHeaderTlsError
  \/ receivePayload \/ receivePayloadGivesUp
  \/ fcgiReceiveHeader \/ fcgiPayloadSpins

(* What ends a callback: it returns.                                       *)
Returns ==
  \/ \E go \in BOOLEAN : runPreRequestPlugin(go) \/ runPostResponsePlugin(go)
  \/ ServletReturns

Callback == putChunk \/ (\E s \in Statuses : SetStatus(s))
              \/ handleServletException

Respond == Dispatch \/ CertificateFault \/ runServlet \/ PluginsDone
             \/ CheckConnection \/ cleanupTransaction \/ CloseSocket

Next == Environment \/ Receive \/ Callback \/ Returns \/ Respond
          \/ putChunkEnd \/ Terminated

Spec == Init /\ [][Next]_vars

(* write() waits while the client does not read; a reset ends it.          *)
Stalled == ~config.reads /\ peer # "reset"

(* The operating system runs the thread, select() returns when data or the *)
(* end of the stream is there and after its timeout, and the callbacks     *)
(* return.  No write returns to a client that does not read, and nothing   *)
(* makes the client do anything, or a callback fail.                       *)
Fairness == /\ WF_vars(Receive) /\ WF_vars(Respond)
            /\ WF_vars(~Stalled /\ Returns) /\ WF_vars(~Stalled /\ putChunkEnd)

FairSpec == Spec /\ Fairness

-----------------------------------------------------------------------------
(* Properties.                                                             *)

Stages == {"receive", "payload", "dispatch", "pre", "servlet", "post", "end",
           "check", "cleanup", "closing", "closed", "died"}

(* The loop is between receiveHeader and the end of the response.          *)
Answering == pc \in {"pre", "servlet", "post", "end"}

(* Every variable has its type.                                            *)
TypeOK ==
  /\ config \in Config
  /\ asks \in Seq(Request)
  /\ toSend \in Seq(Unit)
  /\ inbox \in Seq(Unit)
  /\ peer \in {"open", "shut", "reset"}
  /\ pc \in Stages
  /\ buf \in Seq(Unit)
  /\ request \in Parsed /\ request.have <= request.need
  /\ served \in Nat
  /\ firstWrite \in BOOLEAN
  /\ status \in Nat
  /\ plugin \in Nat
  /\ connected \in BOOLEAN
  /\ wire \in Seq(Token)
  /\ heap \subseteq Block
  /\ leaked \in Nat
  /\ cert \in CertState
  /\ acts \in Nat
  /\ ghost \in Ghost

(* Whatever plugins, servlet and exception handler write, what goes over   *)
(* the wire is a row of responses: a header comes before the chunks of its *)
(* response (and, over HTTP, before its end), a response has one header,   *)
(* and after the end of a response only later responses follow.            *)
HeaderFirst ==
  \A i \in DOMAIN wire :
    wire[i].kind = "chunk" \/ (wire[i].kind = "end" /\ Http)
      => \E j \in 1..(i - 1) : wire[j].kind = "header" /\ wire[j].req = wire[i].req
HeaderOnce ==
  \A i, j \in DOMAIN wire :
    wire[i].kind = "header" /\ wire[j].kind = "header" /\ wire[i].req = wire[j].req
      => i = j
EndLast ==
  \A i, j \in DOMAIN wire : i < j /\ wire[i].kind = "end" => wire[i].req < wire[j].req
InOrder ==
  \A i, j \in DOMAIN wire : i < j => wire[i].req <= wire[j].req
WireOrder == HeaderFirst /\ HeaderOnce /\ EndLast /\ InOrder

(* Of the requests before the n-th every byte was read as part of one. *)
InSync(n) == \A m \in ghost.left : m >= n

(* The n-th response on a connection answers the n-th request of the       *)
(* client, as long as every byte of the requests before it was read as     *)
(* theirs: none was cut short, had its body overlooked behind a line       *)
(* without a colon, or was parsed before its last byte had come.           *)
AnswersTheAsker ==
  ~Secure /\ Answering /\ InSync(served)
    => request.from = served /\ served = Len(asks)

(* After a request with "Connection: close" the loop never serves another, *)
(* unless the header was behind a line without a colon or the bytes of an  *)
(* earlier request were in front of it.                                    *)
CloseHonoured ==
  ~Secure => \A n \in 1..(served - 1) : InSync(n) => ~SaysClose(n)

(* The servlet runs only when every IL_PREREQUEST plugin has returned *ON  *)
(* or one of them failed, and never when one has returned *OFF.            *)
ServletAuthorized ==
  pc = "servlet" => /\ ~ghost.vetoed
                    /\ ghost.approvals = PrePlugins \/ ghost.raised # "no"

(* A callback that fails before anything was written is reported to the    *)
(* client as status 500.                                                   *)
FailureReported ==
  Answering /\ ghost.raised = "clean"
    => \E i \in DOMAIN wire : wire[i] = [kind |-> "header", req |-> served,
                                         status |-> 500]

(* Plugins and servlet see the whole body that the client sent, however    *)
(* the reads split it, unless it was cut by a timeout or a fault or its    *)
(* length was behind a line without a colon.                               *)
WholeBodyUnlessCut ==
  Answering /\ request.parsed /\ request.clean
    => \/ request.have = asks[request.from].body
       \/ Hidden(request.from)
       \/ served \in ghost.left

(* A request is parsed from its own bytes alone, unless bytes of an        *)
(* earlier request on the connection were left unread.                     *)
FramedUnlessCut ==
  Answering => request.clean \/ ~InSync(served)

(* Over HTTP and FastCGI a connection loses one block, the INSTANCE of a   *)
(* thread, when it is closed; and the buffer of a request that begins with *)
(* a line end, its own or the rest of an earlier one.  (A thread that dies *)
(* loses all it has.)                                                      *)
OnlyInstanceLeaked ==
  \/ Secure \/ pc = "died" \/ ghost.left # {}
  \/ \E n \in DOMAIN asks : "lead" \in asks[n].flaws
  \/ leaked = IF pc = "closed" /\ ~config.isWorker THEN 1 ELSE 0

(* Every request that gets past receiveHeader is ended on the wire, unless *)
(* the client does not read what is written to it.                         *)
RequestAnswered ==
  \A n \in 1..MaxRequests :
    (served >= n) ~> (Stalled \/ \E i \in Ends : wire[i].req = n)

(* Over HTTP the thread ends when the client has gone away, unless it went *)
(* with half of the connection open and does not read.                     *)
ConnectionReleased ==
  (config.protocol = "http" /\ peer # "open") ~> (Stalled \/ pc \in {"closed", "died"})

(* The connection implements the abstract exchange.                        *)
Exchange == INSTANCE HttpExchange WITH
  asked  <- Len(asks),
  served <- served,
  phase  <- IF ~Answering THEN IF pc \in {"closed", "died"} THEN "closed" ELSE "idle"
            ELSE IF firstWrite THEN "headless" ELSE "streaming",
  astray <- ghost.left # {},
  stalled <- Stalled,
  wire   <- [i \in DOMAIN wire |-> [kind |-> wire[i].kind, req |-> wire[i].req]]
ImplementsExchange == Exchange!Spec

-----------------------------------------------------------------------------
(* What the documentation says and the code does not do.                   *)

(* headers/ileastic.rpgle:413 "This data structure contains the values of  *)
(* the incoming HTTP request": a callback is called for a request only.    *)
RequestWasReceived == Answering => request.parsed

(* The same sentence: the request holds nothing but the client's request.  *)
RequestIsFramed == Answering => request.clean

(* TLS.md:111 certificate information "can be queried during runtime": it  *)
(* is in the thread memory of every request of the connection.             *)
CertificateAvailable ==
  Answering /\ request.parsed /\ cert # "none" => cert = "lent"
=============================================================================
