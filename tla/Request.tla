------------------------------ MODULE Request ------------------------------
(***************************************************************************)
(* How a request gets from the bytes on the socket to the answers of the   *)
(* getters: receiveHeaderHTTP, lookForHeaders and the parse functions of   *)
(* ileastic.c with reads that cut the bytes anywhere, fcgiReceiveHeader of *)
(* fastCGI.c, findRoute, and the getters of api.c that the servlet calls.  *)
(* A client that stalls or goes away is the subject of Roundtrip.          *)
(***************************************************************************)
EXTENDS Routing, Base64

CONSTANTS
  Scenarios,    \* [message, memory, calls]: what a client may compose, what
                \* may lie in the memory of buf, the calls of il_addRoute
  Names,        \* what the servlet asks for
  Default,      \* the default value it passes
  Binaries,     \* what it gets in base 64
  Files         \* names of files it serves: parts and dots

VARIABLES
  scenario,     \* chosen once, in Scenarios
  received,     \* bytes read so far
  phase,        \* where the server is
  request,      \* REQUEST, parsed
  answer,       \* the last call of the servlet and what it returned
  calls         \* history: the calls of il_addRoute

vars == <<router, routeVars, calls, scenario, received, phase, request, answer>>

message == scenario.message
memory  == scenario.memory

-----------------------------------------------------------------------------
(* External: the bytes of a message.  A parameter is [name, value], both   *)
(* to be encoded, or [name] alone; a line of the header is [name, blanks,  *)
(* value] or [name] alone, without a colon.                                *)

Join(parts, between) ==
  FlattenSeq([i \in DOMAIN parts |-> IF i = 1 THEN parts[i] ELSE between \o parts[i]])
Encoded(s) == FlattenSeq([i \in DOMAIN s |->
                IF s[i] \in DOMAIN Escaped THEN Escaped[s[i]] ELSE <<s[i]>>])
Blanks(n) == [i \in 1..n |-> "SP"]
IsPair(p) == "value" \in DOMAIN p

ResourceSent(msg) == FlattenSeq([i \in DOMAIN msg.segments |-> <<"/">> \o msg.segments[i]])
QuerySent(msg) ==
  Join([i \in DOMAIN msg.parms |->
          IF IsPair(msg.parms[i])
          THEN Encoded(msg.parms[i].name) \o <<"=">> \o Encoded(msg.parms[i].value)
          ELSE Encoded(msg.parms[i].name)], <<"&">>)
UrlSent(msg) == ResourceSent(msg) \o
                  IF msg.parms = <<>> THEN <<>> ELSE <<"?">> \o QuerySent(msg)
LengthLine(msg) ==
  IF msg.body = <<>> THEN <<>>
  ELSE <<[name |-> <<"content-length">>, blanks |-> 1,
          value |-> <<Digits[Len(msg.body) + 1]>>]>>
LinesSent(msg) == msg.lines \o LengthLine(msg)
HeadersSent(msg) ==
  Join([i \in DOMAIN LinesSent(msg) |->
          LET line == LinesSent(msg)[i] IN
          IF IsPair(line) THEN line.name \o <<":">> \o Blanks(line.blanks) \o line.value
          ELSE line.name], Eol)
HeadSent(msg) ==
  msg.lead \o msg.method \o <<"SP">> \o UrlSent(msg) \o <<"SP", "HTTP/1.1">> \o Eol
    \o HeadersSent(msg) \o (IF LinesSent(msg) = <<>> THEN <<>> ELSE Eol) \o Eol
Wire(msg) == HeadSent(msg) \o msg.body

BracesClosed(routeReg) ==
  \A i \in DOMAIN routeReg : routeReg[i] = "{" =>
    \E j \in (i + 1)..Len(routeReg) : routeReg[j] = "}"

(* The empty line at the end of a head is its only one, as HTTP has it.    *)
(* In the expression of a route a brace that is opened is closed: without  *)
(* that parserRouting returns an expression that has no end.  It has no    *)
(* more names than parmNames takes: more are written behind that.          *)
ASSUME ScenariosAssumption ==
  \A s \in Scenarios :
    /\ {HeadSent(s.message), s.message.body, s.memory} \subseteq Seq(STRING)
    /\ {p \in DOMAIN HeadSent(s.message) : Occurs(HeadSent(s.message), Eol \o Eol, p)}
         = {Len(HeadSent(s.message)) - 3}
    /\ \A c \in s.calls : c.parms >= 4 /\ c.routeReg # NULL =>
         /\ c.routeReg \in Seq(STRING) /\ BracesClosed(c.routeReg)
         /\ Len(parserRouting(c.routeReg).parmNames) <= MaxParms

(* What a client writes: in no part a byte that would end it, which leaves *)
(* to the values of parameters every byte but CR, LF and NUL.  A name in   *)
(* the header and its value do not begin with a blank, and the client does *)
(* not announce the length twice.  One digit is enough for it.             *)
Without(bytes) == {s \in Seq(STRING) : \A i \in DOMAIN s : s[i] \notin bytes}
Begun(bytes) == {s \in Without({"CR", "LF"}) : s # <<>> => s[1] \notin bytes}
Parameters == LET text == Without({"CR", "LF", "NUL"})
              IN [name : text, value : text] \cup [name : text]
HeaderLines == LET name == (Without({"CR", "LF", ":"}) \cap Begun({"SP"})) \ {<<>>}
               IN [name : name, blanks : Nat, value : Begun({"SP"})] \cup [name : name]

ASSUME MessagesAssumption ==
  \A s \in Scenarios : LET msg == s.message IN
    /\ msg.transport \in {"http", "fastcgi"}
    /\ msg.lead \in Seq({"CR", "LF"})
    /\ msg.method \in Without({"CR", "LF", "SP"}) \ {<<>>}
    /\ msg.segments \in Seq(Without({"CR", "LF", "SP", "/", "?"})) \ {<<>>}
    /\ msg.segments # NULL
    /\ msg.parms \in Seq(Parameters)
    /\ msg.lines \in Seq(HeaderLines)
    /\ \A i \in DOMAIN msg.lines :
         ~EqualIgnoringCase(msg.lines[i].name, <<"content-length">>)
    /\ msg.body \in Seq(STRING) /\ Len(msg.body) <= 9

(* A servlet passes strings, and no string is that of a null pointer.      *)
ASSUME CallsAssumption ==
  /\ Names \subseteq Seq(STRING)
  /\ Files \subseteq Seq(STRING \ {"null"})
  /\ Binaries \subseteq Seq(0..255)

-----------------------------------------------------------------------------
(* The parse functions.                                                    *)

(* Mutant: the blank before the protocol belongs to the last value. *)
parseParmsWithBlank(m, from, to) ==
  LET list[begin \in 1..(to + 1)] ==
        LET amp     == memchr(m, "&", begin, to)
            parmEnd == IF amp # 0 THEN amp ELSE to
            split   == memchr(m, "=", begin, parmEnd)
        IN IF begin >= to \/ split = 0 THEN <<>>
           ELSE <<[key |-> String(m, begin, split), value |-> String(m, split + 1, parmEnd)]>>
                  \o list[parmEnd + 1]
  IN list[from]

(* parseParms of the string at from..to-1.  Behind it is a NUL, or it ends *)
(* with the blank before the protocol.  The first part without = ends it.  *)
parseParms(m, from, to) ==
  LET list[begin \in 1..(to + 1)] ==
        LET amp     == memchr(m, "&", begin, to)
            parmEnd == IF amp # 0 THEN amp ELSE IF m[to] = "NUL" THEN to ELSE to - 1
            split   == memchr(m, "=", begin, parmEnd)
        IN IF begin >= to \/ split = 0 THEN <<>>
           ELSE <<[key |-> String(m, begin, split), value |-> String(m, split + 1, parmEnd)]>>
                  \o list[parmEnd + 1]
  IN list[from]

(* A segment lies between a slash and the next one or the end; what is in  *)
(* front of the first slash is none.                                       *)
parseResource(resource) ==
  LET end == Len(resource) + 1
      list[segmentStart \in 1..end] ==
        LET slash == memchr(resource, "/", segmentStart + 1, end)
            i     == IF slash = 0 THEN end ELSE slash
        IN IF segmentStart = end THEN <<>>
           ELSE <<SubSeq(resource, segmentStart + 1, i - 1)>> \o list[i]
      first == memchr(resource, "/", 1, end)
  IN IF first = 0 THEN <<>> ELSE list[first]

(* The first line without a colon ends the list. *)
parseHeaders(m, from, headend) ==
  LET list[line \in 1..(headend + 2)] ==
        LET begin == Skip(m, line, {"SP"})
            found == memmem(m, Eol, begin, headend)
            end   == IF found = 0 THEN headend ELSE found
            split == memchr(m, ":", begin, end)
        IN IF line >= headend \/ split = 0 THEN <<>>
           ELSE <<[key |-> String(m, begin, split),
                   value |-> String(m, Skip(m, split + 1, {"SP"}), end)]>> \o list[end + 2]
  IN list[from]

(* The value of the first header with that name, or empty. *)
getHeaderValue(headerList, key) ==
  LET h == SelectInSeq(headerList, LAMBDA x : EqualIgnoringCase(x.key, key))
  IN IF h = 0 THEN <<>> ELSE headerList[h].value

(* lookForHeaders behind its early return, in the memory m with bufLen     *)
(* bytes received and the end of the headers at eoh.                       *)
Parsed(m, bufLen, eoh) ==
  LET buf       == Skip(m, 1, {"CR", "LF"})
      headers   == memmem(m, Eol, buf, bufLen + 1) + 2
      before    == eoh - buf
      method    == Skip(m, buf, {"SP"})
      methodEnd == memchr(m, "SP", method, method + before)
      url       == Skip(m, methodEnd, {"SP"})
      urlEnd    == memchr(m, "SP", url, url + before)
      protocol  == Skip(m, urlEnd, {"SP"})
      protEnd   == memmem(m, Eol, protocol, protocol + before)
      mark      == memchr(m, "?", url, urlEnd)
      resource  == String(m, url, IF mark = 0 THEN urlEnd ELSE mark)
      list      == parseHeaders(m, headers, eoh)
      length    == a2i(getHeaderValue(list, <<"content-length">>))
  IN [method |-> String(m, method, methodEnd), url |-> String(m, url, urlEnd),
      protocol |-> String(m, protocol, protEnd),
      resource |-> resource,
      queryString |-> IF mark = 0 THEN <<>> ELSE String(m, mark + 1, protocol),
      headers |-> String(m, headers, eoh),
      headerList |-> list,
      parmList |-> IF mark = 0 THEN <<>> ELSE parseParms(m, mark + 1, protocol),
      segments |-> parseResource(resource),
      contentLength |-> length,
      content |-> IF length = 0 THEN <<>> ELSE String(m, eoh + 4, bufLen + 1),
      routeId |-> <<>>]

NoRequest == [method |-> <<>>, url |-> <<>>, protocol |-> <<>>, resource |-> <<>>,
              queryString |-> <<>>, headers |-> <<>>, headerList |-> <<>>,
              parmList |-> <<>>, segments |-> <<>>, contentLength |-> 0,
              content |-> <<>>, routeId |-> <<>>]

NoAnswer == [call |-> "none"]

-----------------------------------------------------------------------------
(* The actions.                                                            *)

Init ==
  /\ router = <<>>
  /\ pRouting = 0 /\ parmValue = <<>>
  /\ scenario \in Scenarios
  /\ received = 0
  /\ phase = "configure"
  /\ request = NoRequest
  /\ answer = NoAnswer
  /\ calls = <<>>

Configure ==
  /\ phase = "configure"
  /\ \E c \in scenario.calls : il_addRoute(c) /\ calls' = Append(calls, c)
  /\ UNCHANGED <<scenario, received, phase, request, answer>>

il_listen ==
  /\ phase = "configure"
  /\ phase' = IF message.transport = "fastcgi" THEN "accept" ELSE "header"
  /\ UNCHANGED <<router, routeVars, calls, scenario, received, request, answer>>

(* buf with n bytes received: behind them is what was there before.  It is *)
(* allocated and not cleared.                                              *)
Buffer(n) == SubSeq(Wire(message), 1, n) \o SubSeq(memory, n + 1, Len(memory))

(* One turn of the loop: a read of any length, then lookForHeaders.  The   *)
(* result of receivePayload begins with a memcpy of what came with the     *)
(* head: with a negative length that is the end of the thread.             *)
receiveHeaderHTTP ==
  /\ phase = "header"
  /\ \E n \in (received + 1)..Len(Wire(message)) :
       LET eoh    == memmem(Buffer(n), Eol \o Eol, 1, n + 1)
           parsed == Parsed(Buffer(n), n, eoh)
       IN /\ received' = n
          /\ IF eoh = 0
             THEN UNCHANGED <<phase, request>>
             ELSE /\ request' = parsed
                  /\ phase' = IF parsed.contentLength = 0 THEN "route"
                              ELSE IF parsed.content = Wild THEN "wild" ELSE "payload"
  /\ UNCHANGED <<router, routeVars, calls, scenario, answer>>

(* The rest of the content, with reads of any length. *)
receivePayload ==
  /\ phase = "payload"
  /\ IF Len(request.content) >= request.contentLength
     THEN phase' = "route" /\ UNCHANGED <<received, request>>
     ELSE /\ \E n \in (received + 1)..Len(Wire(message)) :
               /\ received' = n
               /\ request' = [request EXCEPT !.content =
                                @ \o SubSeq(Wire(message), received + 1, n)]
          /\ UNCHANGED phase
  /\ UNCHANGED <<router, routeVars, calls, scenario, answer>>

(* External: the server that speaks FastCGI writes the name of a header    *)
(* in upper case, with _ for -.  The type of the content is not among the  *)
(* headers there.                                                          *)
Underscored(name) == [i \in DOMAIN name |-> IF name[i] = "-" THEN "_" ELSE name[i]]
EnvName(name) == UpperCase(Underscored(name))
IsEnvHeader(line) ==
  IsPair(line) /\ ~EqualIgnoringCase(line.name, <<"content", "-", "type">>)

EnvHeaders(lines) ==
  LET from[i \in 1..(Len(lines) + 1)] ==
        IF i > Len(lines) THEN <<>>
        ELSE IF IsEnvHeader(lines[i])
             THEN <<[key |-> EnvName(lines[i].name), value |-> lines[i].value]>> \o from[i + 1]
             ELSE from[i + 1]
  IN from[1]

(* A name that is too long for key, with HTTP_ in front of it, is written  *)
(* over the stack of the thread, which may not survive that.               *)
HasLongName(lines) ==
  \E i \in DOMAIN lines : IsEnvHeader(lines[i]) /\ Contains(lines[i].name, "name of 59 bytes")

fcgiReceiveHeader ==
  /\ phase = "accept"
  /\ LET query == QuerySent(message)
     IN request' = [NoRequest EXCEPT
          !.method = message.method, !.url = UrlSent(message),
          !.protocol = <<"HTTP/1.1">>, !.resource = ResourceSent(message),
          !.queryString = query,
          !.headerList = EnvHeaders(message.lines),
          !.parmList = parseParms(query \o <<"NUL">>, 1, Len(query) + 1),
          !.segments = NULL,
          !.contentLength = Len(message.body), !.content = message.body]
  /\ phase' \in IF HasLongName(message.lines) THEN {"route", "wild"} ELSE {"route"}
  /\ received' = Len(Wire(message))
  /\ UNCHANGED <<router, routeVars, calls, scenario, answer>>

(* serverThread: the route and its id, if the configuration has any. *)
RouteDies ==
  /\ phase = "route"
  /\ phase' = "wild"
  /\ findRouteDies(request.method, request.resource)
  /\ UNCHANGED <<router, calls, scenario, received, request, answer>>

Route ==
  /\ phase = "route"
  /\ phase' = "servlet"
  /\ IF router = <<>> THEN UNCHANGED routeVars
     ELSE findRoute(request.method, request.resource)
  /\ request' = IF pRouting' = 0 THEN request
                ELSE [request EXCEPT !.routeId = router[pRouting'].routeId]
  /\ UNCHANGED <<router, calls, scenario, received, answer>>

-----------------------------------------------------------------------------
(* The calls of the servlet.  Each reads the request and changes nothing:  *)
(* it is enough that one is made.                                          *)

Returns(call, arg, out) ==
  /\ phase = "servlet" /\ answer = NoAnswer
  /\ answer' = [call |-> call, arg |-> arg, out |-> out]
  /\ UNCHANGED <<router, routeVars, calls, scenario, received, phase, request>>

(* il_getRequestMethod, Url, Protocol, Resource, QueryString, Headers and  *)
(* Content: a copy of the string.                                          *)
Fields == {"method", "url", "protocol", "resource", "queryString", "headers", "content"}
il_getRequestField(f) == Returns("field", f, request[f])

il_getRequestHeader(name) ==
  Returns("header", name, getHeaderValue(request.headerList, name))

(* Mutant: the value is copied as it was sent. *)
il_getParmStrRaw(name) ==
  LET p == SelectInSeq(request.parmList, LAMBDA x : EqualIgnoringCase(x.key, name))
  IN Returns("parm", name, IF p = 0 THEN Default ELSE request.parmList[p].value)

(* The lengths are compared before the name is decoded. *)
il_getParmStr(name) ==
  LET p == SelectInSeq(request.parmList, LAMBDA x :
             Len(x.key) = Len(name) /\ EqualIgnoringCase(urldecodeBuf(x.key), name))
  IN Returns("parm", name, IF p = 0 THEN Default ELSE urldecodeBuf(request.parmList[p].value))

(* Without a list the variable of the caller is left as it was. *)
SegmentAt(i) ==
  IF request.segments = NULL THEN Wild
  ELSE IF i + 1 \in DOMAIN request.segments THEN request.segments[i + 1] ELSE <<>>
il_getRequestSegmentByIndex(i) == Returns("segment", i, SegmentAt(i))

(* il_getPathParameter with an index: neither the name nor the default is  *)
(* looked at.                                                              *)
il_getPathParameterByIndex(i) == Returns("index", i, SegmentAt(i))

(* The type of a file whose extension begins with ext.  It is not closed   *)
(* by a NUL: rest, which lies behind it, is read with it.                  *)
ImageTypes == {"gif", "heif", "hevc", "png", "jpg", "jpeg"}
MimeType(ext, rest) ==
  LET extension == LowerCase(ext \o rest)
      Is1(names) == Len(extension) = 1 /\ extension[1] \in names
  IN IF ext \o rest = <<>> \/ Is1({"html", "htm"}) THEN <<"text", "html">>
     ELSE <<IF Is1(ImageTypes) THEN "image" ELSE IF Is1({"css"}) THEN "text"
            ELSE "application">> \o ext \o rest

(* Behind the last dot; without one the function returns no value. *)
il_getFileExtension(fileName) ==
  LET dot == SelectLastInSeq(fileName, LAMBDA x : x = ".")
  IN IF dot = 0 THEN NULL ELSE SubSeq(fileName, dot + 1, Len(fileName))

(* Error, or the type of the file; the content is written with putChunk. *)
il_serveStatic(fileName) ==
  \/ Returns("static", fileName, [rest |-> <<>>, contentType |-> NULL])
  \/ LET ext == il_getFileExtension(fileName) IN
     \E rest \in {<<>>, <<"left">>} :
       Returns("static", fileName,
               [rest |-> rest,
                contentType |-> IF ext = NULL THEN Wild ELSE MimeType(ext, rest)])

(* External: a text broken into lines of that many characters. *)
Broken(text, width) ==
  FlattenSeq([i \in DOMAIN text |->
    IF i % width = 0 THEN <<text[i], 13, 10>> ELSE <<text[i]>>])

Servlet ==
  \/ \E f \in Fields : il_getRequestField(f)
  \/ \E name \in Names : \/ il_getRequestHeader(name)
                         \/ il_getParmStr(name)
                         \/ Returns("path", name, il_getPathParameter(name, Default))
  \/ \E i \in 0..2 : il_getRequestSegmentByIndex(i) \/ il_getPathParameterByIndex(i)
  \/ \E fileName \in Files : il_serveStatic(fileName)
  \/ \E data \in Binaries : \E width \in {1, 3} :
       Returns("base64", data, il_decodeBase64(Broken(il_encodeBase64(data), width)))

Ended == phase \in {"servlet", "wild"} /\ UNCHANGED vars

Next == \/ Configure \/ il_listen \/ receiveHeaderHTTP \/ receivePayload
        \/ fcgiReceiveHeader \/ Route \/ RouteDies \/ Servlet \/ Ended

Spec == Init /\ [][Next]_vars

-----------------------------------------------------------------------------
(* Properties.                                                             *)

(* The variables have their types; no more is read than was sent.          *)
RequestTypeOK ==
  /\ Len(router) <= MaxRoutes
  /\ pRouting \in 0..Len(router)
  /\ pRouting # 0 => Len(parmValue) \in ValuesOf(router[pRouting])
  /\ scenario \in Scenarios
  /\ received \in 0..Len(Wire(message))
  /\ phase \in {"configure", "header", "accept", "payload", "route", "servlet", "wild"}
  /\ DOMAIN request = DOMAIN NoRequest

(* The head was received as a whole when it was parsed. *)
WholeHead == received >= Len(HeadSent(message))
Whole == phase \in {"route", "servlet"} /\ WholeHead

Prefixed(list) ==
  LET odd == SelectInSeq(list, LAMBDA x : ~IsPair(x))
  IN IF odd = 0 THEN list ELSE SubSeq(list, 1, odd - 1)

(* The parameters, decoded, up to one without a value. *)
ParmsAsSent ==
  [i \in DOMAIN request.parmList |->
     [name |-> urldecodeBuf(request.parmList[i].key),
      value |-> urldecodeBuf(request.parmList[i].value)]] = Prefixed(message.parms)

(* However the reads cut the bytes, the method, the url, its segments and  *)
(* parameters, the protocol, the lines of the header up to one without a   *)
(* colon and, when there is no such line, the content are those the client *)
(* composed: lookForHeaders and receivePayload lose, repeat and shift      *)
(* nothing, over HTTP, where a blank follows the query string, nor over    *)
(* FastCGI, where a NUL does.                                              *)
RequestAsSent ==
  Whole =>
    /\ request.method = message.method
    /\ request.url = UrlSent(message)
    /\ request.resource = ResourceSent(message)
    /\ request.protocol = <<"HTTP/1.1">>
    /\ ParmsAsSent
    /\ Prefixed(LinesSent(message)) = LinesSent(message) => request.content = message.body
    /\ message.transport = "http" =>
         /\ request.segments = message.segments
         /\ LinesSent(message) # <<>> => request.headers = HeadersSent(message)
         /\ LET lines == Prefixed(LinesSent(message)) IN
            request.headerList = [i \in DOMAIN lines |->
              [key |-> lines[i].name, value |-> lines[i].value]]

(* The head is parsed before its end has come only when memory of an       *)
(* earlier request completes a line end that the read left off in.         *)
EarlyOnlyByRemnant ==
  phase \in {"payload", "route", "servlet", "wild"} /\ ~WholeHead =>
    /\ memory # <<>>
    /\ Wire(message)[received] \in {"CR", "LF"}

(* The value of the first in the list that fits. *)
FirstValue(list, Fits(_), dft) ==
  LET i == SelectInSeq(list, Fits) IN IF i = 0 THEN dft ELSE list[i].value

DocumentedType(extension) ==
  LET kind == LowerCase(extension) IN
  CASE kind \in {<<>>, <<"html">>, <<"htm">>} -> <<"text", "html">>
    [] kind = <<"css">> -> <<"text">> \o extension
    [] \E type \in ImageTypes : kind = <<type>> -> <<"image">> \o extension
    [] OTHER -> <<"application">> \o extension

(* A getter returns what the client composed: the first header of the name *)
(* in either case, over FastCGI of the name with _ for - and never the     *)
(* type of the content; the first parameter of the name in either case, of *)
(* those whose name needs no escape, else the default; the segment with    *)
(* the index, or empty behind the last one.  The type of a file is that of *)
(* its extension, if no memory of before is read with it.  Text in base    *)
(* 64, broken into lines, decodes to what was encoded.                     *)
AnswersAsSent ==
  WholeHead =>
    CASE answer.call = "header" ->
           answer.out =
             IF message.transport = "http"
             THEN FirstValue(Prefixed(LinesSent(message)),
                    LAMBDA l : IsPair(l) /\ EqualIgnoringCase(l.name, answer.arg), <<>>)
             ELSE FirstValue(message.lines,
                    LAMBDA l : /\ IsEnvHeader(l)
                               /\ EqualIgnoringCase(Underscored(l.name), answer.arg), <<>>)
      [] answer.call = "parm" ->
           answer.out =
             FirstValue(Prefixed(message.parms),
                        LAMBDA p : /\ Encoded(p.name) = p.name
                                   /\ EqualIgnoringCase(p.name, answer.arg), Default)
      [] answer.call \in {"segment", "index"} /\ message.transport = "http" ->
           answer.out = IF answer.arg < Len(message.segments)
                        THEN message.segments[answer.arg + 1] ELSE <<>>
      [] answer.call = "static" /\ answer.out.contentType # NULL ->
           \A i \in DOMAIN answer.arg :
             /\ answer.arg[i] = "." /\ answer.out.rest = <<>>
             /\ "." \notin ToSet(SubSeq(answer.arg, i + 1, Len(answer.arg)))
             => answer.out.contentType =
                  DocumentedType(SubSeq(answer.arg, i + 1, Len(answer.arg)))
      [] answer.call = "base64" -> answer.out = answer.arg
      [] OTHER -> TRUE

(* The thread waits for no byte that nobody sends: when all that the       *)
(* client has sent is read, the end of the head has been found, and of the *)
(* content nothing is missing.                                             *)
WaitsForWhatComes ==
  /\ phase = "header" => received < Len(Wire(message))
  /\ phase = "payload" =>
       Len(request.content) + Len(Wire(message)) - received = request.contentLength

(* What the program means by the route of a call: c.template, if it has an *)
(* expression, lists what each segment of the resource is to be, [lit],    *)
(* [name] of a parameter or [own] group; it may begin anywhere unless      *)
(* anchored, and end anywhere unless closed.                               *)
CallOf(r) == CHOOSE c \in scenario.calls : c.servlet = router[r].servlet
HasPath(c) == c.parms >= 4 /\ c.routeReg # NULL
Is(kind, x) == kind \in DOMAIN x

SegmentFits(x, segment) ==
  \/ Is("lit", x) /\ segment = x.lit
  \/ Is("name", x) /\ segment # <<>>
  \/ Is("own", x) /\ segment # <<>> /\ segment[1] \in Alternatives[x.own]

Offsets(t, segments) ==
  {k \in 0..(Len(segments) - Len(t.segs)) :
     /\ t.anchored => k = 0
     /\ t.closed => k + Len(t.segs) = Len(segments)
     /\ \A i \in DOMAIN t.segs : SegmentFits(t.segs[i], segments[k + i])}

PathFits(c) == HasPath(c) => Offsets(c.template, message.segments) # {}
MethodFits(c) == \/ c.parms < 3 \/ c.routeType = IL_ANY
                 \/ /\ message.method[1] \in DOMAIN Bit
                    /\ Bit[message.method[1]] \in c.routeType

Routed == phase = "servlet" /\ WholeHead /\ router # <<>>

(* The servlet that is called, and the id the request shows, are those of  *)
(* the route added first among those whose methods and path fit; without   *)
(* one there is none.                                                      *)
FirstRouteWins ==
  Routed =>
    LET fit == {k \in DOMAIN calls : MethodFits(calls[k]) /\ PathFits(calls[k])}
        first == calls[Min(fit)]
    IN IF fit = {} THEN pRouting = 0 /\ request.routeId = <<>>
       ELSE /\ pRouting # 0 /\ router[pRouting].servlet = first.servlet
            /\ request.routeId = first.routeId

(* What stands in the resource at the group with the number that the name  *)
(* has among the names of the template; without such a name the default.   *)
PathValue(c, name) ==
  LET t == c.template
      names  == SelectSeq(t.segs, LAMBDA x : Is("name", x))
      number == SelectInSeq(names, LAMBDA x : EqualIgnoringCase(x.name, name))
      groups == {i \in DOMAIN t.segs : ~Is("lit", t.segs[i])}
      place  == CHOOSE i \in groups : Cardinality({j \in groups : j <= i}) = number
      segment == message.segments[Min(Offsets(t, message.segments)) + place]
  IN IF number = 0 THEN Default
     ELSE IF Is("own", t.segs[place]) THEN <<segment[1]>> ELSE segment

(* il_getPathParameter returns the part of the resource at the place of    *)
(* the parameter in the route found, whatever routes were tried before it  *)
(* and whatever lay on the stack when they were added; groups of the       *)
(* program's own in front of it shift it to one of these.  A route without *)
(* a path has no place for a parameter.                                    *)
ParametersBound ==
  Routed /\ pRouting # 0 /\ answer.call = "path" =>
    LET c == CallOf(pRouting) IN
    HasPath(c) => answer.out = PathValue(c, answer.arg)
=============================================================================
