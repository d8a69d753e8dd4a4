------------------------------ MODULE Response ------------------------------
(***************************************************************************)
(* The response a servlet writes: headers and chunks (il_addHeader and     *)
(* il_responseWrite of api.c, putHeader, putChunk, putChunkXlate and       *)
(* putChunkEnd of ileastic.c) and streams (stream.c) whose runner writes   *)
(* any number of pieces into a buffer that is handed on when it is full.   *)
(* The body is a row of characters, numbered as the callers produce them;  *)
(* a code page of the job with one byte for each is assumed.               *)
(***************************************************************************)
EXTENDS Naturals, Sequences

CONSTANTS
  HEADER_SIZE,    \* the buffer of putHeader
  FirstLines,     \* lengths that status, date and content type may have
  HeaderLengths,  \* strlen of a header line
  StreamSizes,    \* sizes stream_new is called with
  MaxHeaders,     \* bound
  MaxBody         \* bound: characters of the body

(* Three strings of at most 256 characters are short of the buffer; a      *)
(* stream without a buffer would write for ever.                           *)
ASSUME ResponseAssumption ==
  /\ HEADER_SIZE \in Nat
  /\ FirstLines \subseteq Nat
  /\ \A n \in FirstLines : n + 2 <= HEADER_SIZE
  /\ HeaderLengths \subseteq Nat
  /\ StreamSizes \subseteq Nat \ {0}

VARIABLES
  fcgi,        \* the protocol is FastCGI
  pc,          \* the function that is executing
  headerList,  \* pResponse->headerList: the length of each line
  firstWrite,  \* pResponse->firstWrite
  pending,     \* buf and len of a putChunk that is under way
  resume,      \* where that putChunk returns to
  p, line,     \* putHeader: p - header, and where its iterator is
  high,        \* bytes from the start of header that sprintf has written
  kept,        \* the lines that are in the buffer
  closed,      \* the empty line is in the buffer
  size, buffer, pos,   \* STREAM; nothing reads its totalSize
  left,        \* len in stream_write
  wire,        \* what is written to the socket: kinds and lengths
  body,        \* the characters in its chunks
  written      \* history: characters the callers have produced

headerVars == <<headerList, p, high, line, kept, closed>>
streamVars == <<size, buffer, pos, left>>
putVars    == <<pending, resume>>
sentVars   == <<firstWrite, wire, body>>
vars == <<fcgi, pc, headerVars, streamVars, putVars, sentVars, written>>

Init ==
  /\ fcgi \in BOOLEAN
  /\ pc = "servlet"
  /\ headerList = <<>> /\ firstWrite = TRUE
  /\ pending = <<>> /\ resume = "servlet"
  /\ p = 0 /\ high = 0 /\ line = 1 /\ kept = {} /\ closed = FALSE
  /\ size = 0 /\ buffer = <<>> /\ pos = 0 /\ left = 0
  /\ wire = <<>> /\ body = <<>> /\ written = 0

(* What goes over the wire. *)
Token == [kind : {"header", "chunk", "end"}, len : Nat]

(* The n characters that come behind the first k. *)
Text(k, n) == [i \in 1..n |-> k + i]

-----------------------------------------------------------------------------
(* Writing to the socket.                                                  *)

(* prepareResponse: the header goes out before the first thing written.    *)
(* putHeader begins with its own lines, however long they are.             *)
prepareResponse ==
  IF firstWrite
  THEN /\ pc' = "putHeader"
       /\ p' \in FirstLines /\ high' = p' + 1 /\ line' = 1 /\ kept' = {} /\ closed' = FALSE
  ELSE /\ pc' = "send"
       /\ UNCHANGED <<p, high, line, kept, closed>>

(* Mutant: an empty text is written too. *)
putChunkAlways(text, caller) ==
  pending' = text /\ resume' = caller /\ prepareResponse

(* putChunk and putChunkXlate; with nothing to write they return.          *)
putChunk(text, caller) ==
  IF text = <<>>
  THEN /\ pc' = caller
       /\ UNCHANGED <<putVars, p, high, line, kept, closed>>
  ELSE /\ pending' = text
       /\ resume' = caller
       /\ prepareResponse

(* Mutant: only the bytes of the line itself are asked for. *)
FitsTooTight(n) == p + n <= HEADER_SIZE

(* There is room for a line, its CRLF and the empty line behind it. *)
Fits(n) == p + n + 4 <= HEADER_SIZE

(* sprintf of n characters at p writes a NUL behind them. *)
sprintf(n) == p' = p + n /\ high' = p + n + 1

(* Mutant: the first header that does not fit ends the list. *)
putHeaderLineStops ==
  /\ pc = "putHeader"
  /\ line \in DOMAIN headerList
  /\ IF Fits(headerList[line])
     THEN sprintf(headerList[line] + 2) /\ kept' = kept \cup {line} /\ line' = line + 1
     ELSE line' = Len(headerList) + 1 /\ UNCHANGED <<p, high, kept>>
  /\ UNCHANGED <<fcgi, pc, headerList, closed, streamVars, putVars, sentVars, written>>

(* One turn of the loop of putHeader; a line that does not fit is left out. *)
putHeaderLine ==
  /\ pc = "putHeader"
  /\ line \in DOMAIN headerList
  /\ IF Fits(headerList[line])
     THEN sprintf(headerList[line] + 2) /\ kept' = kept \cup {line}
     ELSE UNCHANGED <<p, high, kept>>
  /\ line' = line + 1
  /\ UNCHANGED <<fcgi, pc, headerList, closed, streamVars, putVars, sentVars, written>>

(* The empty line, if it fits, and the header is written. *)
putHeaderEnds ==
  /\ pc = "putHeader"
  /\ line \notin DOMAIN headerList
  /\ IF p + 2 <= HEADER_SIZE THEN sprintf(2) /\ closed' = TRUE
     ELSE UNCHANGED <<p, high, closed>>
  /\ wire' = Append(wire, [kind |-> "header", len |-> p'])
  /\ firstWrite' = FALSE
  /\ pc' = "send"
  /\ UNCHANGED <<fcgi, headerList, line, kept, streamVars, putVars, body, written>>

(* The rest of putChunk and putChunkEnd, and the return to the caller. *)
send ==
  /\ pc = "send"
  /\ pc' = resume
  /\ wire' = Append(wire, IF resume = "ended" THEN [kind |-> "end", len |-> 0]
                          ELSE [kind |-> "chunk", len |-> Len(pending)])
  /\ body' = body \o pending
  /\ pending' = <<>>
  /\ UNCHANGED <<fcgi, headerVars, streamVars, resume, firstWrite, written>>

-----------------------------------------------------------------------------
(* What a servlet calls.                                                   *)

il_addHeader(n) ==
  /\ pc = "servlet"
  /\ Len(headerList) < MaxHeaders
  /\ headerList' = Append(headerList, n)
  /\ UNCHANGED <<fcgi, pc, p, high, line, kept, closed, streamVars, putVars, sentVars, written>>

il_responseWrite(n) ==
  /\ pc = "servlet"
  /\ written + n <= MaxBody
  /\ putChunk(Text(written, n), "servlet")
  /\ written' = written + n
  /\ UNCHANGED <<fcgi, headerList, streamVars, sentVars>>

(* With stream_new; memAlloc does not clear the buffer. *)
il_responseWriteStream(n) ==
  /\ pc = "servlet"
  /\ pc' = "runner"
  /\ size' = n
  /\ buffer' = [i \in 1..n |-> 0]
  /\ pos' = 0 /\ left' = 0
  /\ UNCHANGED <<fcgi, headerVars, putVars, sentVars, written>>

(* The runner has something to write. *)
stream_write(n) ==
  /\ pc = "runner"
  /\ written + n <= MaxBody
  /\ written' = written + n
  /\ left' = n
  /\ pc' = "stream_write"
  /\ UNCHANGED <<fcgi, headerVars, size, buffer, pos, putVars, sentVars>>

(* Mutant: the last place of the buffer is left free. *)
CpylenKeepsOne == IF left < size - pos - 1 THEN left ELSE size - pos - 1

(* Mutant: the end of the buffer is not looked at. *)
CpylenUnbounded == left

(* What the buffer takes of the text that is left. *)
Cpylen == IF left < size - pos THEN left ELSE size - pos

(* memcpy of n characters to pos. *)
Copied(n) == [i \in 1..size |-> IF i \in pos + 1 .. pos + n
                                THEN written - left + (i - pos) ELSE buffer[i]]

(* One turn of the loop of stream_write; streamWriter is putChunkXlate and *)
(* never returns less than 0.                                              *)
stream_writeTurn ==
  /\ pc = "stream_write"
  /\ left > 0
  /\ buffer' = Copied(Cpylen)
  /\ left' = left - Cpylen
  /\ IF pos + Cpylen = size
     THEN pos' = 0 /\ putChunk(Copied(Cpylen), "stream_write")
     ELSE /\ pos' = pos + Cpylen
          /\ UNCHANGED <<pc, putVars, p, high, line, kept, closed>>
  /\ UNCHANGED <<fcgi, headerList, size, sentVars, written>>

stream_writeReturns ==
  /\ pc = "stream_write"
  /\ left = 0
  /\ pc' = "runner"
  /\ UNCHANGED <<fcgi, headerVars, streamVars, putVars, sentVars, written>>

(* Mutant: stream_delete frees the buffer without stream_flush. *)
stream_deleteOnly ==
  /\ pc = "runner"
  /\ pc' = "servlet"
  /\ pos' = 0
  /\ UNCHANGED <<fcgi, headerVars, size, buffer, left, putVars,
                 sentVars, written>>

(* The runner returns: stream_delete flushes what is in the buffer. *)
stream_delete ==
  /\ pc = "runner"
  /\ putChunk(SubSeq(buffer, 1, pos), "servlet")
  /\ pos' = 0
  /\ UNCHANGED <<fcgi, headerList, size, buffer, left, sentVars, written>>

(* The servlet returns and the response is ended. *)
putChunkEnd ==
  /\ pc = "servlet"
  /\ IF fcgi
     THEN pc' = "ended" /\ UNCHANGED <<resume, p, high, line, kept, closed>>
     ELSE resume' = "ended" /\ prepareResponse
  /\ UNCHANGED <<fcgi, headerList, streamVars, pending, sentVars, written>>

(* The response is over. *)
Terminated == pc = "ended" /\ UNCHANGED vars

-----------------------------------------------------------------------------
putHeader == putHeaderLine \/ putHeaderEnds
streamSteps == stream_writeTurn \/ stream_writeReturns
Servlet ==
  \/ \E n \in HeaderLengths : il_addHeader(n)
  \/ \E n \in 0..MaxBody : il_responseWrite(n) \/ stream_write(n)
  \/ \E n \in StreamSizes : il_responseWriteStream(n)
  \/ stream_delete
  \/ putChunkEnd

Next == putHeader \/ send \/ streamSteps \/ Servlet \/ Terminated

Spec == Init /\ [][Next]_vars
FairSpec == Spec /\ WF_vars(putHeader \/ send \/ streamSteps)

-----------------------------------------------------------------------------
(* Properties.                                                             *)

(* Every variable has its type; the position never leaves the buffer.      *)
ResponseTypeOK ==
  /\ fcgi \in BOOLEAN /\ firstWrite \in BOOLEAN /\ closed \in BOOLEAN
  /\ pc \in {"servlet", "runner", "stream_write", "putHeader", "send", "ended"}
  /\ resume \in {"servlet", "stream_write", "ended"}
  /\ headerList \in Seq(Nat)
  /\ pending \in Seq(Nat) /\ body \in Seq(Nat)
  /\ p \in Nat /\ high \in Nat /\ line \in Nat \ {0} /\ kept \subseteq DOMAIN headerList
  /\ size \in Nat /\ buffer \in [1..size -> Nat]
  /\ pos \in 0..size /\ left \in Nat
  /\ wire \in Seq(Token)
  /\ written \in Nat /\ left <= written

(* However a body is cut into writes, streams and buffers, the client gets *)
(* its characters once and in order, and all of them when the response is  *)
(* over.                                                                   *)
BodyInOrder ==
  /\ \A i \in DOMAIN body : body[i] = i
  /\ pc = "ended" => Len(body) = written

(* One header in front, then chunks that are not empty, since an empty one *)
(* would end the response for the client, and one end behind.              *)
Framed ==
  \A i \in DOMAIN wire :
    /\ wire[i].kind = "header" <=> i = 1
    /\ wire[i].kind = "chunk" => wire[i].len > 0
    /\ wire[i].kind = "end" => i = Len(wire) /\ pc = "ended"

(* Whatever headers were added, those sent end with the empty line and     *)
(* come from inside the buffer.  What is written behind it is at most the  *)
(* one NUL of the last sprintf, and that only when the header fills the    *)
(* buffer to the byte.                                                     *)
HeaderEnds ==
  ~firstWrite => /\ closed
                 /\ p <= HEADER_SIZE
                 /\ high <= IF p = HEADER_SIZE THEN HEADER_SIZE + 1 ELSE HEADER_SIZE

(* A header that was there when the response began is left out only if it  *)
(* does not fit behind the ones that were written.                         *)
LeftOutOnlyIfFull ==
  ~firstWrite => \A i \in 1..(line - 1) :
    i \notin kept => p + headerList[i] + 2 > HEADER_SIZE

(* A write into a stream returns. *)
WriteReturns == pc = "stream_write" ~> pc = "runner"
=============================================================================
