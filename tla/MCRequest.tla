----------------------------- MODULE MCRequest -----------------------------
(* Small instances of Request for TLC.                                     *)
EXTENDS Request

Msg(method, segments, parms, lines) ==
  [transport |-> "http", lead |-> <<>>, method |-> <<method>>, segments |-> segments,
   parms |-> parms, lines |-> lines, body |-> <<>>]
Pair(name, value) == [name |-> <<name>>, value |-> value]
Line(name, blanks, value) == [name |-> <<name>>, blanks |-> blanks, value |-> value]
Only(name) == [name |-> <<name>>]
A == <<"a">>
HostLine == Line("Host", 1, A)

(* Lines of the header: none, some, a line without a colon among them. *)
LineLists == {<<>>, <<HostLine>>, <<Line("x", 0, <<>>), Line("HOST", 2, <<"a", "SP", "b">>),
              Line("host", 1, <<"b", ":", "c">>)>>, <<HostLine, Only("odd"), Line("x", 1, A)>>}
HeaderMessages ==
  {[Msg("GET", <<A>>, <<>>, lines) EXCEPT !.lead = lead, !.body = body] :
     lines \in LineLists, lead \in {<<>>, Eol}, body \in {<<>>, <<"b1", "b2", "b3">>}}

ParmLists == {<<Pair("id", A)>>, <<Pair("ID", <<>>)>>, <<Pair("x", A), Pair("id", <<"b", "&", "c">>)>>,
              <<Pair("id", <<"a", "%", "SP", "=">>), Pair("id", A)>>,
              <<Pair("x", A), Only("odd"), Pair("id", A)>>,
              <<[name |-> <<"i", "&">>, value |-> A], Pair("x", <<"/", "?">>)>>}
(* Over FastCGI names of a header have - in them, or are long. *)
DashLine == [name |-> <<"x", "-", "Id">>, blanks |-> 1, value |-> A]
TypeLine == [name |-> <<"content", "-", "type">>, blanks |-> 1, value |-> A]
EnvMessages ==
  {[Msg("GET", <<A>>, <<>>, lines) EXCEPT !.transport = "fastcgi"] :
     lines \in {<<TypeLine, DashLine, Line("x", 0, <<>>)>>,
                <<Line("name of 59 bytes", 1, A), HostLine>>}}
ParmMessages ==
  {[Msg("GET", <<A>>, parms, <<HostLine>>) EXCEPT !.transport = t] :
     parms \in ParmLists, t \in {"http", "fastcgi"}}

Resources == {<< <<>> >>, <<A>>, <<A, <<>> >>, << <<>>, A>>, <<A, <<"v1">>, <<"b">> >>,
              <<A, <<"v3">> >>, << <<"b">>, <<"v2">> >>}
PathMessages == {Msg(m, segments, <<>>, <<HostLine>>) : m \in {"GET", "POST"}, segments \in Resources}
PurgeMessage == Msg("PURGE", <<A>>, <<>>, <<HostLine>>)

(* The calls of il_addRoute. *)
Lit(s) == [lit |-> <<s>>]
Parm(name) == [name |-> <<name>>]
Own(g) == [own |-> g]
Reg(t) ==
  (IF t.anchored THEN <<"^">> ELSE <<>>)
    \o FlattenSeq([i \in DOMAIN t.segs |->
         IF Is("lit", t.segs[i]) THEN <<"/">> \o t.segs[i].lit
         ELSE IF Is("name", t.segs[i]) THEN <<"/", "{">> \o t.segs[i].name \o <<"}">>
         ELSE <<"/", t.segs[i].own>>])
    \o (IF t.closed THEN <<"$">> ELSE <<>>)
Call(servlet, parms, routeType, anchored, segs, closed) ==
  LET t == [anchored |-> anchored, segs |-> segs, closed |-> closed] IN
  [servlet |-> servlet, parms |-> parms, routeType |-> routeType, template |-> t,
   routeId |-> IF parms >= 6 THEN <<servlet>> ELSE <<>>,
   routeReg |-> IF parms >= 4 THEN Reg(t) ELSE NULL]

MatchAll == Call("all", 2, IL_ANY, FALSE, <<>>, FALSE)
(* With the IL_ANY of headers/ileastic.rpgle:832, 1023: ten bits. *)
AnyOfRpg == Call("rpgAny", 3, 0..9, FALSE, <<>>, FALSE)
Item     == Call("item", 4, {0}, TRUE, <<Lit("a"), Parm("id")>>, FALSE)
Calls ==
  {MatchAll, AnyOfRpg, Item, Call("own", 4, {0, 1}, FALSE, <<Own("(v1|v2)"), Parm("x")>>, TRUE),
   Call("two", 6, IL_ANY, FALSE, <<Parm("x"), Parm("Id")>>, TRUE),
   Call("a", 4, {1, 2}, FALSE, <<Lit("a")>>, FALSE)}

NoValue == <<"default">>
OnTheStack == {-1, 0, 1, 5}
AskedNames == {<<"id">>, <<"host">>, <<"x">>, <<"x", "-", "id">>, <<"x", "_", "id">>,
               <<"content", "-", "type">>}
Bytes == {<<>>, <<255>>, <<0, 16>>, <<99, 254, 131>>, <<1, 128, 63, 250>>}
FileNames == {<<"a">>, <<"a", ".">>, <<"a", ".", "html">>, <<"a", ".", "css", ".", "png">>,
              <<"a", ".", "css">>, <<"a", ".", "js">>}

(* What lay in the memory: a request, another one that is longer. *)
Short == Msg("GET", <<A>>, <<>>, <<HostLine>>)
Long  == [Short EXCEPT !.body = <<"b1", "b2", "b3">>]

Of(messages, memories, routes) ==
  [message : messages, memory : memories, calls : {routes}]
AllScenarios ==
  Of(HeaderMessages, {<<>>, Wire(Short), Wire(Long)}, {})
    \cup Of(ParmMessages \cup EnvMessages, {<<>>}, {})
    \cup Of(PathMessages \cup {PurgeMessage}, {<<>>}, Calls)
=============================================================================
