------------------------ MODULE ConfigurationProofs ------------------------
(***************************************************************************)
(* Proof that a connection is served with what the program and the         *)
(* environment said, and its servlet shown the certificate of the client,  *)
(* for every program, environment, certificate and row of calls, and       *)
(* every way in which calls of GSKit and conversions fail.                 *)
(***************************************************************************)
EXTENDS Configuration, FiniteSetTheorems, SequenceTheorems, WellFoundedInduction, TLAPS

-----------------------------------------------------------------------------
(* The invariant.                                                          *)

(* il_listen has read the environment. *)
Listening == phase # "configure"

(* A GSKit environment is made from the key file and password of the       *)
(* CONFIG, which nothing changes while il_listen runs.                     *)
Handle ==
  [ready : BOOLEAN, keyring : {config.certificateFile}, password : {config.certificatePassword},
   protocols : {P \in SUBSET GskCalls :
     "TLSV12" \in P /\ (P \cap {"TLSV1", "TLSV11"} # {} => config.tlsLaxMode = 1)}]

Plugins == {s.plugin : s \in {c \in Settings : c.call = "il_addPlugin"}}

ConfigTypeInv ==
  /\ said \in Seq(Settings)
  /\ handles \in Seq(Handle)
  /\ envHandle \in 0..Len(handles)
  /\ ConfigFields \subseteq DOMAIN config
  /\ config.pluginPreRequest \in Seq(Plugins)
  /\ config.pluginPostResponse \in Seq(Plugins)
  /\ phase \in {"configure", "exited", "getSocket", "accept", "accepted", "serving", "ended"}

(* What the calls have left in the CONFIG. *)
SaidInv ==
  /\ InOrder(config.pluginPreRequest, PluginCalls(IL_PREREQUEST))
  /\ InOrder(config.pluginPostResponse, PluginCalls(IL_POSTRESPONSE))
  /\ clientAuthMode = Mode
  /\ config.tlsLaxMode = 1 => LastSaid("il_setTlsLaxMode", "value", 0) # 0
  /\ tlsClientCertEnabled <=> LastSaid("il_setTlsClientCertEnabled", "value", 0) = 1
  /\ LastSaid("il_setTlsServerCertEnabled", "value", 0) = 1 => config.tlsServerCertEnabled = 1
  /\ ~Listening =>
       /\ config.certificateFile = LastSaid("il_setKeyfile", "path", NoText)
       /\ config.certificatePassword = LastSaid("il_setKeyfile", "password", NoText)

(* What the environment has left in it. *)
ListenInv ==
  Listening =>
    /\ config.certificateFile = File /\ config.certificatePassword = Password
    /\ config.port = getenv("I_PORT", config.port)
    /\ getenv("I_PROTOCOL", "") \in Protocols => config.protocol = getenv("I_PROTOCOL", "")
    /\ receiveHeader = Callback(config.protocol)

(* Who gets past getSocket has bound the socket and has, with a key file,  *)
(* a GSKit environment that is ready; a worker never has one.              *)
SocketInv ==
  /\ ~Listening \/ config.isWorker # 0 => handles = <<>> /\ envHandle = 0
  /\ phase = "getSocket" => config.isWorker = 0
  /\ phase = "accept" => config.protocol \notin FastCGI
  /\ phase \in {"accept", "accepted", "serving"} /\ config.isWorker = 0 =>
       /\ bound[1] = config.port
       /\ isSecure => envHandle # 0 /\ handles[envHandle].ready

(* The session of a connection is one of the environment of the CONFIG. *)
SessionInv ==
  /\ phase \notin {"accepted", "serving"} \/ ~isSecure => session = NoSession
  /\ phase \in {"accepted", "serving"} /\ isSecure /\ config.protocol \notin FastCGI =>
       /\ config.isWorker = 0
       /\ session.handle = envHandle
       /\ session.type = IF clientAuthMode = 0 THEN "GSK_SERVER_SESSION"
                         ELSE "GSK_SERVER_SESSION_WITH_CL_AUTH"
       /\ session.auth \in {AuthType(clientAuthMode), "default"}

(* What the client presented, and the nodes as serverThread made them.     *)
CertificateInv ==
  /\ session.client \in Certificates \cup {None}
  /\ phase = "serving" => \E failed \in Failures(CertCalls) : nodes = CertificateNodes(failed)

ConfigInv == ConfigTypeInv /\ SaidInv /\ ListenInv /\ SocketInv /\ SessionInv /\ CertificateInv

-----------------------------------------------------------------------------
(* Numbers and the rows of calls.                                          *)

(* A set of numbers that is not empty has a least one. *)
LEMMA LeastNumber ==
  ASSUME NEW T, T \subseteq Nat, T # {}
  PROVE  \E x \in T : \A y \in T : x <= y
<1>. DEFINE Less == {ss \in Nat \X Nat : ss[1] < ss[2]}
<1>1. IsWellFoundedOn(Less, Nat)
  BY NatLessThanWellFounded DEF OpToRel
<1>2. PICK x \in T : \A y \in T : ~(<<y, x>> \in Less)
  BY <1>1, WFMin
<1>3. \A m, n \in Nat : m < n => <<m, n>> \in Less
  OBVIOUS
<1>4. \A y \in T : ~(y < x)
  BY <1>2, <1>3
<1>. QED
  BY <1>4

(* Of the numbers up to n, a set that is not empty has its greatest. *)
LEMMA GreatestIndex ==
  ASSUME NEW n \in Nat, NEW T, T \subseteq 1..n, T # {}
  PROVE  Max(T) \in T /\ \A y \in T : y <= Max(T)
<1>. DEFINE D == {n - i : i \in T}
<1>1. \A i \in T : i \in 1..n /\ n - i \in Nat
  OBVIOUS
<1>a. D \subseteq Nat /\ D # {}
  BY <1>1
<1>2. PICK d \in D : \A e \in D : d <= e
  BY <1>a, LeastNumber
<1>3. PICK x \in T : d = n - x
  BY <1>2
<1>4. \A y \in T : n - x <= n - y
  BY <1>2, <1>3
<1>5. \A y \in T : x >= y
  BY <1>1, <1>4
<1>6. Max(T) \in T /\ \A y \in T : Max(T) >= y
  BY <1>5 DEF Max
<1>. QED
  BY <1>1, <1>6

(* LastSaid of any row of calls. *)
CallsOf(list, call, argument) ==
  {i \in 1..Len(list) : list[i].call = call /\ argument \in DOMAIN list[i]}
LastIn(list, call, argument, otherwise) ==
  IF CallsOf(list, call, argument) = {} THEN otherwise
  ELSE list[Max(CallsOf(list, call, argument))][argument]

LEMMA LastInIsSelected ==
  ASSUME NEW list \in Seq(Settings), NEW call, NEW argument, NEW otherwise
  PROVE  LET I == CallsOf(list, call, argument)
             k == IF I # {} THEN Max(I) ELSE 0
         IN (IF k = 0 THEN otherwise ELSE list[k][argument])
              = LastIn(list, call, argument, otherwise)
<1>. DEFINE I == CallsOf(list, call, argument)
<1>1. Len(list) \in Nat /\ I \subseteq 1..Len(list)
  BY LenProperties DEF CallsOf
<1>2. I # {} => Max(I) # 0
  BY <1>1, GreatestIndex
<1>. QED
  BY <1>2 DEF LastIn

LEMMA LastSaidIsLastIn ==
  ASSUME NEW call, NEW argument, NEW otherwise,
         said \in Seq(Settings), said' \in Seq(Settings)
  PROVE  /\ LastSaid(call, argument, otherwise) = LastIn(said, call, argument, otherwise)
         /\ LastSaid(call, argument, otherwise)' = LastIn(said', call, argument, otherwise)
<1>1. LastSaid(call, argument, otherwise) =
        LET I == CallsOf(said, call, argument)
            k == IF I # {} THEN Max(I) ELSE 0
        IN IF k = 0 THEN otherwise ELSE said[k][argument]
  BY DEF LastSaid, SelectLastInSeq, CallsOf
<1>2. LastSaid(call, argument, otherwise)' =
        LET I == CallsOf(said', call, argument)
            k == IF I # {} THEN Max(I) ELSE 0
        IN IF k = 0 THEN otherwise ELSE said'[k][argument]
  BY DEF LastSaid, SelectLastInSeq, CallsOf
<1>. QED
  BY <1>1, <1>2, LastInIsSelected

(* A call more: it counts if it is one of those looked for. *)
LEMMA LastOfMore ==
  ASSUME NEW list \in Seq(Settings), NEW s \in Settings,
         NEW call, NEW argument, NEW otherwise
  PROVE  LastIn(Append(list, s), call, argument, otherwise) =
           IF s.call = call /\ argument \in DOMAIN s THEN s[argument]
           ELSE LastIn(list, call, argument, otherwise)
<1>. DEFINE I == CallsOf(list, call, argument)
            J == CallsOf(Append(list, s), call, argument)
<1>1. /\ Len(list) \in Nat /\ Len(Append(list, s)) = Len(list) + 1
      /\ \A i \in 1..Len(list) : Append(list, s)[i] = list[i]
      /\ Append(list, s)[Len(list) + 1] = s
  BY AppendProperties, LenProperties
<1>2. I \subseteq 1..Len(list) /\ J \subseteq 1..(Len(list) + 1)
  BY <1>1 DEF CallsOf
<1>3. \A i \in 1..Len(list) : i \in J <=> i \in I
  BY <1>1 DEF CallsOf
<1>4. Len(list) + 1 \in J <=> s.call = call /\ argument \in DOMAIN s
  BY <1>1 DEF CallsOf
<1>5. CASE s.call = call /\ argument \in DOMAIN s
  <2>1. Max(J) = Len(list) + 1
    BY <1>1, <1>2, <1>4, <1>5, GreatestIndex
  <2>. QED
    BY <1>1, <1>4, <1>5, <2>1 DEF LastIn
<1>6. CASE ~(s.call = call /\ argument \in DOMAIN s)
  <2>1. J = I
    BY <1>1, <1>2, <1>3, <1>4, <1>6
  <2>2. I # {} => Append(list, s)[Max(I)] = list[Max(I)]
    BY <1>1, <1>2, GreatestIndex
  <2>. QED
    BY <1>6, <2>1, <2>2 DEF LastIn
<1>. QED
  BY <1>5, <1>6

(* Nothing was said yet. *)
LEMMA LastOfNone ==
  ASSUME NEW call, NEW argument, NEW otherwise
  PROVE  LastIn(<<>>, call, argument, otherwise) = otherwise
BY DEF LastIn, CallsOf

(* InOrder of any row of calls. *)
Enumerates(list, plugins, calls) ==
  /\ Len(plugins) = Cardinality(calls)
  /\ \A i \in calls : plugins[Cardinality({j \in calls : j <= i})] = list[i].plugin

(* A call of something else leaves the plugins as they are. *)
LEMMA EnumeratesStill ==
  ASSUME NEW list \in Seq(Settings), NEW s \in Settings, NEW plugins,
         NEW calls, calls \subseteq 1..Len(list), Enumerates(list, plugins, calls)
  PROVE  Enumerates(Append(list, s), plugins, calls)
<1>1. \A i \in 1..Len(list) : Append(list, s)[i] = list[i]
  BY AppendProperties
<1>. QED
  BY <1>1 DEF Enumerates

(* The plugin of a call stands at the place that counts the calls up to it. *)
LEMMA EnumeratesMore ==
  ASSUME NEW list \in Seq(Settings), NEW s \in Settings, NEW P, NEW plugins \in Seq(P),
         s.plugin \in P,
         NEW calls, calls \subseteq 1..Len(list), Enumerates(list, plugins, calls)
  PROVE  Enumerates(Append(list, s), Append(plugins, s.plugin), calls \cup {Len(list) + 1})
<1>. DEFINE n == Len(list) + 1
            more == calls \cup {n}
            UpTo(i) == {j \in calls : j <= i}
            MoreUpTo(i) == {j \in more : j <= i}
<1>1. /\ Len(list) \in Nat
      /\ \A i \in 1..Len(list) : Append(list, s)[i] = list[i]
      /\ Append(list, s)[n] = s
  BY AppendProperties, LenProperties
<1>2. /\ Len(plugins) \in Nat /\ Len(Append(plugins, s.plugin)) = Len(plugins) + 1
      /\ \A i \in 1..Len(plugins) : Append(plugins, s.plugin)[i] = plugins[i]
      /\ Append(plugins, s.plugin)[Len(plugins) + 1] = s.plugin
  BY AppendProperties, LenProperties
<1>3. IsFiniteSet(calls) /\ n \notin calls
  <2>1. IsFiniteSet(1..Len(list))
    BY <1>1, FS_Interval
  <2>2. IsFiniteSet(calls)
    BY <2>1, FS_Subset
  <2>3. n \notin calls
    BY <1>1
  <2>. QED
    BY <2>2, <2>3
<1>4. Cardinality(more) = Cardinality(calls) + 1
  BY <1>3, FS_AddElement
<1>5. ASSUME NEW i \in calls
      PROVE  Append(plugins, s.plugin)[Cardinality(MoreUpTo(i))] = Append(list, s)[i].plugin
  <2>1. MoreUpTo(i) = UpTo(i)
    BY <1>1
  <2>2. i \in UpTo(i) /\ UpTo(i) \subseteq calls
    BY <1>1
  <2>3. IsFiniteSet(UpTo(i)) /\ Cardinality(UpTo(i)) <= Cardinality(calls)
    BY <1>3, <2>2, FS_Subset
  <2>4. Cardinality(UpTo(i)) \in Nat /\ Cardinality(UpTo(i)) # 0
    BY <2>2, <2>3, FS_CardinalityType, FS_EmptySet
  <2>5. Cardinality(UpTo(i)) \in 1..Len(plugins)
    BY <1>2, <2>3, <2>4 DEF Enumerates
  <2>6. plugins[Cardinality(UpTo(i))] = list[i].plugin
    BY DEF Enumerates
  <2>7. Append(list, s)[i] = list[i]
    BY <1>1
  <2>. QED
    BY <1>2, <2>1, <2>5, <2>6, <2>7
<1>6. Append(plugins, s.plugin)[Cardinality(MoreUpTo(n))] = Append(list, s)[n].plugin
  <2>a. \A j \in more : j <= n
    BY <1>1
  <2>1. MoreUpTo(n) = more
    BY <2>a
  <2>2. Cardinality(more) = Len(plugins) + 1
    BY <1>4 DEF Enumerates
  <2>. QED
    BY <1>1, <1>2, <2>1, <2>2
<1>7. Len(Append(plugins, s.plugin)) = Cardinality(more)
  BY <1>2, <1>4 DEF Enumerates
<1>. QED
  BY <1>5, <1>6, <1>7 DEF Enumerates

-----------------------------------------------------------------------------
(* The node of a certificate.                                              *)

(* What holds of 0, and of each number when of the one before, holds of    *)
(* all up to n.                                                            *)
LEMMA FromTheStart ==
  ASSUME NEW n \in Nat, NEW Good, 0 \in Good, \A i \in 1..n : i - 1 \in Good => i \in Good
  PROVE  \A i \in 0..n : i \in Good
<1>. DEFINE Bad == {i \in 0..n : i \notin Good}
<1>. SUFFICES ASSUME Bad # {} PROVE FALSE
  OBVIOUS
<1>a. \A i : i \in Bad <=> i \in 0..n /\ i \notin Good
  OBVIOUS
<1>. HIDE DEF Bad
<1>b. Bad \subseteq Nat
  BY <1>a
<1>1. PICK k \in Bad : \A y \in Bad : k <= y
  BY <1>b, LeastNumber
<1>2. k \in 1..n /\ k - 1 \in 0..n /\ ~(k <= k - 1)
  BY <1>1, <1>a
<1>3. k - 1 \in Good
  BY <1>1, <1>2, <1>a
<1>. QED
  BY <1>a, <1>1, <1>2, <1>3

ComputedFromTheStart(f, n, base, step) ==
  /\ f[0] = base
  /\ \A i \in 1..n : f[i] = step[i][f[i - 1]]

(* There is a function whose value at i is made from that at i - 1. *)
LEMMA FunctionFromTheStart ==
  ASSUME NEW n \in Nat, NEW S, NEW base \in S, NEW step \in [1..n -> [S -> S]]
  PROVE  \E f \in [0..n -> S] : ComputedFromTheStart(f, n, base, step)
<1>. DEFINE Made(j, f) == f[0] = base /\ \A i \in 1..j : f[i] = step[i][f[i - 1]]
            Exists(j) == \E f \in [0..n -> S] : Made(j, f)
            Good == {j \in 0..n : Exists(j)}
<1>1. Exists(0)
  <2>1. [i \in 0..n |-> base] \in [0..n -> S] /\ Made(0, [i \in 0..n |-> base])
    OBVIOUS
  <2>. QED
    BY <2>1
<1>2. ASSUME NEW j \in 1..n, Exists(j - 1) PROVE Exists(j)
  <2>1. PICK f \in [0..n -> S] : Made(j - 1, f)
    BY <1>2
  <2>. DEFINE v == step[j][f[j - 1]]
              g == [f EXCEPT ![j] = v]
  <2>2. j - 1 \in 0..n /\ f[j - 1] \in S /\ step[j] \in [S -> S]
    OBVIOUS
  <2>3. v \in S
    BY <2>2
  <2>. HIDE DEF v
  <2>4. g \in [0..n -> S] /\ g[j] = v /\ \A i \in 0..n : i # j => g[i] = f[i]
    BY <2>3
  <2>. HIDE DEF g
  <2>5. ASSUME NEW i \in 1..j PROVE g[i] = step[i][g[i - 1]]
    <3>1. i \in 0..n /\ i - 1 \in 0..n /\ i - 1 # j
      OBVIOUS
    <3>2. g[i - 1] = f[i - 1]
      BY <2>4, <3>1
    <3>3. CASE i = j
      BY <2>4, <3>2, <3>3 DEF v
    <3>4. CASE i # j
      <4>1. i \in 1..(j - 1)
        BY <3>4
      <4>2. g[i] = f[i] /\ f[i] = step[i][f[i - 1]]
        BY <2>1, <2>4, <3>1, <3>4, <4>1
      <4>. QED
        BY <3>2, <4>2
    <3>. QED
      BY <3>3, <3>4
  <2>6. g[0] = base
    BY <2>1, <2>4
  <2>. QED
    BY <2>4, <2>5, <2>6
<1>. HIDE DEF Exists
<1>3. 0 \in Good /\ \A j \in 1..n : j - 1 \in Good => j \in Good
  BY <1>1, <1>2
<1>4. \A j \in Good : Exists(j)
  OBVIOUS
<1>. HIDE DEF Good
<1>5. n \in Good
  <2>1. \A i \in 0..n : i \in Good
    BY <1>3, FromTheStart
  <2>. QED
    BY <2>1
<1>. QED
  BY <1>4, <1>5 DEF Exists, ComputedFromTheStart

CertificateFields == DOMAIN CertificateId \cup {"validationcode"}
Texts == STRING \cup {OnStack, FirstBytes, "code", "none"}
CertificateNode == UNION {[F -> Texts] : F \in SUBSET CertificateFields}

LEMMA NodePut ==
  ASSUME NEW node \in CertificateNode, NEW keys \in SUBSET CertificateFields,
         NEW text \in Texts
  PROVE  Put(node, keys, text) \in CertificateNode
<1>1. PICK F \in SUBSET CertificateFields : node \in [F -> Texts]
  BY DEF CertificateNode
<1>2. F \cup keys \in SUBSET CertificateFields
  OBVIOUS
<1>3. Put(node, keys, text) \in [F \cup keys -> Texts]
  BY <1>1 DEF Put
<1>. QED
  BY <1>2, <1>3 DEF CertificateNode

(* What the first i elements have left: their fields are there, each with  *)
(* the text of the last of them for it, if that could be converted, cut to *)
(* the buffer.                                                             *)
ShowsFirst(elements, i, before, node) ==
  /\ DOMAIN node = DOMAIN before \cup
       {key \in DOMAIN CertificateId : \E k \in 1..i : elements[k].id = CertificateId[key]}
  /\ \A k \in 1..i :
       /\ \A j \in 1..i : elements[j].id = elements[k].id => j <= k
       /\ elements[k].text # Unconvertible
       => \A key \in certInfoKey(elements[k].id) : node[key] = Cut(elements[k].text)

LEMMA ShowsMore ==
  ASSUME NEW elements, NEW i \in Nat \ {0}, NEW before, NEW node, NEW buffer,
         ShowsFirst(elements, i - 1, before, node)
  PROVE  ShowsFirst(elements, i, before,
           Put(node, certInfoKey(elements[i].id), Convert(elements[i], buffer)))
<1>. DEFINE keys == certInfoKey(elements[i].id)
            text == Convert(elements[i], buffer)
            new == Put(node, keys, text)
<1>1. /\ DOMAIN new = DOMAIN node \cup keys
      /\ \A k \in keys : new[k] = text
      /\ \A k \in DOMAIN node \ keys : new[k] = node[k]
  <2>. HIDE DEF keys, text
  <2>. QED
    BY DEF Put
<1>2. \A key : key \in keys <=> key \in DOMAIN CertificateId /\ CertificateId[key] = elements[i].id
  BY DEF certInfoKey
<1>3. i \in 1..i /\ \A k \in 1..i : k = i \/ k \in 1..(i - 1)
  OBVIOUS
<1>a. \A k \in 1..(i - 1) : k \in 1..i /\ k # i /\ ~(i <= k)
  OBVIOUS
<1>. HIDE DEF keys, new
<1>4. DOMAIN new = DOMAIN before \cup
        {key \in DOMAIN CertificateId : \E k \in 1..i : elements[k].id = CertificateId[key]}
  BY <1>1, <1>2, <1>3, <1>a DEF ShowsFirst
<1>5. ASSUME NEW k \in 1..i, \A j \in 1..i : elements[j].id = elements[k].id => j <= k,
             elements[k].text # Unconvertible, NEW key \in certInfoKey(elements[k].id)
      PROVE  new[key] = Cut(elements[k].text)
  <2>1. CASE k = i
    <3>1. key \in keys /\ text = Cut(elements[i].text)
      BY <1>5, <2>1 DEF keys, Convert
    <3>. QED
      BY <1>1, <2>1, <3>1
  <2>2. CASE k # i
    <3>1. k \in 1..(i - 1) /\ elements[i].id # elements[k].id
      BY <1>3, <1>a, <1>5, <2>2
    <3>2. key \in DOMAIN CertificateId /\ CertificateId[key] = elements[k].id
      BY <1>5 DEF certInfoKey
    <3>3. key \notin keys /\ key \in DOMAIN node
      BY <1>2, <3>1, <3>2 DEF ShowsFirst
    <3>4. node[key] = Cut(elements[k].text)
      BY <1>5, <1>a, <3>1 DEF ShowsFirst
    <3>. QED
      BY <1>1, <3>3, <3>4
  <2>. QED
    BY <2>1, <2>2
<1>. QED
  BY <1>4, <1>5 DEF ShowsFirst, new, keys

(* All elements are shown. *)
LEMMA CertificateShown ==
  ASSUME NEW elements \in Seq([id : Nat, text : STRING]), NEW before \in CertificateNode
  PROVE  ShowsFirst(elements, Len(elements), before, addCertificateDetails(elements, before))
<1>. DEFINE n == Len(elements)
            S == [buffer : Texts, node : CertificateNode]
            base == [buffer |-> OnStack, node |-> before]
            put(i, v) == [buffer |-> Convert(elements[i], v.buffer),
                          node |-> Put(v.node, certInfoKey(elements[i].id),
                                       Convert(elements[i], v.buffer))]
            step == [i \in 1..n |-> [v \in S |-> put(i, v)]]
            entry(f, i) == IF i = 0 THEN base ELSE put(i, f[i - 1])
            From(f) == f = [i \in 0..n |-> entry(f, i)]
<1>1. n \in Nat /\ \A i \in 1..n : elements[i] \in [id : Nat, text : STRING]
  BY LenProperties, ElementOfSeq
<1>2. base \in S
  BY DEF Texts
<1>3. ASSUME NEW i \in 1..n, NEW v \in S
      PROVE  put(i, v) \in S
  <2>1. v.buffer \in Texts /\ v.node \in CertificateNode
    OBVIOUS
  <2>2. Convert(elements[i], v.buffer) \in Texts
    <3>1. elements[i].text \in STRING
      BY <1>1
    <3>. QED
      BY <2>1, <3>1 DEF Convert, Cut, Texts
  <2>3. certInfoKey(elements[i].id) \in SUBSET CertificateFields
    BY DEF certInfoKey, CertificateFields
  <2>4. Put(v.node, certInfoKey(elements[i].id), Convert(elements[i], v.buffer))
          \in CertificateNode
    BY <2>1, <2>2, <2>3, NodePut
  <2>. QED
    BY <2>2, <2>4
<1>4. \A v \in S : v.node \in CertificateNode
  OBVIOUS
<1>. HIDE DEF n, S
<1>5. step \in [1..n -> [S -> S]]
  <2>. HIDE DEF put
  <2>. QED
    BY <1>3
<1>6. \A i \in 1..n, v \in S : step[i][v] = put(i, v)
  <2>. HIDE DEF put
  <2>. QED
    OBVIOUS
<1>. HIDE DEF step
<1>7. PICK f \in [0..n -> S] : ComputedFromTheStart(f, n, base, step)
  <2>. HIDE DEF base
  <2>. QED
    BY <1>1, <1>2, <1>5, FunctionFromTheStart
<1>8. From(f)
  <2>1. ASSUME NEW i \in 0..n PROVE f[i] = entry(f, i)
    <3>. HIDE DEF base, put
    <3>1. CASE i = 0
      BY <1>7, <3>1 DEF ComputedFromTheStart
    <3>2. CASE i # 0
      <4>1. i \in 1..n /\ f[i - 1] \in S
        BY <1>1, <3>2
      <4>2. f[i] = put(i, f[i - 1])
        BY <1>6, <1>7, <4>1 DEF ComputedFromTheStart
      <4>. QED
        BY <3>2, <4>2
    <3>. QED
      BY <3>1, <3>2
  <2>2. f = [i \in 0..n |-> f[i]]
    OBVIOUS
  <2>. HIDE DEF entry
  <2>. QED
    BY <2>1, <2>2
<1>9. ASSUME NEW g, From(g)
      PROVE  ShowsFirst(elements, n, before, g[n].node)
  <2>. DEFINE Good == {i \in 0..n : ShowsFirst(elements, i, before, g[i].node)}
  <2>1. ASSUME NEW i \in 0..n PROVE g[i] = entry(g, i)
    <3>. HIDE DEF entry
    <3>. QED
      BY <1>9
  <2>2. ShowsFirst(elements, 0, before, g[0].node)
    <3>1. g[0] = base
      <4>1. 0 \in 0..n
        BY <1>1
      <4>2. g[0] = entry(g, 0)
        BY <2>1, <4>1
      <4>. HIDE DEF base
      <4>. QED
        BY <4>2
    <3>2. g[0].node = before
      BY <3>1
    <3>3. \A k \in 1..0 : FALSE
      OBVIOUS
    <3>4. ShowsFirst(elements, 0, before, before)
      BY <3>3 DEF ShowsFirst
    <3>. QED
      BY <3>2, <3>4
  <2>3. ASSUME NEW i \in 1..n, ShowsFirst(elements, i - 1, before, g[i - 1].node)
        PROVE  ShowsFirst(elements, i, before, g[i].node)
    <3>1. g[i] = put(i, g[i - 1])
      <4>1. i \in 0..n /\ i # 0
        BY <1>1
      <4>2. g[i] = entry(g, i)
        BY <2>1, <4>1
      <4>. HIDE DEF put
      <4>. QED
        BY <4>1, <4>2
    <3>2. g[i].node = Put(g[i - 1].node, certInfoKey(elements[i].id),
                          Convert(elements[i], g[i - 1].buffer))
      BY <3>1
    <3>3. i \in Nat \ {0}
      OBVIOUS
    <3>. QED
      BY <2>3, <3>2, <3>3, ShowsMore
  <2>4. /\ 0 \in Good /\ \A i \in 1..n : i - 1 \in Good => i \in Good
    BY <1>1, <2>2, <2>3
  <2>5. \A i \in Good : ShowsFirst(elements, i, before, g[i].node)
    OBVIOUS
  <2>. HIDE DEF Good
  <2>6. \A i \in 0..n : i \in Good
    BY <1>1, <2>4, FromTheStart
  <2>7. n \in 0..n
    BY <1>1
  <2>. QED
    BY <2>5, <2>6, <2>7
<1>10. addCertificateDetails(elements, before) = (CHOOSE g : From(g))[n].node
  BY DEF addCertificateDetails, n
<1>. HIDE DEF From
<1>11. From(CHOOSE g : From(g))
  BY <1>8
<1>. QED
  BY <1>9, <1>10, <1>11 DEF n

-----------------------------------------------------------------------------
(* The calls before il_listen.                                             *)

LEMMA SaidMore ==
  ASSUME said \in Seq(Settings), NEW s \in Settings, said' = Append(said, s),
         NEW call, NEW argument, NEW otherwise
  PROVE  LastSaid(call, argument, otherwise)' =
           IF s.call = call /\ argument \in DOMAIN s THEN s[argument]
           ELSE LastSaid(call, argument, otherwise)
<1>1. said' \in Seq(Settings)
  BY AppendProperties
<1>2. /\ LastSaid(call, argument, otherwise) = LastIn(said, call, argument, otherwise)
      /\ LastSaid(call, argument, otherwise)' = LastIn(said', call, argument, otherwise)
  BY <1>1, LastSaidIsLastIn
<1>. QED
  BY <1>2, LastOfMore

(* The plugin lists take part in every call. *)
LEMMA PluginsSaid ==
  ASSUME ConfigTypeInv, SaidInv, NEW s \in Settings, said' = Append(said, s),
         config'.pluginPreRequest =
           IF s.call = "il_addPlugin" /\ IL_PREREQUEST(s.type)
           THEN Append(config.pluginPreRequest, s.plugin) ELSE config.pluginPreRequest,
         config'.pluginPostResponse =
           IF s.call = "il_addPlugin" /\ IL_POSTRESPONSE(s.type)
           THEN Append(config.pluginPostResponse, s.plugin) ELSE config.pluginPostResponse
  PROVE  /\ config'.pluginPreRequest \in Seq(Plugins)
         /\ config'.pluginPostResponse \in Seq(Plugins)
         /\ InOrder(config.pluginPreRequest, PluginCalls(IL_PREREQUEST))'
         /\ InOrder(config.pluginPostResponse, PluginCalls(IL_POSTRESPONSE))'
<1>1. said \in Seq(Settings)
  BY DEF ConfigTypeInv
<1>2. /\ Len(said) \in Nat /\ DOMAIN said = 1..Len(said)
      /\ DOMAIN said' = 1..Len(said) \cup {Len(said) + 1}
      /\ \A i \in 1..Len(said) : said'[i] = said[i]
      /\ said'[Len(said) + 1] = s
  <2>1. said' \in Seq(Settings) /\ Len(said') = Len(said) + 1
    BY <1>1, AppendProperties
  <2>. QED
    BY <1>1, <2>1, AppendProperties, LenProperties
<1>3. /\ config'.pluginPreRequest \in Seq(Plugins)
      /\ InOrder(config.pluginPreRequest, PluginCalls(IL_PREREQUEST))'
  <2>. DEFINE wanted == s.call = "il_addPlugin" /\ s.type % 2 = 1
              calls == {i \in DOMAIN said : said[i].call = "il_addPlugin" /\ said[i].type % 2 = 1}
              calls1 == {i \in DOMAIN said' :
                           said'[i].call = "il_addPlugin" /\ said'[i].type % 2 = 1}
  <2>1. /\ calls \subseteq 1..Len(said)
        /\ calls1 = IF wanted THEN calls \cup {Len(said) + 1} ELSE calls
    BY <1>2
  <2>2. config.pluginPreRequest \in Seq(Plugins) /\ Enumerates(said, config.pluginPreRequest, calls)
    BY DEF ConfigTypeInv, SaidInv, InOrder, PluginCalls, IL_PREREQUEST, Enumerates
  <2>3. ASSUME wanted
        PROVE  /\ config'.pluginPreRequest \in Seq(Plugins)
               /\ Enumerates(said', config'.pluginPreRequest, calls1)
    <3>1. s.plugin \in Plugins /\ config'.pluginPreRequest = Append(config.pluginPreRequest, s.plugin)
      BY <2>3 DEF Plugins, IL_PREREQUEST
    <3>2. Enumerates(Append(said, s), Append(config.pluginPreRequest, s.plugin),
                     calls \cup {Len(said) + 1})
      BY <1>1, <2>1, <2>2, <3>1, EnumeratesMore
    <3>3. Append(config.pluginPreRequest, s.plugin) \in Seq(Plugins)
      BY <2>2, <3>1, AppendProperties
    <3>4. calls1 = calls \cup {Len(said) + 1}
      BY <2>1, <2>3
    <3>. HIDE DEF calls, calls1
    <3>. QED
      BY <3>1, <3>2, <3>3, <3>4
  <2>4. ASSUME ~wanted
        PROVE  /\ config'.pluginPreRequest \in Seq(Plugins)
               /\ Enumerates(said', config'.pluginPreRequest, calls1)
    <3>1. config'.pluginPreRequest = config.pluginPreRequest
      BY <2>4 DEF IL_PREREQUEST
    <3>2. Enumerates(Append(said, s), config.pluginPreRequest, calls)
      BY <1>1, <2>1, <2>2, EnumeratesStill
    <3>. QED
      BY <2>1, <2>2, <2>4, <3>1, <3>2
  <2>5. /\ config'.pluginPreRequest \in Seq(Plugins)
        /\ Enumerates(said', config'.pluginPreRequest, calls1)
    BY <2>3, <2>4
  <2>. QED
    BY <2>5 DEF InOrder, PluginCalls, IL_PREREQUEST, Enumerates
<1>4. /\ config'.pluginPostResponse \in Seq(Plugins)
      /\ InOrder(config.pluginPostResponse, PluginCalls(IL_POSTRESPONSE))'
  <2>. DEFINE wanted == s.call = "il_addPlugin" /\ (s.type \div 2) % 2 = 1
              calls == {i \in DOMAIN said :
                          said[i].call = "il_addPlugin" /\ (said[i].type \div 2) % 2 = 1}
              calls1 == {i \in DOMAIN said' :
                           said'[i].call = "il_addPlugin" /\ (said'[i].type \div 2) % 2 = 1}
  <2>1. /\ calls \subseteq 1..Len(said)
        /\ calls1 = IF wanted THEN calls \cup {Len(said) + 1} ELSE calls
    BY <1>2
  <2>2. /\ config.pluginPostResponse \in Seq(Plugins)
        /\ Enumerates(said, config.pluginPostResponse, calls)
    BY DEF ConfigTypeInv, SaidInv, InOrder, PluginCalls, IL_POSTRESPONSE, Enumerates
  <2>3. ASSUME wanted
        PROVE  /\ config'.pluginPostResponse \in Seq(Plugins)
               /\ Enumerates(said', config'.pluginPostResponse, calls1)
    <3>1. s.plugin \in Plugins /\ config'.pluginPostResponse = Append(config.pluginPostResponse, s.plugin)
      BY <2>3 DEF Plugins, IL_POSTRESPONSE
    <3>2. Enumerates(Append(said, s), Append(config.pluginPostResponse, s.plugin),
                     calls \cup {Len(said) + 1})
      BY <1>1, <2>1, <2>2, <3>1, EnumeratesMore
    <3>3. Append(config.pluginPostResponse, s.plugin) \in Seq(Plugins)
      BY <2>2, <3>1, AppendProperties
    <3>4. calls1 = calls \cup {Len(said) + 1}
      BY <2>1, <2>3
    <3>. HIDE DEF calls, calls1
    <3>. QED
      BY <3>1, <3>2, <3>3, <3>4
  <2>4. ASSUME ~wanted
        PROVE  /\ config'.pluginPostResponse \in Seq(Plugins)
               /\ Enumerates(said', config'.pluginPostResponse, calls1)
    <3>1. config'.pluginPostResponse = config.pluginPostResponse
      BY <2>4 DEF IL_POSTRESPONSE
    <3>2. Enumerates(Append(said, s), config.pluginPostResponse, calls)
      BY <1>1, <2>1, <2>2, EnumeratesStill
    <3>. QED
      BY <2>1, <2>2, <2>4, <3>1, <3>2
  <2>5. /\ config'.pluginPostResponse \in Seq(Plugins)
        /\ Enumerates(said', config'.pluginPostResponse, calls1)
    BY <2>3, <2>4
  <2>. QED
    BY <2>5 DEF InOrder, PluginCalls, IL_POSTRESPONSE, Enumerates
<1>. QED
  BY <1>3, <1>4

LEMMA ConfigInit == Init => ConfigInv
<1>. SUFFICES ASSUME Init PROVE ConfigInv
  OBVIOUS
<1>1. /\ config \in Programs /\ phase = "configure" /\ said = <<>>
      /\ handles = <<>> /\ envHandle = 0 /\ session = NoSession
  BY DEF Init
<1>2. /\ ConfigFields \subseteq DOMAIN config
      /\ config.certificateFile = NoText /\ config.certificatePassword = NoText
      /\ config.clientAuthMode \notin 1..2 /\ config.tlsLaxMode # 1
      /\ config.tlsClientCertEnabled # 1
      /\ config.pluginPreRequest = <<>> /\ config.pluginPostResponse = <<>>
  BY <1>1, ProgramsAssumption DEF NoText
<1>3. ConfigTypeInv
  <2>1. \A S : <<>> \in Seq(S) /\ Len(<<>>) = 0
    BY EmptySeq
  <2>. QED
    BY <1>1, <1>2, <2>1 DEF ConfigTypeInv
<1>4. SaidInv
  <2>1. ASSUME NEW call, NEW argument, NEW otherwise
        PROVE  LastSaid(call, argument, otherwise) = otherwise
    BY <1>1 DEF LastSaid, SelectLastInSeq
  <2>2. DOMAIN said = {}
    BY <1>1
  <2>3. ASSUME NEW plugins, plugins = <<>>
        PROVE  /\ InOrder(plugins, PluginCalls(IL_PREREQUEST))
               /\ InOrder(plugins, PluginCalls(IL_POSTRESPONSE))
    BY <2>2, <2>3, FS_EmptySet DEF InOrder, PluginCalls
  <2>4. clientAuthMode = Mode
    BY <1>2, <2>1 DEF clientAuthMode, Mode, REQUIRED, PASSTHRU
  <2>. QED
    BY <1>1, <1>2, <2>1, <2>3, <2>4 DEF SaidInv, Listening, tlsClientCertEnabled
<1>. QED
  BY <1>1, <1>3, <1>4
  DEF ConfigInv, ListenInv, SocketInv, SessionInv, CertificateInv, Listening, NoSession

(* What a call does to the fields the property is about. *)
Effect(s) ==
  /\ ConfigFields \subseteq DOMAIN config'
  /\ config'.certificateFile =
       IF s.call = "il_setKeyfile" THEN s.path ELSE config.certificateFile
  /\ config'.certificatePassword =
       IF s.call = "il_setKeyfile" /\ s.parms >= 3 THEN s.password
       ELSE config.certificatePassword
  /\ config'.clientAuthMode =
       IF s.call = "il_setClientAuthMode" THEN s.value ELSE config.clientAuthMode
  /\ config'.tlsLaxMode =
       IF s.call = "il_setTlsLaxMode" THEN IF s.value = 0 THEN 0 ELSE 1
       ELSE config.tlsLaxMode
  /\ config'.tlsClientCertEnabled =
       IF s.call = "il_setTlsClientCertEnabled" THEN s.value ELSE config.tlsClientCertEnabled
  /\ config'.tlsServerCertEnabled =
       IF s.call = "il_setTlsServerCertEnabled" THEN s.value ELSE config.tlsServerCertEnabled
  /\ config'.pluginPreRequest =
       IF s.call = "il_addPlugin" /\ IL_PREREQUEST(s.type)
       THEN Append(config.pluginPreRequest, s.plugin) ELSE config.pluginPreRequest
  /\ config'.pluginPostResponse =
       IF s.call = "il_addPlugin" /\ IL_POSTRESPONSE(s.type)
       THEN Append(config.pluginPostResponse, s.plugin) ELSE config.pluginPostResponse

LEMMA EffectOfCall ==
  ASSUME ConfigFields \subseteq DOMAIN config, NEW s \in Settings,
         \/ il_setKeyfile(s) \/ il_setTlsField(s) \/ il_setTlsLaxMode(s)
         \/ il_setSchedulerPlugin(s) \/ il_addPlugin(s)
  PROVE  Effect(s)
<1>1. CASE il_setKeyfile(s)
  BY <1>1 DEF il_setKeyfile, Effect, ConfigFields
<1>2. CASE il_setTlsField(s)
  <2>1. /\ s.call \in {"il_setTlsServerCertEnabled", "il_setTlsClientCertEnabled",
                       "il_setClientAuthMode"}
        /\ config' = [config EXCEPT ![Field[s.call]] = s.value]
    BY <1>2 DEF il_setTlsField, Field
  <2>2. CASE s.call = "il_setTlsServerCertEnabled"
    <3>a. Field[s.call] = "tlsServerCertEnabled"
      BY <2>2 DEF Field
    <3>1. config' = [config EXCEPT !.tlsServerCertEnabled = s.value]
      BY <2>1, <3>a
    <3>. QED
      BY <2>2, <3>1 DEF Effect, ConfigFields
  <2>3. CASE s.call = "il_setTlsClientCertEnabled"
    <3>a. Field[s.call] = "tlsClientCertEnabled"
      BY <2>3 DEF Field
    <3>1. config' = [config EXCEPT !.tlsClientCertEnabled = s.value]
      BY <2>1, <3>a
    <3>. QED
      BY <2>3, <3>1 DEF Effect, ConfigFields
  <2>4. CASE s.call = "il_setClientAuthMode"
    <3>a. Field[s.call] = "clientAuthMode"
      BY <2>4 DEF Field
    <3>1. config' = [config EXCEPT !.clientAuthMode = s.value]
      BY <2>1, <3>a
    <3>. QED
      BY <2>4, <3>1 DEF Effect, ConfigFields
  <2>. QED
    BY <2>1, <2>2, <2>3, <2>4
<1>3. CASE il_setTlsLaxMode(s)
  BY <1>3 DEF il_setTlsLaxMode, Effect, ConfigFields
<1>4. CASE il_setSchedulerPlugin(s)
  BY <1>4 DEF il_setSchedulerPlugin, Effect, ConfigFields
<1>5. CASE il_addPlugin(s)
  BY <1>5 DEF il_addPlugin, Effect, ConfigFields
<1>. QED
  BY <1>1, <1>2, <1>3, <1>4, <1>5

LEMMA ConfigureStep == ConfigInv /\ Configure => ConfigInv'
<1>. SUFFICES ASSUME ConfigInv, Configure PROVE ConfigInv'
  OBVIOUS
<1>1. /\ phase = "configure" /\ handles = <<>> /\ envHandle = 0
      /\ session = NoSession /\ said \in Seq(Settings)
      /\ ConfigFields \subseteq DOMAIN config
      /\ UNCHANGED <<environment, phase, handles, envHandle, session>>
  BY DEF ConfigInv, ConfigTypeInv, SocketInv, SessionInv, Listening, Configure, gskVars
<1>2. PICK s \in Settings :
        /\ \/ il_setKeyfile(s) \/ il_setTlsField(s) \/ il_setTlsLaxMode(s)
           \/ il_setSchedulerPlugin(s) \/ il_addPlugin(s)
        /\ said' = Append(said, s)
  BY DEF Configure
<1>3. Effect(s)
  BY <1>1, <1>2, EffectOfCall
<1>4. /\ config'.pluginPreRequest \in Seq(Plugins)
      /\ config'.pluginPostResponse \in Seq(Plugins)
      /\ InOrder(config.pluginPreRequest, PluginCalls(IL_PREREQUEST))'
      /\ InOrder(config.pluginPostResponse, PluginCalls(IL_POSTRESPONSE))'
  BY <1>2, <1>3, PluginsSaid DEF ConfigInv, Effect
<1>5. ConfigTypeInv'
  <2>1. said' \in Seq(Settings)
    BY <1>1, <1>2, AppendProperties
  <2>2. handles' \in Seq(Handle')
    BY <1>1, EmptySeq
  <2>3. envHandle' \in 0..Len(handles')
    BY <1>1 DEF ConfigInv, ConfigTypeInv
  <2>. QED
    BY <1>1, <1>3, <1>4, <2>1, <2>2, <2>3 DEF ConfigTypeInv, Effect
<1>6. SaidInv'
  <2>1. /\ LastSaid("il_setKeyfile", "path", NoText)' =
             IF s.call = "il_setKeyfile" THEN s.path
             ELSE LastSaid("il_setKeyfile", "path", NoText)
        /\ LastSaid("il_setKeyfile", "password", NoText)' =
             IF s.call = "il_setKeyfile" /\ s.parms >= 3 THEN s.password
             ELSE LastSaid("il_setKeyfile", "password", NoText)
    BY <1>1, <1>2, SaidMore, SettingsAssumption
  <2>2. LastSaid("il_setClientAuthMode", "value", 0)' =
          IF s.call = "il_setClientAuthMode" THEN s.value
          ELSE LastSaid("il_setClientAuthMode", "value", 0)
    BY <1>1, <1>2, SaidMore, SettingsAssumption
  <2>3. LastSaid("il_setTlsLaxMode", "value", 0)' =
          IF s.call = "il_setTlsLaxMode" THEN s.value
          ELSE LastSaid("il_setTlsLaxMode", "value", 0)
    BY <1>1, <1>2, SaidMore, SettingsAssumption
  <2>a. /\ LastSaid("il_setTlsClientCertEnabled", "value", 0)' =
             IF s.call = "il_setTlsClientCertEnabled" THEN s.value
             ELSE LastSaid("il_setTlsClientCertEnabled", "value", 0)
        /\ LastSaid("il_setTlsServerCertEnabled", "value", 0)' =
             IF s.call = "il_setTlsServerCertEnabled" THEN s.value
             ELSE LastSaid("il_setTlsServerCertEnabled", "value", 0)
    BY <1>1, <1>2, SaidMore, SettingsAssumption
  <2>b. /\ tlsClientCertEnabled' <=> LastSaid("il_setTlsClientCertEnabled", "value", 0)' = 1
        /\ LastSaid("il_setTlsServerCertEnabled", "value", 0)' = 1 =>
             config'.tlsServerCertEnabled = 1
    BY <1>3, <2>a DEF ConfigInv, SaidInv, Effect, tlsClientCertEnabled
  <2>4. clientAuthMode' = Mode'
    BY <1>3, <2>2, SettingsAssumption
    DEF ConfigInv, SaidInv, Mode, clientAuthMode, Effect, REQUIRED, PASSTHRU
  <2>5. config'.tlsLaxMode = 1 => LastSaid("il_setTlsLaxMode", "value", 0)' # 0
    BY <1>3, <2>3 DEF ConfigInv, SaidInv, Effect
  <2>6. /\ config'.certificateFile = LastSaid("il_setKeyfile", "path", NoText)'
        /\ config'.certificatePassword = LastSaid("il_setKeyfile", "password", NoText)'
    BY <1>1, <1>3, <2>1 DEF ConfigInv, SaidInv, Effect, Listening
  <2>. QED
    BY <1>4, <2>b, <2>4, <2>5, <2>6 DEF SaidInv
<1>. QED
  BY <1>1, <1>5, <1>6
  DEF ConfigInv, ListenInv, SocketInv, SessionInv, CertificateInv, Listening

-----------------------------------------------------------------------------
(* il_listen.                                                              *)

(* While nothing is said, what was said last stays. *)
LEMMA SaidStill ==
  ASSUME UNCHANGED said
  PROVE  /\ \A call, argument, otherwise :
              LastSaid(call, argument, otherwise)' = LastSaid(call, argument, otherwise)
         /\ Mode' = Mode
         /\ PluginCalls(IL_PREREQUEST)' = PluginCalls(IL_PREREQUEST)
         /\ PluginCalls(IL_POSTRESPONSE)' = PluginCalls(IL_POSTRESPONSE)
         /\ UNCHANGED environment => File' = File /\ Password' = Password
<1>1. ASSUME NEW call, NEW argument, NEW otherwise
      PROVE  LastSaid(call, argument, otherwise)' = LastSaid(call, argument, otherwise)
  BY DEF LastSaid, SelectLastInSeq
<1>2. /\ PluginCalls(IL_PREREQUEST)' = PluginCalls(IL_PREREQUEST)
      /\ PluginCalls(IL_POSTRESPONSE)' = PluginCalls(IL_POSTRESPONSE)
  BY DEF PluginCalls, IL_PREREQUEST, IL_POSTRESPONSE
<1>. QED
  BY <1>1, <1>2 DEF Mode, File, Password, getenv

LEMMA SaidInvStill ==
  ASSUME SaidInv, UNCHANGED said, Listening',
         config'.clientAuthMode = config.clientAuthMode,
         config'.tlsLaxMode = config.tlsLaxMode,
         config'.tlsClientCertEnabled = config.tlsClientCertEnabled,
         config'.tlsServerCertEnabled = config.tlsServerCertEnabled,
         config'.pluginPreRequest = config.pluginPreRequest,
         config'.pluginPostResponse = config.pluginPostResponse
  PROVE  SaidInv'
<1>1. /\ InOrder(config.pluginPreRequest, PluginCalls(IL_PREREQUEST))'
      /\ InOrder(config.pluginPostResponse, PluginCalls(IL_POSTRESPONSE))'
  BY DEF SaidInv, InOrder, PluginCalls, IL_PREREQUEST, IL_POSTRESPONSE
<1>2. clientAuthMode' = Mode'
  BY SaidStill DEF SaidInv, clientAuthMode
<1>3. config'.tlsLaxMode = 1 => LastSaid("il_setTlsLaxMode", "value", 0)' # 0
  BY SaidStill DEF SaidInv
<1>4. /\ tlsClientCertEnabled' <=> LastSaid("il_setTlsClientCertEnabled", "value", 0)' = 1
      /\ LastSaid("il_setTlsServerCertEnabled", "value", 0)' = 1 =>
           config'.tlsServerCertEnabled = 1
  BY SaidStill DEF SaidInv, tlsClientCertEnabled
<1>. QED
  BY <1>1, <1>2, <1>3, <1>4 DEF SaidInv

LEMMA ListenStep == ConfigInv /\ il_listen => ConfigInv'
<1>. SUFFICES ASSUME ConfigInv, il_listen PROVE ConfigInv'
  OBVIOUS
<1>1. /\ ~Listening /\ handles = <<>> /\ envHandle = 0 /\ session = NoSession
      /\ ConfigFields \subseteq DOMAIN config
      /\ UNCHANGED <<environment, handles, envHandle, session, said>>
  BY DEF ConfigInv, ConfigTypeInv, SocketInv, SessionInv, Listening, il_listen, gskVars
<1>2. /\ config' = [loadConfigFromEnvironment(config) EXCEPT
                      !.isWorker = IF @ \in {blank, zero} THEN 0 ELSE @]
      /\ receiveHeader' = Callback(config'.protocol)
      /\ phase' = IF Callback(config'.protocol) = "none" THEN "exited"
                  ELSE IF config'.isWorker = 0 THEN "getSocket"
                  ELSE IF config'.protocol \in FastCGI THEN "accepted" ELSE "accept"
  BY DEF il_listen, setCallbacks
<1>3. /\ ConfigFields \subseteq DOMAIN config'
      /\ config'.certificateFile = getenv("I_CERTIFICATE", config.certificateFile)
      /\ config'.certificatePassword =
           getenv("I_CERTIFICATE_PASSWORD", config.certificatePassword)
      /\ config'.port = getenv("I_PORT", config.port)
      /\ config'.protocol = IF getenv("I_PROTOCOL", config.protocol) \in Protocols
                            THEN getenv("I_PROTOCOL", config.protocol) ELSE config.protocol
      /\ config'.clientAuthMode = config.clientAuthMode
      /\ config'.tlsLaxMode = config.tlsLaxMode
      /\ config'.tlsClientCertEnabled = config.tlsClientCertEnabled
      /\ config'.tlsServerCertEnabled = config.tlsServerCertEnabled
      /\ config'.pluginPreRequest = config.pluginPreRequest
      /\ config'.pluginPostResponse = config.pluginPostResponse
  <2>. DEFINE load == loadConfigFromEnvironment(config)
  <2>1. /\ ConfigFields \subseteq DOMAIN load
        /\ load.certificateFile = getenv("I_CERTIFICATE", config.certificateFile)
        /\ load.certificatePassword =
             getenv("I_CERTIFICATE_PASSWORD", config.certificatePassword)
        /\ load.port = getenv("I_PORT", config.port)
        /\ load.protocol = IF getenv("I_PROTOCOL", config.protocol) \in Protocols
                           THEN getenv("I_PROTOCOL", config.protocol) ELSE config.protocol
        /\ load.clientAuthMode = config.clientAuthMode
        /\ load.tlsLaxMode = config.tlsLaxMode
        /\ load.tlsClientCertEnabled = config.tlsClientCertEnabled
        /\ load.tlsServerCertEnabled = config.tlsServerCertEnabled
        /\ load.pluginPreRequest = config.pluginPreRequest
        /\ load.pluginPostResponse = config.pluginPostResponse
    BY <1>1 DEF loadConfigFromEnvironment, ConfigFields
  <2>2. config' = [load EXCEPT !.isWorker = IF @ \in {blank, zero} THEN 0 ELSE @]
    BY <1>2
  <2>. HIDE DEF load
  <2>. QED
    BY <2>1, <2>2 DEF ConfigFields
<1>4. phase' # "configure"
  BY <1>2
<1>5. ConfigTypeInv'
  BY <1>1, <1>2, <1>3, EmptySeq DEF ConfigInv, ConfigTypeInv
<1>6. SaidInv'
  BY <1>1, <1>3, <1>4, SaidInvStill DEF ConfigInv, Listening
<1>7. ListenInv'
  <2>1. config'.certificateFile = File' /\ config'.certificatePassword = Password'
    <3>1. config'.certificateFile = File /\ config'.certificatePassword = Password
      BY <1>1, <1>3 DEF ConfigInv, SaidInv, File, Password
    <3>. QED
      BY <1>1, <3>1, SaidStill
  <2>2. config'.port = getenv("I_PORT", config.port)'
    BY <1>1, <1>3 DEF getenv
  <2>3. getenv("I_PROTOCOL", "")' \in Protocols => config'.protocol = getenv("I_PROTOCOL", "")'
    <3>1. "" \notin Protocols
      BY DEF Protocols, FastCGI
    <3>. QED
      BY <1>1, <1>3, <3>1 DEF getenv
  <2>. QED
    BY <1>2, <2>1, <2>2, <2>3 DEF ListenInv
<1>8. SocketInv'
  BY <1>1, <1>2, <1>4 DEF SocketInv, Listening, FastCGI, Callback
<1>9. SessionInv'
  BY <1>1, <1>2, <1>4 DEF SessionInv
<1>10. CertificateInv'
  BY <1>1, <1>2 DEF ConfigInv, CertificateInv
<1>. QED
  BY <1>5, <1>6, <1>7, <1>8, <1>9, <1>10 DEF ConfigInv

(* The rest of il_listen leaves the CONFIG as it is. *)
LEMMA ConfigStill ==
  ASSUME ConfigInv, Listening, UNCHANGED <<config, environment, receiveHeader, said>>, Listening'
  PROVE  SaidInv' /\ ListenInv' /\ Handle' = Handle /\ isSecure' = isSecure
<1>1. SaidInv'
  BY SaidInvStill DEF ConfigInv
<1>2. ListenInv'
  BY SaidStill DEF ConfigInv, ListenInv, getenv
<1>. QED
  BY <1>1, <1>2 DEF Handle, isSecure

LEMMA SocketStep == ConfigInv /\ getSocket => ConfigInv'
<1>. SUFFICES ASSUME ConfigInv, getSocket PROVE ConfigInv'
  OBVIOUS
<1>1. /\ phase = "getSocket" /\ Listening /\ config.isWorker = 0 /\ session = NoSession
      /\ UNCHANGED <<config, environment, receiveHeader, session, said>>
      /\ handles \in Seq(Handle) /\ envHandle \in 0..Len(handles)
  BY DEF ConfigInv, ConfigTypeInv, SocketInv, SessionInv, getSocket, Listening
<1>2. PICK failed \in IF isSecure THEN Failures(GskCalls) ELSE {{}}, socket \in BOOLEAN :
        /\ IF isSecure
           THEN Len(handles) < MaxHandles /\ setupGskitEnvironment(failed)
           ELSE UNCHANGED gskVars
        /\ IF Ready(failed) /\ socket
           THEN /\ bound' = <<config.port, Address(config.interface)>>
                /\ phase' = IF config.protocol \in FastCGI THEN "accepted" ELSE "accept"
           ELSE UNCHANGED <<bound, phase>>
  BY DEF getSocket
<1>3. /\ handles' \in Seq(Handle) /\ envHandle' \in 0..Len(handles')
      /\ Ready(failed) /\ isSecure => envHandle' # 0 /\ handles'[envHandle'].ready
  <2>1. CASE UNCHANGED gskVars /\ (isSecure => "open" \in failed)
    <3>1. Ready(failed) => ~isSecure
      BY <2>1 DEF Ready
    <3>. QED
      BY <1>1, <2>1, <3>1 DEF gskVars
  <2>2. CASE isSecure /\ "open" \notin failed
    <3>. DEFINE new == [ready |-> Ready(failed), keyring |-> config.certificateFile,
                        password |-> config.certificatePassword,
                        protocols |-> {"TLSV12"} \cup (({"TLSV13"} \cup Lax) \ failed)]
    <3>1. handles' = Append(handles, new) /\ envHandle' = Len(handles) + 1
      BY <1>2, <2>2 DEF setupGskitEnvironment
    <3>2. new \in Handle
      BY DEF Handle, GskCalls, Lax, Ready
    <3>3. /\ handles' \in Seq(Handle) /\ Len(handles') = Len(handles) + 1
          /\ handles'[Len(handles) + 1] = new /\ Len(handles) \in Nat
      BY <1>1, <3>1, <3>2, AppendProperties, LenProperties
    <3>4. new.ready = Ready(failed)
      OBVIOUS
    <3>. HIDE DEF new
    <3>. QED
      BY <3>1, <3>3, <3>4
  <2>. QED
    BY <1>2, <2>1, <2>2 DEF setupGskitEnvironment
<1>4. phase' \in {"getSocket", "accept", "accepted"} /\ Listening'
  BY <1>1, <1>2 DEF Listening
<1>5. SaidInv' /\ ListenInv' /\ Handle' = Handle /\ isSecure' = isSecure
  BY <1>1, <1>4, ConfigStill
<1>6. ConfigTypeInv'
  BY <1>1, <1>3, <1>4, <1>5 DEF ConfigInv, ConfigTypeInv
<1>7. SocketInv'
  BY <1>1, <1>2, <1>3, <1>4, <1>5 DEF SocketInv, Listening
<1>8. SessionInv'
  BY <1>1, <1>2, <1>4, <1>5 DEF SessionInv
<1>9. CertificateInv'
  BY <1>1, <1>4 DEF ConfigInv, CertificateInv
<1>. QED
  BY <1>5, <1>6, <1>7, <1>8, <1>9 DEF ConfigInv

LEMMA AcceptStep == ConfigInv /\ accept => ConfigInv'
<1>. SUFFICES ASSUME ConfigInv, accept PROVE ConfigInv'
  OBVIOUS
<1>1. /\ phase = "accept" /\ phase' = "accepted" /\ Listening /\ Listening'
      /\ UNCHANGED <<config, environment, receiveHeader, bound, handles, envHandle, said>>
  BY DEF accept, Listening, gskVars
<1>2. SaidInv' /\ ListenInv' /\ Handle' = Handle /\ isSecure' = isSecure
  BY <1>1, ConfigStill
<1>3. ConfigTypeInv'
  BY <1>1, <1>2 DEF ConfigInv, ConfigTypeInv
<1>4. SocketInv'
  BY <1>1, <1>2 DEF ConfigInv, SocketInv, Listening
<1>5. SessionInv'
  <2>1. CASE isSecure
    <3>1. PICK client \in Certificates \cup {None}, failed \in Failures({"auth", "other"}) :
            envHandle # 0 /\ session' = SessionWith(client, failed)
      BY <2>1 DEF accept
    <3>2. config.isWorker = 0
      BY <3>1 DEF ConfigInv, SocketInv
    <3>3. /\ session'.handle = envHandle
          /\ session'.type = IF clientAuthMode = 0 THEN "GSK_SERVER_SESSION"
                             ELSE "GSK_SERVER_SESSION_WITH_CL_AUTH"
          /\ session'.auth \in {AuthType(clientAuthMode), "default"}
      BY <3>1 DEF SessionWith
    <3>. QED
      BY <1>1, <1>2, <2>1, <3>2, <3>3 DEF SessionInv, clientAuthMode
  <2>2. CASE ~isSecure
    BY <1>1, <1>2, <2>2 DEF accept, SessionInv, NoSession
  <2>. QED
    BY <2>1, <2>2
<1>6. CertificateInv'
  BY <1>1 DEF accept, SessionWith, NoSession, CertificateInv
<1>. QED
  BY <1>2, <1>3, <1>4, <1>5, <1>6 DEF ConfigInv

(* The nodes are made from the CONFIG and the session. *)
LEMMA CertificateNodesStill ==
  ASSUME UNCHANGED <<config, session>>, NEW failed
  PROVE  CertificateNodes(failed)' = CertificateNodes(failed)
<1>1. isSecure' = isSecure /\ clientAuthMode' = clientAuthMode
  BY DEF isSecure, clientAuthMode
<1>2. PartnerInfo(failed)' = PartnerInfo(failed) /\ LocalInfo(failed)' = LocalInfo(failed)
  BY <1>1 DEF PartnerInfo, LocalInfo, tlsClientCertEnabled
<1>3. ClientNode(failed)' = ClientNode(failed)
  BY <1>2 DEF ClientNode, addClientCertificateValidationResult
<1>. QED
  BY <1>1, <1>2, <1>3 DEF CertificateNodes

(* acceptFails, the end of serverThread however it comes, and Continue. *)
LEMMA OtherStep ==
  ConfigInv /\ (acceptFails \/ serverThread \/ serverThreadDies \/ Continue) => ConfigInv'
<1>. SUFFICES ASSUME ConfigInv, acceptFails \/ serverThread \/ serverThreadDies \/ Continue
              PROVE  ConfigInv'
  OBVIOUS
<1>1. /\ Listening /\ Listening'
      /\ UNCHANGED <<config, environment, receiveHeader, bound, handles, envHandle, said>>
  BY DEF acceptFails, serverThread, serverThreadDies, Continue, AfterConnection,
         Listening, gskVars
<1>2. \/ phase = "accept" /\ phase' = "getSocket" /\ session' = session /\ config.isWorker = 0
      \/ phase = "accepted" /\ phase' = "serving" /\ session' = session
      \/ /\ phase \in {"accepted", "serving"} /\ session' = NoSession
         /\ phase' = AfterConnection
  BY DEF acceptFails, serverThread, serverThreadDies, Continue
<1>a. AfterConnection = IF config.protocol \in FastCGI \/ config.isWorker # 0
                        THEN "ended" ELSE "accept"
  BY DEF AfterConnection
<1>3. SaidInv' /\ ListenInv' /\ Handle' = Handle /\ isSecure' = isSecure
  BY <1>1, ConfigStill
<1>4. ConfigTypeInv'
  BY <1>1, <1>2, <1>a, <1>3 DEF ConfigInv, ConfigTypeInv
<1>5. SocketInv'
  BY <1>1, <1>2, <1>a, <1>3 DEF ConfigInv, SocketInv, Listening
<1>6. SessionInv'
  BY <1>1, <1>2, <1>a, <1>3 DEF ConfigInv, SessionInv, clientAuthMode
<1>7. CertificateInv'
  <2>1. session'.client \in Certificates \cup {None}
    BY <1>2 DEF ConfigInv, CertificateInv, NoSession
  <2>2. CASE phase' = "serving"
    <3>1. /\ \E failed \in Failures(CertCalls) : nodes' = CertificateNodes(failed)
          /\ UNCHANGED <<config, session>>
      BY <1>2, <2>2
      DEF serverThread, serverThreadDies, AfterConnection, acceptFails, Continue
    <3>2. PICK failed \in Failures(CertCalls) : nodes' = CertificateNodes(failed)
      BY <3>1
    <3>3. CertificateNodes(failed)' = CertificateNodes(failed)
      BY <3>1, CertificateNodesStill
    <3>. QED
      BY <2>1, <3>2, <3>3 DEF CertificateInv, Failures
  <2>. QED
    BY <2>1, <2>2 DEF CertificateInv
<1>. QED
  BY <1>3, <1>4, <1>5, <1>6, <1>7 DEF ConfigInv

LEMMA UnchangedStep == ConfigInv /\ UNCHANGED vars => ConfigInv'
<1>. SUFFICES ASSUME ConfigInv, UNCHANGED vars PROVE ConfigInv'
  OBVIOUS
<1>1. UNCHANGED <<config, environment, phase, receiveHeader, bound, handles, envHandle,
                  session, nodes, said>>
  BY DEF vars, gskVars
<1>a. CertificateInv'
  BY <1>1, CertificateNodesStill DEF ConfigInv, CertificateInv
<1>2. CASE Listening
  <2>1. SaidInv' /\ ListenInv' /\ Handle' = Handle /\ isSecure' = isSecure
    BY <1>1, <1>2, ConfigStill DEF Listening
  <2>. QED
    BY <1>1, <1>a, <2>1
    DEF ConfigInv, ConfigTypeInv, SocketInv, SessionInv, Listening, clientAuthMode
<1>3. CASE ~Listening
  <2>1. SaidInv'
    <3>1. /\ InOrder(config.pluginPreRequest, PluginCalls(IL_PREREQUEST))'
          /\ InOrder(config.pluginPostResponse, PluginCalls(IL_POSTRESPONSE))'
      BY <1>1 DEF ConfigInv, SaidInv, InOrder, PluginCalls, IL_PREREQUEST, IL_POSTRESPONSE
    <3>2. clientAuthMode' = Mode'
      BY <1>1, SaidStill DEF ConfigInv, SaidInv, clientAuthMode
    <3>. QED
      BY <1>1, <1>3, <3>1, <3>2, SaidStill
      DEF ConfigInv, SaidInv, Listening, tlsClientCertEnabled
  <2>2. Handle' = Handle /\ isSecure' = isSecure
    BY <1>1 DEF Handle, isSecure
  <2>. QED
    BY <1>1, <1>a, <1>3, <2>1, <2>2
    DEF ConfigInv, ConfigTypeInv, ListenInv, SocketInv, SessionInv, Listening, clientAuthMode
<1>. QED
  BY <1>2, <1>3

(* ServedAsConfigured is not inductive: that the GSKit environment of a    *)
(* session is the one made from the key file depends on how il_listen got  *)
(* past getSocket, and that its plugins are in order on each il_addPlugin. *)
THEOREM ConfigInvariant == Spec => []ConfigInv
<1>1. ConfigInv /\ [Next]_vars => ConfigInv'
  <2>1. ConfigInv /\ setupSecureSocketFails => ConfigInv'
    BY UnchangedStep DEF setupSecureSocketFails
  <2>2. ConfigInv /\ Stopped => ConfigInv'
    BY UnchangedStep DEF Stopped
  <2>. QED
    BY <2>1, <2>2, ConfigureStep, ListenStep, SocketStep, AcceptStep, OtherStep, UnchangedStep
    DEF Next
<1>. QED
  BY <1>1, ConfigInit, PTL DEF Spec

(* Whatever a program says, in whatever order, whatever the environment    *)
(* has and whatever GSKit refuses: a connection is served with it, but for *)
(* the type of client authentication, which may be GSKit's default         *)
(* (getSocket, setupGskitEnvironment, accept).                             *)
THEOREM ServesAsConfigured == Spec => []ServedAsConfigured
<1>1. ConfigInv => ServedAsConfigured
  <2>. SUFFICES ASSUME ConfigInv, phase \in {"accepted", "serving"} PROVE ServedAsConfigured
    BY DEF ServedAsConfigured
  <2>1. Listening
    BY DEF Listening
  <2>2. /\ config.certificateFile = File /\ config.certificatePassword = Password
        /\ config.port = getenv("I_PORT", config.port)
        /\ getenv("I_PROTOCOL", "") \in Protocols => config.protocol = getenv("I_PROTOCOL", "")
        /\ receiveHeader = Callback(config.protocol)
    BY <2>1 DEF ConfigInv, ListenInv
  <2>3. isSecure <=> File # NoText
    BY <2>2 DEF isSecure
  <2>4. ASSUME File # NoText, receiveHeader = "receiveHeaderHTTP"
        PROVE  LET gsk == handles[session.handle] IN
               /\ gsk.ready
               /\ gsk.keyring = File /\ gsk.password = Password
               /\ "TLSV12" \in gsk.protocols
               /\ gsk.protocols \cap {"TLSV1", "TLSV11"} # {} =>
                    LastSaid("il_setTlsLaxMode", "value", 0) # 0
               /\ session.type = "GSK_SERVER_SESSION" <=> Mode = 0
               /\ session.auth \in {AuthType(Mode), "default"}
    <3>1. config.protocol \notin FastCGI
      BY <2>2, <2>4 DEF Callback, FastCGI
    <3>2. /\ config.isWorker = 0 /\ session.handle = envHandle
          /\ session.type = IF clientAuthMode = 0 THEN "GSK_SERVER_SESSION"
                            ELSE "GSK_SERVER_SESSION_WITH_CL_AUTH"
          /\ session.auth \in {AuthType(clientAuthMode), "default"}
      BY <2>3, <2>4, <3>1 DEF ConfigInv, SessionInv
    <3>6. clientAuthMode = Mode
      BY DEF ConfigInv, SaidInv
    <3>7. session.auth \in {AuthType(Mode), "default"}
      BY <3>2, <3>6, Zenon
    <3>3. envHandle # 0 /\ handles[envHandle].ready
      BY <2>3, <2>4, <3>2 DEF ConfigInv, SocketInv
    <3>4. handles[envHandle] \in Handle
      BY <3>3, ElementOfSeq DEF ConfigInv, ConfigTypeInv
    <3>5. /\ handles[envHandle].keyring = File /\ handles[envHandle].password = Password
          /\ "TLSV12" \in handles[envHandle].protocols
          /\ handles[envHandle].protocols \cap {"TLSV1", "TLSV11"} # {} => config.tlsLaxMode = 1
      BY <2>2, <3>4 DEF Handle
    <3>. QED
      BY <3>2, <3>3, <3>5, <3>6, <3>7 DEF ConfigInv, SaidInv
  <2>5. config.isWorker = 0 /\ "I_PORT" \in DOMAIN environment =>
          bound[1] = environment["I_PORT"]
    <3>1. config.isWorker = 0 => bound[1] = config.port
      BY DEF ConfigInv, SocketInv
    <3>. QED
      BY <2>2, <3>1 DEF getenv
  <2>6. /\ InOrder(config.pluginPreRequest, PluginCalls(IL_PREREQUEST))
        /\ InOrder(config.pluginPostResponse, PluginCalls(IL_POSTRESPONSE))
    BY DEF ConfigInv, SaidInv
  <2>7. File = NoText => session = NoSession
    BY <2>3 DEF ConfigInv, SessionInv
  <2>8. getenv("I_PROTOCOL", "") \in Protocols =>
          receiveHeader = Callback(getenv("I_PROTOCOL", ""))
    BY <2>2
  <2>. QED
    BY <2>4, <2>5, <2>6, <2>7, <2>8 DEF ServedAsConfigured
<1>. QED
  BY <1>1, ConfigInvariant, PTL

(* However the certificate of a client is made up, which elements are      *)
(* missing, come twice, have no field, are longer than the buffer or       *)
(* cannot be converted, and whatever GSKit refuses: the node the servlet   *)
(* sees has a field for each element that has one, with the text of the    *)
(* last, cut to the buffer, and no other, or no field of the certificate   *)
(* at all (serverThread, addCertificateDetails).                           *)
THEOREM ShowsCertificate == Spec => []CertificateAsPresented
<1>1. ConfigInv => CertificateAsPresented
  <2>. SUFFICES ASSUME ConfigInv, phase = "serving", File # NoText
                PROVE  CertificateAsPresented
    BY DEF CertificateAsPresented
  <2>1. isSecure /\ clientAuthMode = Mode
    BY DEF ConfigInv, SaidInv, ListenInv, Listening, isSecure
  <2>0. PICK failed \in Failures(CertCalls) : nodes = CertificateNodes(failed)
    BY DEF ConfigInv, CertificateInv
  <2>2. /\ Mode # 0 <=> "client" \in DOMAIN nodes
        /\ Mode # 0 => nodes.client = ClientNode(failed)
        /\ LastSaid("il_setTlsServerCertEnabled", "value", 0) = 1 => "server" \in DOMAIN nodes
    <3>. DEFINE own == addCertificateDetails(LocalInfo(failed), NoFields)
                server == IF config.tlsServerCertEnabled # 0
                          THEN Put(NoNodes, {"server"}, own) ELSE NoNodes
    <3>1. nodes = IF Mode # 0 THEN Put(server, {"client"}, ClientNode(failed)) ELSE server
      BY <2>0, <2>1 DEF CertificateNodes
    <3>2. DOMAIN NoNodes = {}
      BY DEF NoNodes
    <3>. HIDE DEF own
    <3>3. DOMAIN server = IF config.tlsServerCertEnabled # 0 THEN {"server"} ELSE {}
      BY <3>2 DEF Put
    <3>. HIDE DEF server
    <3>4. /\ DOMAIN Put(server, {"client"}, ClientNode(failed)) = DOMAIN server \cup {"client"}
          /\ Put(server, {"client"}, ClientNode(failed))["client"] = ClientNode(failed)
      BY DEF Put
    <3>5. LastSaid("il_setTlsServerCertEnabled", "value", 0) = 1 =>
            config.tlsServerCertEnabled # 0
      BY DEF ConfigInv, SaidInv
    <3>. QED
      BY <3>1, <3>3, <3>4, <3>5
  <2>3. ASSUME Mode # 0, session.client # None
        PROVE  LET elements == session.client
                   with(id) == {i \in DOMAIN elements : elements[i].id = id}
                   shown == DOMAIN nodes.client \ {"validationcode"}
                   last(key) == elements[Max(with(CertificateId[key]))].text
               IN /\ \/ shown = {}
                     \/ /\ LastSaid("il_setTlsClientCertEnabled", "value", 0) = 1
                        /\ shown = {key \in DOMAIN CertificateId : with(CertificateId[key]) # {}}
                  /\ \A key \in shown :
                       last(key) # Unconvertible => nodes.client[key] = Cut(last(key))
    <3>. DEFINE elements == session.client
                n == Len(elements)
                with(id) == {i \in DOMAIN elements : elements[i].id = id}
                last(key) == elements[Max(with(CertificateId[key]))].text
                checked == addClientCertificateValidationResult(NoFields, failed)
                shown == DOMAIN nodes.client \ {"validationcode"}
    <3>1. /\ elements \in Seq([id : Nat, text : STRING])
          /\ n \in Nat /\ DOMAIN elements = 1..n
      <4>1. elements \in Seq([id : Nat, text : STRING])
        BY <2>3, ConfigurationAssumption DEF ConfigInv, CertificateInv
      <4>. QED
        BY <4>1, LenProperties
    <3>2. /\ ClientNode(failed) = addCertificateDetails(PartnerInfo(failed), checked)
          /\ nodes.client = ClientNode(failed)
      BY <2>2, <2>3 DEF ClientNode
    <3>a. \/ PartnerInfo(failed) = <<>>
          \/ PartnerInfo(failed) = elements /\ LastSaid("il_setTlsClientCertEnabled", "value", 0) = 1
      BY <2>1, <2>3 DEF PartnerInfo, ConfigInv, SaidInv
    <3>3. DOMAIN checked \subseteq {"validationcode"} /\ checked \in CertificateNode
      <4>1. DOMAIN NoFields = {} /\ NoFields \in [{} -> Texts]
        BY DEF NoFields
      <4>2. NoFields \in CertificateNode
        BY <4>1 DEF CertificateNode
      <4>3. /\ {"validationcode"} \in SUBSET CertificateFields
            /\ "code" \in Texts /\ "none" \in Texts
        BY DEF CertificateFields, Texts
      <4>4. ASSUME NEW text \in Texts
            PROVE  /\ DOMAIN Put(NoFields, {"validationcode"}, text) = {"validationcode"}
                   /\ Put(NoFields, {"validationcode"}, text) \in CertificateNode
        <5>1. DOMAIN Put(NoFields, {"validationcode"}, text) = DOMAIN NoFields \cup {"validationcode"}
          BY DEF Put
        <5>. QED
          BY <4>1, <4>2, <4>3, <5>1, NodePut
      <4>5. \/ checked = NoFields
            \/ checked = Put(NoFields, {"validationcode"}, "code")
            \/ checked = Put(NoFields, {"validationcode"}, "none")
        BY DEF addClientCertificateValidationResult
      <4>. HIDE DEF checked
      <4>. QED
        BY <4>1, <4>2, <4>3, <4>4, <4>5
    <3>4. "validationcode" \notin DOMAIN CertificateId
      BY DEF CertificateId
    <3>5. \A id, i : i \in with(id) <=> i \in 1..n /\ elements[i].id = id
      BY <3>1
    <3>6. CASE PartnerInfo(failed) = <<>>
      <4>. HIDE DEF elements, n, with, checked
      <4>1. <<>> \in Seq([id : Nat, text : STRING]) /\ Len(<<>>) = 0
        BY EmptySeq
      <4>2. ShowsFirst(<<>>, 0, checked, nodes.client)
        BY <3>2, <3>3, <3>6, <4>1, CertificateShown
      <4>3. \A k \in 1..0 : FALSE
        OBVIOUS
      <4>4. DOMAIN nodes.client = DOMAIN checked
        BY <4>2, <4>3 DEF ShowsFirst
      <4>5. shown = {}
        BY <3>3, <4>4
      <4>. QED
        BY <4>5 DEF elements, with
    <3>7. CASE /\ PartnerInfo(failed) = elements
               /\ LastSaid("il_setTlsClientCertEnabled", "value", 0) = 1
      <4>. HIDE DEF elements, n, with, checked, shown
      <4>1. ShowsFirst(elements, n, checked, nodes.client)
        BY <3>1, <3>2, <3>3, <3>7, CertificateShown DEF n
      <4>2. shown = {key \in DOMAIN CertificateId : with(CertificateId[key]) # {}}
        <5>1. \A key : with(CertificateId[key]) # {} <=>
                         \E k \in 1..n : elements[k].id = CertificateId[key]
          BY <3>5
        <5>. QED
          BY <3>3, <3>4, <4>1, <5>1 DEF ShowsFirst, shown
      <4>3. ASSUME NEW key \in shown, last(key) # Unconvertible
            PROVE  nodes.client[key] = Cut(last(key))
        <5>. DEFINE I == with(CertificateId[key])
        <5>1. I # {} /\ I \subseteq 1..n
          BY <3>5, <4>2, <4>3
        <5>2. Max(I) \in I /\ \A j \in I : j <= Max(I)
          BY <3>1, <5>1, GreatestIndex
        <5>3. /\ Max(I) \in 1..n /\ elements[Max(I)].id = CertificateId[key]
              /\ \A j \in 1..n : elements[j].id = elements[Max(I)].id => j <= Max(I)
          BY <3>5, <5>2
        <5>4. key \in certInfoKey(elements[Max(I)].id)
          BY <4>2, <4>3, <5>3 DEF certInfoKey
        <5>. HIDE DEF I
        <5>5. elements[Max(I)].text = last(key)
          BY DEF I
        <5>. QED
          BY <4>1, <4>3, <5>3, <5>4, <5>5 DEF ShowsFirst
      <4>. QED
        BY <3>7, <4>2, <4>3 DEF elements, with, shown
    <3>. QED
      BY <3>a, <3>6, <3>7
  <2>. QED
    BY <2>2, <2>3 DEF CertificateAsPresented
<1>. QED
  BY <1>1, ConfigInvariant, PTL
=============================================================================
