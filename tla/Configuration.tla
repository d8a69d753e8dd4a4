--------------------------- MODULE Configuration ---------------------------
(***************************************************************************)
(* From what a program says of its configuration to a connection that is   *)
(* served with it: the setters of api.c, and of ileastic.c the environment *)
(* variables, the transport, the GSKit environment and session, and what a *)
(* request shows of the certificates.  Every call of GSKit may fail.  The  *)
(* loop of il_listen is here as it bears on this; Server has the rest.     *)
(***************************************************************************)
EXTENDS Naturals, FiniteSets, SequencesExt

CONSTANTS
  Programs,       \* the CONFIG a program begins with
  Environments,   \* the environment variables of the job, by name
  Settings,       \* the calls it may make, with their arguments
  Certificates,   \* what clients present, sequences of [id, text]
  ServerCertificate,
  None,           \* no certificate
  MaxSettings,    \* bound: calls before il_listen
  MaxHandles,     \* bound: GSKit environments opened
  MaxFailures     \* bound: calls of GSKit that fail in one attempt

ASSUME ConfigurationAssumption ==
  /\ Certificates \subseteq Seq([id : Nat, text : STRING]) /\ None \notin Certificates
  /\ {MaxSettings, MaxHandles, MaxFailures} \subseteq Nat

ConfigFields ==
  {"protocol", "interface", "port", "certificateFile", "certificatePassword", "isWorker",
   "tlsServerCertEnabled", "tlsClientCertEnabled", "clientAuthMode", "tlsLaxMode",
   "pluginPreRequest", "pluginPostResponse", "scheduler", "schedulerTimer"}

(* The CONFIG is initialised, as il_config is, or has blanks in the fields *)
(* that the program does not know; what is private in it is the server's.  *)
ASSUME ProgramsAssumption ==
  \A p \in Programs :
    /\ ConfigFields \subseteq DOMAIN p
    /\ p.certificateFile = "" /\ p.certificatePassword = ""
    /\ p.clientAuthMode \notin 1..2 /\ p.tlsLaxMode # 1 /\ p.tlsClientCertEnabled # 1
    /\ p.pluginPreRequest = <<>> /\ p.pluginPostResponse = <<>>

(* The arguments of the calls; a mode is one that CLIENT_AUTH_MODE names.  *)
ASSUME SettingsAssumption ==
  \A s \in Settings :
    /\ s.call = "il_setKeyfile" =>
         "path" \in DOMAIN s /\ ("password" \in DOMAIN s <=> s.parms >= 3)
    /\ s.call = "il_setClientAuthMode" => "value" \in DOMAIN s /\ s.value \in 0..2
    /\ s.call \in {"il_setTlsLaxMode", "il_setTlsServerCertEnabled",
                   "il_setTlsClientCertEnabled"} => "value" \in DOMAIN s

VARIABLES
  config,         \* CONFIG
  environment,    \* chosen once, in Environments
  phase,          \* where il_listen, or the thread it started, is
  receiveHeader,  \* the callback
  bound,          \* port and address of the listening socket
  handles,        \* GSKit environments, none of which is ever closed
  envHandle,      \* index of that of the config, 0 before the first
  session,        \* the TLS session of the connection
  nodes,          \* /ileastic/certificate of the request
  said            \* history: the calls made

gskVars == <<handles, envHandle>>
vars == <<config, environment, phase, receiveHeader, bound, gskVars, session, nodes, said>>

blank == 64       \* X'40', in a program compiled before the field was there
zero  == 240      \* X'F0', the *OFF of an indicator
NoText == ""

-----------------------------------------------------------------------------
(* The calls before il_listen.                                             *)

(* The password stays as it was when it is not passed. *)
il_setKeyfile(s) ==
  /\ s.call = "il_setKeyfile"
  /\ config' = [config EXCEPT !.certificateFile = s.path,
                              !.certificatePassword = IF s.parms >= 3 THEN s.password ELSE @]

Field == [il_setTlsServerCertEnabled |-> "tlsServerCertEnabled",
          il_setTlsClientCertEnabled |-> "tlsClientCertEnabled",
          il_setClientAuthMode |-> "clientAuthMode"]
il_setTlsField(s) ==
  /\ s.call \in DOMAIN Field
  /\ config' = [config EXCEPT ![Field[s.call]] = s.value]

il_setTlsLaxMode(s) ==
  /\ s.call = "il_setTlsLaxMode"
  /\ config' = [config EXCEPT !.tlsLaxMode = IF s.value = 0 THEN 0 ELSE 1]

il_setSchedulerPlugin(s) ==
  /\ s.call = "il_setSchedulerPlugin"
  /\ config' = [config EXCEPT !.scheduler = s.plugin, !.schedulerTimer = s.timerSec]

IL_PREREQUEST(type)   == type % 2 = 1
IL_POSTRESPONSE(type) == (type \div 2) % 2 = 1

il_addPlugin(s) ==
  /\ s.call = "il_addPlugin"
  /\ config' = [config EXCEPT
       !.pluginPreRequest = IF IL_PREREQUEST(s.type) THEN Append(@, s.plugin) ELSE @,
       !.pluginPostResponse = IF IL_POSTRESPONSE(s.type) THEN Append(@, s.plugin) ELSE @]

Configure ==
  /\ phase = "configure"
  /\ Len(said) < MaxSettings
  /\ \E s \in Settings :
       /\ \/ il_setKeyfile(s) \/ il_setTlsField(s) \/ il_setTlsLaxMode(s)
          \/ il_setSchedulerPlugin(s) \/ il_addPlugin(s)
       /\ said' = Append(said, s)
  /\ UNCHANGED <<environment, phase, receiveHeader, bound, gskVars, session, nodes>>

-----------------------------------------------------------------------------
(* il_listen before its loop.                                              *)

getenv(name, otherwise) ==
  IF name \in DOMAIN environment THEN environment[name] ELSE otherwise

FastCGI   == {"FASTCGI", "SECFASTCGI"}
Protocols == {"HTTP", "HTTPS"} \cup FastCGI

(* A protocol that is none of the four is passed over. *)
loadConfigFromEnvironment(c) ==
  [c EXCEPT
     !.interface = getenv("I_INTERFACE", @), !.port = getenv("I_PORT", @),
     !.protocol = IF getenv("I_PROTOCOL", @) \in Protocols THEN getenv("I_PROTOCOL", @) ELSE @,
     !.certificateFile = getenv("I_CERTIFICATE", @),
     !.certificatePassword = getenv("I_CERTIFICATE_PASSWORD", @),
     !.isWorker = IF "I_ISWORKER" \in DOMAIN environment THEN 1 ELSE @]

Callback(protocol) ==
  CASE protocol \in {"DEFAULT", "HTTP", "HTTPS"} -> "receiveHeaderHTTP"
    [] protocol \in FastCGI -> "fcgiReceiveHeader"
    [] OTHER -> "none"

(* An invalid protocol ends the process. *)
setCallbacks(protocol, next) ==
  /\ receiveHeader' = Callback(protocol)
  /\ phase' = IF Callback(protocol) = "none" THEN "exited" ELSE next

(* A worker begins without a socket; a blank or *OFF is not one. *)
il_listen ==
  /\ phase = "configure"
  /\ config' = [loadConfigFromEnvironment(config) EXCEPT
                   !.isWorker = IF @ \in {blank, zero} THEN 0 ELSE @]
  /\ setCallbacks(config'.protocol,
                  IF config'.isWorker = 0 THEN "getSocket"
                  ELSE IF config'.protocol \in FastCGI THEN "accepted" ELSE "accept")
  /\ UNCHANGED <<environment, bound, gskVars, session, nodes, said>>

-----------------------------------------------------------------------------
(* The GSKit environment and the listening socket.                         *)

isSecure == config.certificateFile # NoText

GskCalls == {"open", "GSK_KEYRING_FILE", "GSK_KEYRING_PW", "TLSV1", "TLSV11", "TLSV12",
             "TLSV13", "init"}
Failures(C) == {f \in SUBSET C : Cardinality(f) <= MaxFailures}

(* Mutant: any value but 0 enables the lax mode. *)
LaxOfOldProgram == {p \in {"TLSV1", "TLSV11"} : config.tlsLaxMode # 0}
Lax == {p \in {"TLSV1", "TLSV11"} : config.tlsLaxMode = 1}

(* The environment goes on without TLS 1.0, 1.1 and 1.3, not without the   *)
(* rest.  One that was opened stays open, also if it is not ready.         *)
Ready(failed) ==
  failed \cap ({"open", "GSK_KEYRING_FILE", "TLSV12", "init"} \cup
               {c \in {"GSK_KEYRING_PW"} : config.certificatePassword # NoText}) = {}

setupGskitEnvironment(failed) ==
  IF "open" \in failed THEN UNCHANGED gskVars
  ELSE /\ handles' = Append(handles,
            [ready |-> Ready(failed), keyring |-> config.certificateFile,
             password |-> config.certificatePassword,
             protocols |-> {"TLSV12"} \cup (({"TLSV13"} \cup Lax) \ failed)])
       /\ envHandle' = Len(handles) + 1

Address(interface) == IF interface.numeric THEN interface.name ELSE "INADDR_ANY"

(* If it fails, at GSKit or at a call for the socket, il_listen sleeps and *)
(* calls it again.  FastCGI is served at once, by the same thread.         *)
getSocket ==
  /\ phase = "getSocket"
  /\ \E failed \in IF isSecure THEN Failures(GskCalls) ELSE {{}}, socket \in BOOLEAN :
       /\ IF isSecure
          THEN Len(handles) < MaxHandles /\ setupGskitEnvironment(failed)
          ELSE UNCHANGED gskVars
       /\ IF Ready(failed) /\ socket
          THEN /\ bound' = <<config.port, Address(config.interface)>>
               /\ phase' = IF config.protocol \in FastCGI THEN "accepted" ELSE "accept"
          ELSE UNCHANGED <<bound, phase>>
  /\ UNCHANGED <<config, environment, receiveHeader, session, nodes, said>>

-----------------------------------------------------------------------------
(* One connection after another.                                           *)

REQUIRED == 1
PASSTHRU == 2

clientAuthMode == IF config.clientAuthMode \in {REQUIRED, PASSTHRU}
                  THEN config.clientAuthMode ELSE 0
tlsClientCertEnabled == config.tlsClientCertEnabled = 1

NoSession == [handle |-> 0, type |-> "none", auth |-> "none", client |-> None]

(* External: whether a handshake succeeds.  A client is asked for its      *)
(* certificate only in a session with client authentication, and may come  *)
(* without one unless the type is REQUIRED (the default is the type FULL,  *)
(* which validates a certificate if there is one).                         *)
Admitted(auth, client) == auth = "REQUIRED" => client # None

AuthType(mode) == CASE mode = REQUIRED -> "REQUIRED"
                    [] mode = PASSTHRU -> "PASSTHRU"
                    [] OTHER -> "default"

(* The result of setting GSK_CLIENT_AUTH_TYPE is not looked at: when it is *)
(* refused, GSKit's own type stays.                                        *)
SessionWith(client, failed) ==
  [handle |-> envHandle,
   type |-> IF clientAuthMode = 0 THEN "GSK_SERVER_SESSION" ELSE "GSK_SERVER_SESSION_WITH_CL_AUTH",
   auth |-> IF "auth" \in failed THEN "default" ELSE AuthType(clientAuthMode),
   client |-> IF clientAuthMode = 0 THEN None ELSE client]

(* accept, or read in a worker, and setupSecureSocket.  A worker has no    *)
(* GSKit environment: it comes back here for ever.                         *)
accept ==
  /\ phase = "accept"
  /\ IF isSecure
     THEN \E client \in Certificates \cup {None}, failed \in Failures({"auth", "other"}) :
            LET new == SessionWith(client, failed) IN
            /\ envHandle # 0 /\ "other" \notin failed /\ Admitted(new.auth, client)
            /\ session' = new
     ELSE session' = NoSession
  /\ phase' = "accepted"
  /\ UNCHANGED <<config, environment, receiveHeader, bound, gskVars, nodes, said>>

setupSecureSocketFails ==
  /\ phase = "accept" /\ isSecure
  /\ UNCHANGED vars

acceptFails ==
  /\ phase = "accept" /\ config.isWorker = 0
  /\ phase' = "getSocket"
  /\ UNCHANGED <<config, environment, receiveHeader, bound, gskVars, session, nodes, said>>

(* The fields of a certificate, and the ids of the elements that go there. *)
CertificateId ==
  [body_base64 |-> 601, serial_number |-> 602, common_name |-> 610,
   locality |-> 611, state_or_province |-> 612, country |-> 613, org |-> 614,
   org_unit |-> 615, dn_printable |-> 616, postal_code |-> 618, email |-> 619,
   issuer_common_name |-> 650, issuer_locality |-> 651,
   issuer_state_or_province |-> 652, issuer_country |-> 653,
   issuer_org |-> 654, issuer_org_unit |-> 655, issuer_dn_printable |-> 656,
   issuer_postal_code |-> 658, issuer_email |-> 659, version |-> 660,
   signature_algorithm |-> 661, valid_from |-> 662, valid_to |-> 663,
   public_key_algorithm |-> 664, public_key |-> 665, public_key_size |-> 666,
   fingerprint_algorithm |-> 667, fingerprint |-> 668, issuer_uniqueid |-> 669,
   subject_uniqueid |-> 670, key_usage |-> 671,
   subject_alternative_name_rfc822name |-> 672,
   subject_alternative_name_dnsname |-> 673,
   subject_alternative_name_directoryname |-> 674,
   subject_alternative_name_uri |-> 675,
   subject_alternative_name_ipaddress |-> 676,
   certificate_policy_policyidentifier |-> 677, basic_constraints_ca |-> 678,
   basic_constraints_path_length_constraint |-> 679,
   crl_distribution_points_distributionpointname |-> 680,
   valid_from_ex |-> 681, valid_to_ex |-> 682, fingerprint_sha1 |-> 683,
   fingerprint_sha256 |-> 684, extendedkeyusage_identifier |-> 685,
   aia_access_location |-> 688]
certInfoKey(id) == {key \in DOMAIN CertificateId : CertificateId[key] = id}

NoFields == [k \in {} |-> NoText]
Put(node, keys, text) ==
  [k \in DOMAIN node \cup keys |-> IF k \in keys THEN text ELSE node[k]]

(* External: the conversion of an element fails.  A text of more than 1023 *)
(* bytes, as that of a whole certificate is, stands for all of these.      *)
Unconvertible == "unconvertible"
TooLong       == "too long"
FirstBytes    == "the first 1023 bytes"
Cut(text) == IF text = TooLong THEN FirstBytes ELSE text

(* One buffer takes the text of each element.  The -1 of a conversion that *)
(* fails is taken for a length beyond the buffer, which keeps the text of  *)
(* the element before, or what was on the stack.                           *)
Convert(e, buffer) == IF e.text = Unconvertible THEN buffer ELSE Cut(e.text)
OnStack == "stack"

(* Mutant: the key is not reset for the next element. *)
addCertificateDetailsKeepsKey(elements, node) ==
  LET after[i \in 0..Len(elements)] ==
        IF i = 0 THEN [keys |-> {}, buffer |-> OnStack, node |-> node]
        ELSE LET id   == elements[i].id
                 text == Convert(elements[i], after[i - 1].buffer)
                 keys == IF certInfoKey(id) # {} THEN certInfoKey(id) ELSE after[i - 1].keys
             IN [keys |-> keys, buffer |-> text, node |-> Put(after[i - 1].node, keys, text)]
  IN after[Len(elements)].node

(* The fields of the elements are put into the node, one after the other:  *)
(* after[i] is what there is after the first i.                            *)
addCertificateDetails(elements, node) ==
  LET after[i \in 0..Len(elements)] ==
        IF i = 0 THEN [buffer |-> OnStack, node |-> node]
        ELSE LET text == Convert(elements[i], after[i - 1].buffer)
             IN [buffer |-> text,
                 node |-> Put(after[i - 1].node, certInfoKey(elements[i].id), text)]
  IN after[Len(elements)].node

(* The validation code; FastCGI has no session to ask. *)
addClientCertificateValidationResult(node, failed) ==
  IF session = NoSession \/ "code" \in failed THEN node
  ELSE Put(node, {"validationcode"}, IF session.client = None THEN "none" ELSE "code")

(* What gsk_attribute_get_cert_info gives of the two certificates; when it *)
(* fails, which is only logged, nothing.                                   *)
LocalInfo(failed) ==
  IF isSecure /\ config.tlsServerCertEnabled # 0 /\ "local" \notin failed
  THEN ServerCertificate ELSE <<>>
PartnerInfo(failed) ==
  IF isSecure /\ clientAuthMode # 0 /\ tlsClientCertEnabled /\ session.client # None
     /\ "partner" \notin failed
  THEN session.client ELSE <<>>

(* A node that was not made is not there. *)
NoNodes == [k \in {} |-> NoFields]
ClientNode(failed) ==
  addCertificateDetails(PartnerInfo(failed),
                        addClientCertificateValidationResult(NoFields, failed))

CertificateNodes(failed) ==
  LET server == IF isSecure /\ config.tlsServerCertEnabled # 0
                THEN Put(NoNodes, {"server"},
                         addCertificateDetails(LocalInfo(failed), NoFields))
                ELSE NoNodes
  IN IF isSecure /\ clientAuthMode # 0
     THEN Put(server, {"client"}, ClientNode(failed)) ELSE server

CertCalls == {"local", "code", "partner"}

(* serverThread makes the nodes of the certificates. *)
serverThread ==
  /\ phase = "accepted"
  /\ phase' = "serving"
  /\ \E failed \in Failures(CertCalls) : nodes' = CertificateNodes(failed)
  /\ UNCHANGED <<config, environment, receiveHeader, bound, gskVars, session, said>>

HasLongText(elements) == \E i \in DOMAIN elements : elements[i].text = TooLong

(* A worker and FastCGI end with the thread. *)
AfterConnection ==
  IF config.protocol \in FastCGI \/ config.isWorker # 0 THEN "ended" ELSE "accept"

(* A text of more than 1024 bytes is converted past the end of the buffer, *)
(* over the stack of the thread, which may not survive that.               *)
serverThreadDies ==
  /\ phase = "accepted"
  /\ HasLongText(LocalInfo({})) \/ HasLongText(PartnerInfo({}))
  /\ phase' = AfterConnection
  /\ session' = NoSession /\ nodes' = NoNodes
  /\ UNCHANGED <<config, environment, receiveHeader, bound, gskVars, said>>

(* The thread is on its own; a worker and FastCGI end here. *)
Continue ==
  /\ phase = "serving"
  /\ phase' = AfterConnection
  /\ session' = NoSession /\ nodes' = NoNodes
  /\ UNCHANGED <<config, environment, receiveHeader, bound, gskVars, said>>

(* Ended, or at the bound of the handles. *)
Stopped ==
  /\ \/ phase \in {"exited", "ended"}
     \/ phase = "getSocket" /\ isSecure /\ Len(handles) >= MaxHandles
  /\ UNCHANGED vars

Init ==
  /\ config \in Programs
  /\ environment \in Environments
  /\ phase = "configure" /\ receiveHeader = "none"
  /\ bound = <<>> /\ handles = <<>> /\ envHandle = 0
  /\ session = NoSession /\ nodes = NoNodes
  /\ said = <<>>

Next == \/ Configure \/ il_listen \/ getSocket \/ accept \/ setupSecureSocketFails
        \/ acceptFails \/ serverThread \/ serverThreadDies \/ Continue \/ Stopped

Spec == Init /\ [][Next]_vars

-----------------------------------------------------------------------------
(* Properties.                                                             *)

(* The last call of that name with that argument, else what was there. *)
LastSaid(call, argument, otherwise) ==
  LET k == SelectLastInSeq(said, LAMBDA s : s.call = call /\ argument \in DOMAIN s)
  IN IF k = 0 THEN otherwise ELSE said[k][argument]

File     == getenv("I_CERTIFICATE", LastSaid("il_setKeyfile", "path", NoText))
Password == getenv("I_CERTIFICATE_PASSWORD", LastSaid("il_setKeyfile", "password", NoText))
Mode     == LastSaid("il_setClientAuthMode", "value", 0)

PluginCalls(Wanted(_)) ==
  {i \in DOMAIN said : said[i].call = "il_addPlugin" /\ Wanted(said[i].type)}

(* The plugins of those calls, in their order. *)
InOrder(plugins, calls) ==
  /\ Len(plugins) = Cardinality(calls)
  /\ \A i \in calls : plugins[Cardinality({j \in calls : j <= i})] = said[i].plugin

(* A connection is served with what the environment says, or the program   *)
(* said last: the plugins in their order, port and transport of the        *)
(* environment, the key file with its password, TLS 1.2, the older         *)
(* protocols only if it enabled them, and client authentication if it      *)
(* asked for it, of the type it asked for or, when GSKit refuses that, of  *)
(* its default type: however often the environment of GSKit was set up     *)
(* again in between and whatever an old program has in the newer fields.   *)
ServedAsConfigured ==
  phase \in {"accepted", "serving"} =>
    /\ InOrder(config.pluginPreRequest, PluginCalls(IL_PREREQUEST))
    /\ InOrder(config.pluginPostResponse, PluginCalls(IL_POSTRESPONSE))
    /\ getenv("I_PROTOCOL", "") \in Protocols =>
         receiveHeader = Callback(getenv("I_PROTOCOL", ""))
    /\ config.isWorker = 0 /\ "I_PORT" \in DOMAIN environment =>
         bound[1] = environment["I_PORT"]
    /\ File = NoText => session = NoSession
    /\ File # NoText /\ receiveHeader = "receiveHeaderHTTP" =>
         LET gsk == handles[session.handle] IN
         /\ gsk.ready
         /\ gsk.keyring = File /\ gsk.password = Password
         /\ "TLSV12" \in gsk.protocols
         /\ gsk.protocols \cap {"TLSV1", "TLSV11"} # {} =>
              LastSaid("il_setTlsLaxMode", "value", 0) # 0
         /\ session.type = "GSK_SERVER_SESSION" <=> Mode = 0
         /\ session.auth \in {AuthType(Mode), "default"}

(* What headers/ileastic.rpgle:1140-1141 says: with the mode REQUIRED "the *)
(* client must provide a valid client certificate to establish a TLS       *)
(* connection".                                                            *)
ClientCertificateRequired ==
  phase = "serving" /\ File # NoText /\ receiveHeader = "receiveHeaderHTTP" =>
    (Mode = REQUIRED => session.client # None)

(* The nodes are there when asked for.  Of the certificate the client's    *)
(* node shows nothing, when GSKit would not give it or the program did not *)
(* ask, or all: a field for each element that has one, with the text of    *)
(* the last such element, cut to the buffer, if it could be converted.  An *)
(* element without a field leaves no trace.                                *)
CertificateAsPresented ==
  phase = "serving" /\ File # NoText =>
    /\ Mode # 0 <=> "client" \in DOMAIN nodes
    /\ LastSaid("il_setTlsServerCertEnabled", "value", 0) = 1 => "server" \in DOMAIN nodes
    /\ Mode # 0 /\ session.client # None =>
         LET elements == session.client
             with(id) == {i \in DOMAIN elements : elements[i].id = id}
             shown == DOMAIN nodes.client \ {"validationcode"}
             last(key) == elements[Max(with(CertificateId[key]))].text
         IN /\ \/ shown = {}
               \/ /\ LastSaid("il_setTlsClientCertEnabled", "value", 0) = 1
                  /\ shown = {key \in DOMAIN CertificateId : with(CertificateId[key]) # {}}
            /\ \A key \in shown :
                 last(key) # Unconvertible => nodes.client[key] = Cut(last(key))
=============================================================================
