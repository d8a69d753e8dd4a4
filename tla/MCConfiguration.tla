-------------------------- MODULE MCConfiguration --------------------------
(* Small instances of Configuration for TLC.                               *)
EXTENDS Configuration

Program(protocol, newer, worker) ==
  [protocol |-> protocol, interface |-> [name |-> "*ANY", numeric |-> FALSE], port |-> 8080,
   certificateFile |-> NoText, certificatePassword |-> NoText, isWorker |-> worker,
   tlsServerCertEnabled |-> 0, tlsClientCertEnabled |-> newer, clientAuthMode |-> newer,
   tlsLaxMode |-> newer, pluginPreRequest |-> <<>>, pluginPostResponse |-> <<>>,
   scheduler |-> "null", schedulerTimer |-> 0]
SomePrograms == {Program("HTTP", 0, 0), Program("DEFAULT", blank, blank),
                 Program("FASTCGI", 0, zero), Program("other", 0, 0)}

SomeEnvironments ==
  {[x \in {} |-> 0], [I_PROTOCOL |-> "HTTPS", I_PORT |-> 443],
   [I_PROTOCOL |-> "typo", I_CERTIFICATE |-> "env.kdb",
    I_INTERFACE |-> [name |-> "127.0.0.1", numeric |-> TRUE]],
   [I_CERTIFICATE_PASSWORD |-> "envpw", I_ISWORKER |-> "true"]}

Set(call, value) == [call |-> call, value |-> value]
SomeSettings ==
  {[call |-> "il_setKeyfile", parms |-> 3, path |-> "a.kdb", password |-> "pw"],
   [call |-> "il_setKeyfile", parms |-> 2, path |-> "b.kdb"],
   Set("il_setTlsServerCertEnabled", 1), Set("il_setTlsClientCertEnabled", 1),
   Set("il_setClientAuthMode", REQUIRED), Set("il_setClientAuthMode", PASSTHRU),
   Set("il_setTlsLaxMode", 1), Set("il_setTlsLaxMode", 0),
   [call |-> "il_setSchedulerPlugin", plugin |-> "s", timerSec |-> 5],
   [call |-> "il_addPlugin", plugin |-> "p", type |-> 1],
   [call |-> "il_addPlugin", plugin |-> "q", type |-> 3],
   [call |-> "il_addPlugin", plugin |-> "r", type |-> 2]}

Element(id, text) == [id |-> id, text |-> text]
SomeCertificates == {<<Element(615, "ou1"), Element(610, "cn"), Element(615, "ou2")>>,
                     <<Element(610, "cn"), Element(999, "other"), Element(659, Unconvertible)>>,
                     <<Element(601, TooLong), Element(610, Unconvertible)>>}
OwnCertificate == <<Element(610, "server")>>
=============================================================================
