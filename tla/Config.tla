------------------------------- MODULE Config -------------------------------
(***************************************************************************)
(* Reading a configuration file (lib/config.js, lib/broker.js,             *)
(* lib/util.js).  A file is a sequence of lines: section headers, entries, *)
(* and fillers (blank lines and comments).  The value of an entry is the   *)
(* sequence of its elements between semicolons, <<>> for a line without an *)
(* '='.  Of an element only its text and what parseInt() makes of it count *)
(* (0 when that is NaN: neither is a port).                                *)
(***************************************************************************)
EXTENDS Integers, SequencesExt, PartialMap

CONSTANT ReadableFiles  \* texts that name a file which can be read

Header(name) == [type |-> "header", name |-> name]
Entry(key, value) == [type |-> "entry", key |-> key, value |-> value]
Filler(text) == [type |-> "filler", text |-> text]

Text(text) == <<[text |-> text, int |-> 0]>>

(* util.getConfigFileAsObject(): section |-> key |-> value.  A section that *)
(* is opened again goes on, a key that comes again replaces its value.      *)
ParseLine(acc, line) ==
    CASE line.type = "header" ->
           [in |-> line.name,
            config |-> IF line.name \in DOMAIN acc.config THEN acc.config
                       ELSE Put(acc.config, line.name, EmptyMap)]
      [] line.type = "entry" ->
           [acc EXCEPT !.config =
              Put(@, acc.in, Put(@[acc.in], line.key, line.value))]
      [] line.type = "filler" -> acc

GetConfigFileAsObject(lines) ==
    FoldLeft(ParseLine, [in |-> "", config |-> [s \in {""} |-> EmptyMap]],
             lines).config

(* getSetting(): there is such a section, and such a setting in it. *)
HasSetting(config, section, setting) ==
    section \in DOMAIN config /\ setting \in DOMAIN config[section]

(* getSetting() with readFromFile *)
HasFile(config, section, setting) ==
    /\ HasSetting(config, section, setting)
    /\ config[section][setting] # <<>>
    /\ config[section][setting][1].text \in ReadableFiles

(* A slip to tell apart: the last port is refused. *)
IsPort_Exclusive(element) == element.int \in 1..65534

(* util.toPortNumber() returns and does not throw. *)
IsPort(element) == element.int \in 1..65535

(* What cannot be a port is the id of the broker. *)
PortPosition(value) == IF IsPort(value[1]) THEN 1 ELSE 2

WellFormedBroker(value) ==
    Len(value) >= 2 /\ IsPort(value[PortPosition(value)])

(* parseBrokerString() for one entry, and the constructor of Broker *)
ParseBroker(value) ==
    LET at == PortPosition(value)
    IN  [uniqueId |-> IF at = 1 THEN "null" ELSE value[1].text,
         port |-> value[at].int,
         hosts |-> SubSeq(value, at + 1, Len(value))]

BrokersFine(config, section) ==
    section \in DOMAIN config =>
        \A key \in DOMAIN config[section] :
            WellFormedBroker(config[section][key])

Brokers(config, section) ==
    IF section \notin DOMAIN config THEN {}
    ELSE {ParseBroker(config[section][key]) : key \in DOMAIN config[section]}

(* A setting that counts where its value is tested for being true: an empty *)
(* one does not, nor does a word of which the ini parser makes false or null. *)
IsTruthy(config, section, setting) ==
    /\ HasSetting(config, section, setting)
    /\ config[section][setting] \notin {Text(""), Text("false"), Text("null")}

(* Without an address there is no proxy; the port is required with one, and *)
(* the password with a user.                                                *)
ProxyFine(config) ==
    IsTruthy(config, "Proxy", "Address") =>
        /\ HasSetting(config, "Proxy", "Port")
        /\ config["Proxy"]["Port"] # <<>> /\ IsPort(config["Proxy"]["Port"][1])
        /\ IsTruthy(config, "Proxy", "User") =>
             HasSetting(config, "Proxy", "Password")

(* createDxlConfigFromFile() throws for want of these, whatever the brokers. *)
SettingsFine(config) ==
    /\ \A setting \in {"BrokerCertChain", "CertFile", "PrivateKey"} :
          HasFile(config, "Certs", setting)
    /\ ProxyFine(config)

Loads(config) ==
    /\ SettingsFine(config)
    /\ BrokersFine(config, "Brokers")
    /\ BrokersFine(config, "BrokersWebSockets")

(* Asked for in any case of letters, or by a line without a value; else     *)
(* only where there is no other broker.                                     *)
UseWebSockets(config) ==
    \/ /\ HasSetting(config, "General", "UseWebSockets")
       /\ config["General"]["UseWebSockets"] \in {<<>>, Text("true")}
    \/ /\ Brokers(config, "BrokersWebSockets") # {}
       /\ Brokers(config, "Brokers") = {}

(* The Config object of a file that loads, by what the client connects with. *)
CreateDxlConfigFromFile(config) ==
    [brokers |-> IF UseWebSockets(config)
                   THEN Brokers(config, "BrokersWebSockets")
                   ELSE Brokers(config, "Brokers"),
     useWebSockets |-> UseWebSockets(config),
     proxy |-> IsTruthy(config, "Proxy", "Address")]

(* A slip to tell apart: an address is looked for by its host alone. *)
Servers_ByHost(brokers) ==
    FoldLeft(LAMBDA result, broker :
               FoldLeft(LAMBDA servers, host :
                          IF \E s \in Range(servers) : s.host = host.text
                            THEN servers
                            ELSE Append(servers, [host |-> host.text,
                                                  port |-> broker.port]),
                        result, broker.hosts),
             <<>>, brokers)

(* The constructor of Client: the addresses of the brokers, each of them    *)
(* once, in order.                                                          *)
Servers(brokers) ==
    FoldLeft(LAMBDA result, broker :
               FoldLeft(LAMBDA servers, host :
                          LET server == [host |-> host.text, port |-> broker.port]
                          IN  IF Contains(servers, server) THEN servers
                              ELSE Append(servers, server),
                        result, broker.hosts),
             <<>>, brokers)

(* The 'connect' event looks for the broker the address belongs to: the     *)
(* first that has it.                                                       *)
Serves(broker, server) ==
    /\ broker.port = server.port
    /\ \E host \in Range(broker.hosts) : host.text = server.host
BrokerOf(brokers, server) ==
    SelectInSeq(brokers, LAMBDA broker : Serves(broker, server))
=============================================================================
