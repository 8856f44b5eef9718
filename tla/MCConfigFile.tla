---------------------------- MODULE MCConfigFile ----------------------------
(* Files that begin with the settings and end with up to MaxEdits lines in *)
(* any order, updated at any time.                                          *)
EXTENDS ConfigFile, TLC

MCReadable == {"ca.crt", "client.crt", "client.key"}

Certs == <<Header("Certs"),
           Entry("BrokerCertChain", Text("ca.crt")),
           Entry("CertFile", Text("client.crt")),
           Entry("PrivateKey", Text("client.key"))>>
General(value) == <<Header("General"), Entry("UseWebSockets", value), Blank>>
Proxy(port) == <<Header("Proxy"), Entry("Address", Text("proxy")),
                 Entry("Port", port), Blank>>
NoProxy == <<Header("Proxy"), Entry("Address", Text("")), Blank>>
Number(n) == <<[text |-> ToString(n), int |-> n]>>

Broker(id, port) ==
    Entry(id, Text(id) \o Number(port) \o Text("host") \o Text("10.0.0.1"))
Brokers1 == <<Blank, Header("Brokers"), Broker("{b1}", 8883)>>

(* Files without and with broker sections as provisioning writes them, one *)
(* that asks for WebSockets and a proxy, one whose proxy has no port, one   *)
(* whose proxy is empty, and one without a chain.                           *)
MCHeads == {Certs,
            NoProxy \o Certs \o Brokers1,
            Certs \o Brokers1 \o <<Blank, Header("BrokersWebSockets")>>,
            General(Text("true")) \o Proxy(Number(65535)) \o Certs,
            Proxy(Number(65536)) \o Certs,
            General(<<>>) \o <<Header("Certs")>>}

(* A broker without an id, at an address another one has, and a line without *)
(* a value.                                                                 *)
MCEditLines == {Header("Brokers"), Header("BrokersWebSockets"),
                Header("Other"), Blank,
                Entry("{b2}", Number(8883) \o Text("host")),
                Entry("{b3}", <<>>)}

MCBrokerLists == {<<>>, <<Broker("{b1}", 1), Broker("{b4}", 65535)>>}
=============================================================================
