----------------------------- MODULE ConfigFile -----------------------------
(***************************************************************************)
(* The life of a configuration file: people edit it, and updateConfig()    *)
(* (lib/_provisioning/update-config.js) replaces the bodies of its broker  *)
(* sections line by line, keeping everything else.                         *)
(***************************************************************************)
EXTENDS Config

CONSTANTS
    Heads,        \* files there may be to begin with
    EditLines,    \* lines a person may add
    BrokerLists,  \* brokers the management service may know, as entries
    MaxEdits      \* bound: lines added

(* What can be told of a line is its kind, and of an entry key and value.   *)
IsLine(line) ==
    \/ line.type = "header" /\ line = Header(line.name)
    \/ line.type = "entry" /\ line = Entry(line.key, line.value)
                           /\ line.value \in Seq(Range(line.value))
    \/ line.type = "filler" /\ line = Filler(line.text)

(* No section is opened twice: an update would fill it each time.           *)
OpenedOnce(file) ==
    \A i, j \in DOMAIN file :
        file[i].type = "header" /\ file[i] = file[j] => i = j

ASSUME EditsAssumption ==
    MaxEdits \in Nat /\ \A line \in EditLines : IsLine(line)
ASSUME HeadsAssumption ==
    \A head \in Heads : /\ head \in Seq(Range(head)) /\ OpenedOnce(head)
                        /\ \A line \in Range(head) : IsLine(line)
(* What the management service gives as a port. *)
Ports == 1..65535

(* As createMap() in update-config.js writes them: of every broker, by its  *)
(* id, the id, the port, the name and the address of the host.              *)
ASSUME BrokersAssumption ==
    \A list \in BrokerLists :
        /\ list \in Seq(Range(list))
        /\ \A line \in Range(list) :
             /\ line.type = "entry" /\ IsLine(line) /\ Len(line.value) = 4
             /\ line.value[1].int \notin Ports /\ line.value[2].int \in Ports
        /\ \A i, j \in DOMAIN list : list[i].key = list[j].key => i = j

VARIABLES
    lines,   \* the lines of dxlclient.config
    edits,   \* history: number of lines added
    given,   \* history: the broker lists of the last update
    outcome  \* history: "edited", or how the last update went

vars == <<lines, edits, given, outcome>>

Sections == {"Brokers", "BrokersWebSockets"}
Blank == Filler("")
Failed == <<>>

Init ==
    /\ lines \in Heads
    /\ edits = 0
    /\ given = [s \in Sections |-> <<>>]
    /\ outcome = "edited"

(* Nobody opens a section twice. *)
Edit(line) ==
    /\ edits < MaxEdits
    /\ line.type = "header" => line \notin Range(lines)
    /\ edits' = edits + 1
    /\ lines' = Append(lines, line)
    /\ outcome' = "edited"
    /\ UNCHANGED given

(* A slip to tell apart: comments between entries are kept. *)
Replace_KeepComments(acc, line, section, brokerLines) ==
    IF line = Header(section)
      THEN [acc EXCEPT !.out = Append(@, line), !.inside = TRUE]
    ELSE IF ~acc.inside THEN [acc EXCEPT !.out = Append(@, line)]
    ELSE IF line.type = "filler" THEN [acc EXCEPT !.after = Append(@, line)]
    ELSE IF line.type = "header"
      THEN [acc EXCEPT !.inside = FALSE,
                       !.failed = @ \/ acc.after = <<>>,
                       !.out = @ \o brokerLines \o acc.after \o <<line>>]
    ELSE acc

(* One step of reduce().  Fillers wait until it is known whether a header   *)
(* or an entry follows.  Without any, a header that follows makes the       *)
(* function use newConfigLines before it is initialized, which throws.      *)
Replace(acc, line, section, brokerLines) ==
    IF line = Header(section)
      THEN [acc EXCEPT !.out = Append(@, line), !.inside = TRUE]
    ELSE IF ~acc.inside THEN [acc EXCEPT !.out = Append(@, line)]
    ELSE IF line.type = "filler" THEN [acc EXCEPT !.after = Append(@, line)]
    ELSE IF line.type = "header"
      THEN [acc EXCEPT !.inside = FALSE,
                       !.failed = @ \/ acc.after = <<>>,
                       !.out = @ \o brokerLines \o acc.after \o <<line>>]
    ELSE [acc EXCEPT !.after = <<>>]

(* A slip to tell apart: the fillers at the end of the file are kept too. *)
UpdateBrokerList_KeepEnd(file, brokerLines, section) ==
    LET end == FoldLeft(LAMBDA acc, line :
                          Replace(acc, line, section, brokerLines),
                        [out |-> <<>>, inside |-> FALSE, after |-> <<>>,
                         failed |-> FALSE],
                        file)
    IN  IF end.failed THEN Failed
        ELSE IF end.inside
          THEN end.out \o brokerLines \o end.after \o <<Blank>>
        ELSE end.out

(* updateBrokerListInConfigFile() *)
UpdateBrokerList(file, brokerLines, section) ==
    LET end == FoldLeft(LAMBDA acc, line :
                          Replace(acc, line, section, brokerLines),
                        [out |-> <<>>, inside |-> FALSE, after |-> <<>>,
                         failed |-> FALSE],
                        file)
    IN  IF end.failed THEN Failed
        ELSE IF end.inside THEN end.out \o brokerLines \o <<Blank>>
        ELSE end.out

(* The second list is put into the file the first one left.  A response     *)
(* without a list empties the section.                                      *)
UpdateConfig(brokers, wsBrokers) ==
    LET first == UpdateBrokerList(lines, brokers, "Brokers")
        second == UpdateBrokerList(first, wsBrokers, "BrokersWebSockets")
    IN  /\ HasSetting(GetConfigFileAsObject(lines), "Certs", "BrokerCertChain")
        /\ given' = [s \in Sections |->
                       IF s = "Brokers" THEN brokers ELSE wsBrokers]
        /\ \/ first # Failed /\ second # Failed
                /\ lines' = second /\ outcome' = "updated"
           \/ first # Failed /\ second = Failed
                /\ lines' = first /\ outcome' = "failed"
           \/ first = Failed /\ UNCHANGED lines /\ outcome' = "failed"
        /\ UNCHANGED edits

Next ==
    \/ \E line \in EditLines : Edit(line)
    \/ \E brokers, wsBrokers \in BrokerLists : UpdateConfig(brokers, wsBrokers)

Spec == Init /\ [][Next]_vars

-----------------------------------------------------------------------------
(* Properties *)

(* What an update is to do to one section, said position by position: the   *)
(* brokers go below the header, the old entries go and the fillers with     *)
(* them, except for those just above the next header.                       *)
Headers(file) == {i \in DOMAIN file : file[i].type = "header"}
Owned(file, i, section) ==
    \E h \in Headers(file) :
        h < i /\ file[h] = Header(section) /\ (h + 1)..i \cap Headers(file) = {}
KeptFiller(file, i) ==
    \E h \in Headers(file) :
        i < h /\ \A j \in i..(h - 1) : file[j].type = "filler"
Expected(file, brokerLines, section) ==
    FlattenSeq([i \in DOMAIN file |->
        IF file[i] = Header(section) THEN <<file[i]>> \o brokerLines
        ELSE IF Owned(file, i, section) /\ ~KeptFiller(file, i) THEN <<>>
        ELSE <<file[i]>>])
LastSection(file, section) ==
    \E h \in Headers(file) :
        file[h] = Header(section) /\ \A i \in Headers(file) : i <= h
(* The loop of updateBrokerListInConfigFile() fails or does just that.      *)
ReplacesInv ==
    \A section \in Sections, brokerLines \in BrokerLists :
        LET file == UpdateBrokerList(lines, brokerLines, section)
        IN  file \in {Failed,
                      Expected(lines, brokerLines, section)
                        \o IF LastSection(lines, section)
                             THEN <<Blank>> ELSE <<>>}

(* An update that is repeated changes nothing the second time, and one that *)
(* succeeded once does not fail the second time.                            *)
IdempotentInv ==
    \A section \in Sections, brokerLines \in BrokerLists :
        LET file == UpdateBrokerList(lines, brokerLines, section)
        IN  file # Failed =>
              UpdateBrokerList(file, brokerLines, section) = file

(* What updateConfig() wrote is what createDxlConfigFromFile() reads: the   *)
(* brokers of the service where there is a section for them, in a file that *)
(* loads unless something else is wrong with it.                            *)
RoundTripInv ==
    outcome = "updated" =>
        LET config == GetConfigFileAsObject(lines)
        IN  /\ SettingsFine(config) => Loads(config)
            /\ \A s \in Sections \cap DOMAIN config :
                 Brokers(config, s) =
                   {[uniqueId |-> given[s][i].value[1].text,
                     port |-> given[s][i].value[2].int,
                     hosts |-> SubSeq(given[s][i].value, 3, 4)] :
                    i \in DOMAIN given[s]}

(* A client tries the brokers there are, in whatever order the file has     *)
(* them: every address of every broker, none twice, and each leads back to  *)
(* a broker that has it.  It has none to try only if the brokers of the     *)
(* file have no hosts, or WebSockets were asked for by name.                *)
ServersInv ==
    LET config == GetConfigFileAsObject(lines)
        read == CreateDxlConfigFromFile(config)
    IN  Loads(config) =>
          /\ read.brokers = {} =>
                \/ \A s \in Sections : Brokers(config, s) = {}
                \/ HasSetting(config, "General", "UseWebSockets")
          /\ \A brokers \in SetToSeqs(read.brokers) :
               LET servers == Servers(brokers)
               IN  /\ IsInjective(servers)
                   /\ \A b \in read.brokers : \A host \in Range(b.hosts) :
                        Contains(servers, [host |-> host.text, port |-> b.port])
                   /\ \A i \in DOMAIN servers :
                        BrokerOf(brokers, servers[i]) # 0

(* update-config.js: the brokers are saved to their section of the file,    *)
(* whose other content is preserved: nothing in the layout of the file      *)
(* prevents it.                                                             *)
AnyLayoutInv == outcome # "failed"
=============================================================================
