---------------------------- MODULE Provisioning ----------------------------
(***************************************************************************)
(* Provisioning a client and updating its configuration                    *)
(* (lib/_provisioning): generatePrivateKeyAndCsr() makes a private key and *)
(* a signing request; provisionConfig() does so, or takes a signing        *)
(* request that is there, has it signed by the management service and      *)
(* stores the answer in three files; updateConfig() asks for the CA        *)
(* certificates, stores them, asks for the brokers, and rewrites two       *)
(* sections of the configuration file.  Calls on one directory may         *)
(* overlap, and processes may be killed at any time; the files stay.  A    *)
(* file is the call that wrote it: what is inside is left out.             *)
(***************************************************************************)
EXTENDS ManagementService, Sequences

CONSTANTS
    Attempts,  \* the calls of the three functions
    Commands,  \* those that may come from the command line
    Absent,    \* a file that was never written
    Torn       \* a file whose write failed half way

ASSUME AttemptsAssumption ==
    {Absent, Torn} \cap Attempts = {} /\ Absent # Torn /\ Commands \subseteq Attempts

(* dxlclient.config by its sections: "certs" stands for all that the       *)
(* broker sections are not.                                                *)
ConfigFile == {"certs", "brokers", "wsBrokers"}
Files == ConfigFile \cup {"key", "csr", "ca", "cert"}

VARIABLES
    files,    \* file |-> the attempt that wrote it, Absent or Torn
    http,     \* attempt |-> its request to the management service
    stage,    \* attempt |-> the command its last request sent
    listens,  \* attempts whose options hold a doneCallback
    alone,    \* attempts that are a process of bin/dxlclient.js
    dead,     \* attempts whose process ended before they did
    signed,   \* attempt |-> who made the signing request it sent, or Absent
    kind,     \* history: attempt |-> what it was called for, or "none"
    told,     \* history: attempt |-> what its doneCallback was given in turn
    late,     \* history: attempt |-> how often LateError invoked it as well
    threw,    \* history: attempts that threw to their caller
    empty,    \* history: attempts told of success that stored nothing
    touched   \* history: attempt |-> others that wrote since it started

vars == <<files, http, stage, listens, alone, dead, signed, kind, told, late,
          threw, empty, touched>>
directory == <<files, touched>>
called == <<listens, alone, signed, kind>>
outcome == <<told, threw, dead>>

Init ==
    /\ files = [f \in Files |-> Absent]
    /\ http = [a \in Attempts |-> Idle]
    /\ stage = [a \in Attempts |-> "none"]
    /\ listens = {} /\ dead = {}
    /\ alone \in SUBSET Commands
    /\ signed = [a \in Attempts |-> Absent]
    /\ kind = [a \in Attempts |-> "none"]
    /\ told = [a \in Attempts |-> <<>>] /\ late = [a \in Attempts |-> 0]
    /\ threw = {}
    /\ empty = {}
    /\ touched = [a \in Attempts |-> {}]

(* What an attempt leaves when it has written some files and the write of   *)
(* another one, if any, failed: the old content, or a torn file.            *)
Save(a, written, torn) ==
    /\ files' = [f \in Files |-> IF f \in written THEN a
                                 ELSE IF f \in torn THEN Torn ELSE files[f]]
    /\ touched' = IF written \cup torn = {} THEN touched
                  ELSE [b \in Attempts |->
                          IF kind[b] = "none" \/ b = a THEN touched[b]
                                              ELSE touched[b] \cup {a}]

(* Files are written one after the other; a write that fails is the last.   *)
SaveAll(a, steps) == Save(a, UNION {steps[i] : i \in 1..Len(steps)}, {})
SaveFails(a, steps) ==
    \E n \in 1..Len(steps) :
        \E torn \in {{}, steps[n]} :
            Save(a, UNION {steps[i] : i \in 1..(n - 1)}, torn)

(* The process of an attempt ends.  Applications may have made more calls   *)
(* in it, which are then over as well.                                      *)
Dies(a) ==
    \E others \in {{}, {b \in Attempts \ alone : http[b].phase # "idle"}} :
        dead' = dead \cup {a} \cup (IF a \in alone THEN {} ELSE others)

Killed(a) == Dies(a) /\ UNCHANGED <<told, threw>>

(* An exception nobody catches: out of the call, or out of the event loop.  *)
Throw(a, inCall) ==
    IF inCall /\ a \notin alone
      THEN threw' = threw \cup {a} /\ UNCHANGED <<told, dead>>
      ELSE Killed(a)

(* invokeCallback(): without a callback an error is logged, and so is the   *)
(* null that stands for success, which throws.  The callback of a command   *)
(* ends its process when it is given an error.                              *)
Tell(a, what, inCall, hears) ==
    IF hears
      THEN /\ told' = [told EXCEPT ![a] = Append(@, what)]
           /\ IF a \in alone /\ what = "error" THEN Dies(a)
                                              ELSE UNCHANGED dead
           /\ UNCHANGED threw
      ELSE IF what = "success" THEN Throw(a, inCall) ELSE UNCHANGED outcome

(* The constructor of ManagementService refuses incomplete host info and    *)
(* request() an unreadable truststore with an exception, a truststore that  *)
(* does not exist with an error; else the request is sent.                  *)
Ask(a, command, inCall, hears) ==
    \/ /\ Throw(a, inCall)
       /\ http' = [http EXCEPT ![a].phase = "idle"]
       /\ UNCHANGED stage
    \/ /\ Tell(a, "error", inCall, hears)
       /\ http' = [http EXCEPT ![a].phase = "idle"]
       /\ UNCHANGED stage
    \/ /\ http' = [http EXCEPT ![a] = HttpGet(@, 0)]
       /\ stage' = [stage EXCEPT ![a] = command]
       /\ UNCHANGED outcome

(* The call is over without a request. *)
Finish(a, what, hears) ==
    /\ Tell(a, what, TRUE, hears)
    /\ UNCHANGED <<http, stage>>

Call(a, how, hears) ==
    /\ a \notin dead
    /\ kind[a] = "none"
    /\ kind' = [kind EXCEPT ![a] = how]
    /\ listens' = IF hears THEN listens \cup {a} ELSE listens

Signs(a, request) == signed' = [signed EXCEPT ![a] = request]

(* The signing request is read back: when that fails the callback is given  *)
(* the error of the step before, which is null.                             *)
Unreadable(a, hears) ==
    /\ Finish(a, "success", hears)
    /\ empty' = empty \cup {a}
    /\ UNCHANGED signed

Generated == <<{"key"}, {"csr"}>>

(* The directory, the temporary file, openssl or chmod fails, before the    *)
(* files are written, between, or after; or the process is killed then.     *)
GenerateFails(a, hears) ==
    /\ SaveFails(a, Generated) \/ SaveAll(a, Generated)
    /\ Finish(a, "error", hears) \/ (Killed(a) /\ UNCHANGED <<http, stage>>)
    /\ UNCHANGED <<empty, signed>>

(* generatePrivateKeyAndCsr() by itself, as the command line calls it. *)
GenerateCsr(a) ==
    /\ Call(a, "generateCsr", TRUE)
    /\ \/ GenerateFails(a, TRUE)
       \/ /\ SaveAll(a, Generated)
          /\ Finish(a, "success", TRUE)
          /\ UNCHANGED <<empty, signed>>

ProvisionGenerate(a, hears) ==
    /\ Call(a, "generate", hears)
    /\ \/ GenerateFails(a, hears)
       \/ SaveAll(a, Generated) /\ Unreadable(a, hears)
       \/ /\ SaveAll(a, Generated)
          /\ Ask(a, "provision", TRUE, hears)
          /\ Signs(a, a)
          /\ UNCHANGED empty

(* A slip to tell apart: the file is used, and a key is generated as well. *)
ProvisionCsrFile_Generates(a, hears) ==
    /\ Call(a, "csrFile", hears)
    /\ Ask(a, "provision", TRUE, hears)
    /\ \E request \in {Absent, files["csr"]} : Signs(a, request)
    /\ SaveAll(a, Generated)
    /\ UNCHANGED empty

(* With a signing request that must be there: one made in this directory,   *)
(* or one from elsewhere.                                                   *)
ProvisionCsrFile(a, hears) ==
    /\ Call(a, "csrFile", hears)
    /\ UNCHANGED directory
    /\ \/ Finish(a, "error", hears) /\ UNCHANGED <<empty, signed>>
       \/ Unreadable(a, hears)
       \/ /\ Ask(a, "provision", TRUE, hears)
          /\ \E request \in {Absent, files["csr"]} : Signs(a, request)
          /\ UNCHANGED empty

(* updateConfig() reads the configuration file first: it must be there and  *)
(* have a BrokerCertChain.                                                  *)
UpdateConfig(a, hears) ==
    /\ Call(a, "update", hears)
    /\ UNCHANGED <<directory, empty, signed>>
    /\ \/ files["certs"] \in {Absent, Torn} /\ Finish(a, "error", hears)
       \/ files["certs"] # Absent /\ Ask(a, "certChain", TRUE, hears)

-----------------------------------------------------------------------------
(* The response callbacks *)

Done(a, request) ==
    /\ http' = [http EXCEPT ![a] = request]
    /\ UNCHANGED stage

(* A slip to tell apart: without an error nobody is told. *)
NoAnswer_Silent(a, result, request) ==
    /\ IF result = "error" THEN Tell(a, "error", FALSE, a \in listens)
                           ELSE UNCHANGED outcome
    /\ empty' = IF result = "void" THEN empty \cup {a} ELSE empty
    /\ Done(a, request)
    /\ UNCHANGED directory

(* An answer that is an error, or none: "success" when it is neither.       *)
NoAnswer(a, result, request) ==
    /\ Done(a, request)
    /\ Tell(a, IF result = "void" THEN "success" ELSE "error", FALSE,
            a \in listens)
    /\ empty' = IF result = "void" THEN empty \cup {a} ELSE empty
    /\ UNCHANGED directory

ProvisionFiles == <<ConfigFile, {"ca"}, {"cert"}>>

(* A slip to tell apart: the certificate is stored first. *)
StoreProvisionConfig_CertFirst(a, result, request) ==
    LET steps == <<{"cert"}, ConfigFile, {"ca"}>>
    IN  /\ \/ /\ result = "good"
              /\ SaveAll(a, steps)
              /\ Tell(a, "success", FALSE, a \in listens)
           \/ /\ result = "good" /\ SaveFails(a, steps)
              /\ Tell(a, "error", FALSE, a \in listens)
           \/ /\ result = "malformed" /\ UNCHANGED directory
              /\ Tell(a, "error", FALSE, a \in listens)
        /\ Done(a, request)
        /\ UNCHANGED empty

(* A slip to tell apart: an exception while storing is swallowed. *)
StoreProvisionConfig_Swallow(a, result, request) ==
    /\ \/ /\ result = "good"
          /\ SaveAll(a, ProvisionFiles) \/ SaveFails(a, ProvisionFiles)
          /\ Tell(a, "success", FALSE, a \in listens)
       \/ /\ result = "malformed" /\ UNCHANGED directory
          /\ Tell(a, "error", FALSE, a \in listens)
    /\ Done(a, request)
    /\ UNCHANGED empty

(* storeProvisionConfig(): the answer is taken apart before anything is     *)
(* stored; whatever throws becomes the error the callback is given.         *)
StoreProvisionConfig(a, result, request) ==
    /\ Done(a, request)
    /\ UNCHANGED empty
    /\ \/ /\ result = "good"
          /\ SaveAll(a, ProvisionFiles)
          /\ Tell(a, "success", FALSE, a \in listens)
       \/ /\ result = "good" /\ SaveFails(a, ProvisionFiles)
          /\ Tell(a, "error", FALSE, a \in listens) \/ Killed(a)
       \/ /\ result = "malformed" /\ UNCHANGED directory
          /\ Tell(a, "error", FALSE, a \in listens)

(* updateBrokerCertChain() is called outside of any try: what it throws,    *)
(* for want of space or because the answer is no string, ends the process.  *)
UpdateBrokerCertChain(a, result, request) ==
    /\ UNCHANGED empty
    /\ \/ /\ result = "good" /\ SaveAll(a, <<{"ca"}>>)
          /\ Ask(a, "brokers", FALSE, a \in listens)
       \/ /\ \/ result = "good" /\ SaveFails(a, <<{"ca"}>>)
             \/ result = "malformed" /\ UNCHANGED directory
          /\ Throw(a, FALSE)
          /\ Done(a, request)

(* updateBrokerListInConfigFile() twice: each reads the file again and      *)
(* writes it as a whole.  A torn file has no section to replace.            *)
UpdateBrokerLists(a, result, request) ==
    LET sections == IF files["certs"] = Torn THEN {}
                                             ELSE {"brokers", "wsBrokers"}
    IN  /\ Done(a, request)
        /\ UNCHANGED empty
        /\ \/ /\ result = "good"
              /\ Save(a, sections, {})
              /\ Tell(a, "success", FALSE, a \in listens)
           \/ /\ result = "good"
              /\ \/ Save(a, sections \ {"wsBrokers"}, {})
                 \/ Save(a, {}, ConfigFile)
                 \/ UNCHANGED directory
              /\ Tell(a, "error", FALSE, a \in listens) \/ Killed(a)
           \/ /\ result = "malformed" /\ UNCHANGED directory
              /\ Tell(a, "error", FALSE, a \in listens)

(* What a handler of the request makes of the attempt. *)
Deliver(a, result, request) ==
    \/ /\ result = "none"
       /\ http' = [http EXCEPT ![a] = request]
       /\ UNCHANGED <<directory, stage, outcome, empty>>
    \/ result \in {"error", "void"} /\ NoAnswer(a, result, request)
    \/ /\ result = "throws" /\ Throw(a, FALSE) /\ Done(a, request)
       /\ UNCHANGED <<directory, empty>>
    \/ /\ result \in {"good", "malformed"}
       /\ \/ /\ stage[a] = "provision"
             /\ StoreProvisionConfig(a, result, request)
          \/ /\ stage[a] = "certChain"
             /\ UpdateBrokerCertChain(a, result, request)
          \/ /\ stage[a] = "brokers"
             /\ UpdateBrokerLists(a, result, request)

(* The headers of a response arrive. *)
Response(a, headers) ==
    /\ a \notin dead /\ http[a].phase = "waiting"
    /\ LET next == OnResponse(http[a], headers)
       IN  Deliver(a, next.result, next.request)
    /\ UNCHANGED <<called, late>>

(* The body of a response is complete. *)
End(a, body) ==
    /\ a \notin dead /\ http[a].phase \in {"reading", "draining"}
    /\ LET next == OnEnd(http[a], body)
       IN  Deliver(a, next.result, next.request)
    /\ UNCHANGED <<called, late>>

(* The service cannot be reached, or refuses the connection. *)
Error(a) ==
    /\ a \notin dead /\ http[a].phase = "waiting"
    /\ LET next == OnError(http[a])
       IN  Deliver(a, next.result, next.request)
    /\ UNCHANGED <<called, late>>

(* A request whose headers have come emits an error: its connection fails   *)
(* while the body is read, while the body of a redirect is drained beside   *)
(* the request that follows it, or afterwards.  The response callback is    *)
(* invoked as it would be without a response.  The body that is under way   *)
(* may still end, as one of no given length does with its connection.       *)
LateError(a) ==
    /\ a \notin dead /\ http[a].open > 0
    /\ http' = [http EXCEPT ![a] = OnLateError(http[a]).request]
    /\ IF a \in listens
         THEN /\ late' = [late EXCEPT ![a] = @ + 1]
              /\ IF a \in alone THEN Dies(a) ELSE UNCHANGED dead
         ELSE UNCHANGED <<late, dead>>
    /\ UNCHANGED <<directory, stage, called, told, threw, empty>>

(* The connection breaks while the body is read, and the body never ends:   *)
(* no handler hears of that.                                                *)
Break(a) ==
    /\ a \notin dead /\ http[a].phase \in {"reading", "draining"}
    /\ http' = [http EXCEPT ![a].phase = "lost"]
    /\ UNCHANGED <<directory, stage, called, outcome, late, empty>>

(* A process is killed while it waits for the service. *)
Kill(a) ==
    /\ a \notin dead /\ http[a].phase # "idle"
    /\ Killed(a)
    /\ UNCHANGED <<directory, http, stage, called, late, empty>>

Next ==
    \E a \in Attempts :
        \/ /\ a \notin alone
           /\ UNCHANGED <<alone, late>>
           /\ \E hears \in BOOLEAN :
                \/ ProvisionGenerate(a, hears)
                \/ ProvisionCsrFile(a, hears)
                \/ UpdateConfig(a, hears)
        \/ \E headers \in Headers : Response(a, headers)
        \/ \E body \in Bodies : End(a, body)
        \/ Error(a)
        \/ LateError(a)
        \/ Break(a)
        \/ Kill(a)

Spec == Init /\ [][Next]_vars

(* A management service that answers every request, be it with an error:   *)
(* nothing in the client bounds the time it takes.                          *)
Fairness ==
    \A a \in Attempts :
        /\ WF_vars(\E headers \in Headers : Response(a, headers))
        /\ WF_vars(\E body \in Bodies : End(a, body))

FairSpec == Spec /\ Fairness

-----------------------------------------------------------------------------
(* Properties *)

(* The values the files, the requests and the histories range over. *)
TypeOK ==
    /\ files \in [Files -> Attempts \cup {Absent, Torn}]
    /\ http \in [Attempts -> Request]
    /\ stage \in [Attempts -> {"none", "provision", "certChain", "brokers"}]
    /\ listens \subseteq Attempts
    /\ alone \subseteq Attempts /\ dead \subseteq Attempts
    /\ signed \in [Attempts -> Attempts \cup {Absent, Torn}]
    /\ kind \in [Attempts -> {"none", "generate", "csrFile", "generateCsr",
                              "update"}]
    /\ told \in [Attempts -> Seq({"success", "error"})]
    /\ late \in [Attempts -> Nat]
    /\ threw \subseteq Attempts /\ empty \subseteq Attempts
    /\ touched \in [Attempts -> SUBSET Attempts]

Succeeded(a) == \E i \in DOMAIN told[a] : told[a][i] = "success"

(* The commands that an attempt sends to the management service. *)
Asked(a) == IF kind[a] = "update" THEN 2 ELSE 1

(* The doneCallback is invoked once, late errors aside.  The one exception  *)
(* is a redirect too many, after which httpGet() goes on to read the body:  *)
(* two errors.  Late errors are at most one for each request that was       *)
(* answered, and those are bounded by the redirects.                        *)
ToldOnceInv ==
    \A a \in Attempts :
        /\ Len(told[a]) > 1 => /\ told[a] = <<"error", "error">>
                               /\ http[a].redirects = MaxRedirects
        /\ late[a] + http[a].open <= Asked(a) * (MaxRedirects + 1)

(* What an attempt that succeeds leaves in the directory. *)
Stores(a) ==
    CASE kind[a] = "generate" -> Files
      [] kind[a] = "csrFile" -> Files \ {"key", "csr"}
      [] kind[a] = "generateCsr" -> {"key", "csr"}
      [] kind[a] = "update" -> {"ca", "brokers", "wsBrokers"}

(* An attempt that was told of success, on an answer that holds something,  *)
(* has stored all of it: as long as no other attempt has written since it   *)
(* began, key, certificate, CA certificates and configuration fit together. *)
(* (A torn configuration file has no section that could be updated.)        *)
StoredInv ==
    \A a \in Attempts :
        (Succeeded(a) /\ a \notin empty /\ touched[a] = {}
           /\ files["certs"] # Torn)
          => \A f \in Stores(a) : files[f] = a

(* Whatever fails half way or is killed, a new certificate is not there     *)
(* before all that goes with it, nor are new broker lists before the CA     *)
(* certificates they were asked for after.                                  *)
OrderInv ==
    \A a \in Attempts :
        touched[a] = {} =>
            /\ files["cert"] = a => \A f \in Stores(a) : files[f] = a
            /\ (\E f \in {"brokers", "wsBrokers"} : files[f] = a)
                  /\ kind[a] = "update" => files["ca"] = a

(* A certificate in the directory fits the private key beside it, though    *)
(* the key may have been made by another call, by another process, or by    *)
(* one that was killed later: if nobody else wrote since the key was made.  *)
FitsInv ==
    \A a, b \in Attempts :
        (files["cert"] = a /\ signed[a] = b
           /\ touched[a] = {} /\ touched[b] \subseteq {a})
          => files["key"] = b

(* Nothing can come of an attempt any more: it was told how it ended, or it  *)
(* is a command, whose process any error ends.                              *)
Over(a) == told[a] # <<>> \/ (a \in alone /\ late[a] > 0)

(* An attempt that is over writes nothing any more: the application may     *)
(* start the next one.  (One that was only told a late error may go on.)    *)
NoWriteAfterToldProp ==
    [][\A a \in Attempts, f \in Files :
         (Over(a) /\ files'[f] = a) => files[f] = a]_vars

(* A caller that has not heard of the end of its call: it threw nothing, its *)
(* process is alive, and no answer broke off half way.                      *)
Waits(a) ==
    /\ kind[a] # "none" /\ a \in listens
    /\ told[a] = <<>> /\ a \notin threw
    /\ a \notin dead /\ http[a].phase # "lost"

(* Nobody waits for ever: whatever was called, and however calls and their  *)
(* processes overlap, there will be a time when no caller waits.  (A call   *)
(* that ceases to wait never waits again.)                                  *)
AnsweredProp == []<>(\A a \in Attempts : ~Waits(a))

(* provision-config.js: the doneCallback is invoked once the configuration  *)
(* has been stored, with an error if an error occurs.                       *)
SuccessIsStoredInv ==
    \A a \in Attempts : Succeeded(a) => a \notin empty
=============================================================================
