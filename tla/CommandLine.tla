----------------------------- MODULE CommandLine -----------------------------
(***************************************************************************)
(* The commands of bin/dxlclient.js (lib/_cli).  Each is a process that    *)
(* takes its options from the command line, asks at the prompt for the     *)
(* credentials that are missing and for the passphrase of the private key, *)
(* and then makes one call of module Provisioning, within the callback of  *)
(* the last answer.  An error ends the process.  Applications call the     *)
(* same functions on the same directory meanwhile.                         *)
(***************************************************************************)
EXTENDS Provisioning

CONSTANTS
    Login,       \* a user name or a password: which one does not matter
    Passphrases, \* what may be typed for a passphrase
    Nothing,     \* an empty line, an option that is not given or is ''
    Prompt       \* --passphrase without a value, which is true

ASSUME NothingAssumption ==
    {Nothing, Prompt} \cap (Passphrases \cup {Login}) = {} /\ Nothing # Prompt

VARIABLES
    verb,     \* command |-> what it is going to call, or "none"
    options,  \* command |-> its options by name
    asks,     \* command |-> the options still to be asked for, in order
    confirm,  \* command |-> whether the next answer is to be confirmed
    first,    \* command |-> the answer the next one is to confirm, or Nothing
    hostInfo, \* command |-> the credentials it passes on
    typed     \* history: command |-> the last two passphrases that were typed

dialog == <<asks, confirm, first>>
command == <<verb, options, dialog, hostInfo, typed>>
allVars == <<vars, command>>

Credentials == {"user", "password"}
OptionNames == Credentials \cup {"passphrase"}
NoCredentials == [n \in Credentials |-> Nothing]

CommandInit ==
    /\ Init
    /\ verb = [a \in Commands |-> "none"]
    /\ options = [a \in Commands |-> [n \in OptionNames |-> Nothing]]
    /\ asks = [a \in Commands |-> <<>>]
    /\ confirm = [a \in Commands |-> FALSE]
    /\ first = [a \in Commands |-> Nothing]
    /\ hostInfo = [a \in Commands |-> NoCredentials]
    /\ typed = [a \in Commands |-> <<>>]

(* The credentials, unless a command does not need any, and the passphrase  *)
(* if it makes a key.                                                       *)
Needed(how) ==
    (IF how = "generateCsr" THEN {} ELSE Credentials)
      \cup (IF how = "update" THEN {} ELSE {"passphrase"})

(* Credentials that are empty, and a passphrase that is true. *)
Missing(how, given) ==
    {n \in Needed(how) :
       given[n] = IF n = "passphrase" THEN Prompt ELSE Nothing}

(* A slip to tell apart: after the first option the others are not looked at. *)
Asks_FirstOnly(how, given) ==
    LET ask(n) == IF n \in Missing(how, given) THEN <<n>> ELSE <<>>
    IN  IF ask("user") # <<>> THEN ask("user")
        ELSE IF ask("password") # <<>> THEN ask("password")
        ELSE ask("passphrase")

(* What a command asks for, in order. *)
Asks(how, given) ==
    LET ask(n) == IF n \in Missing(how, given) THEN <<n>> ELSE <<>>
    IN  ask("user") \o ask("password") \o ask("passphrase")

(* pullHostInfoFromCommand() moves the credentials, then the call is made.  *)
Proceed(a, how, given) ==
    /\ hostInfo' = [hostInfo EXCEPT ![a] = [n \in Credentials |-> given[n]]]
    /\ options' = [options EXCEPT ![a] =
                     [n \in OptionNames |-> IF n \in Credentials THEN Nothing
                                                               ELSE given[n]]]
    /\ \/ how = "generateCsr" /\ GenerateCsr(a)
       \/ how = "generate" /\ ProvisionGenerate(a, TRUE)
       \/ how = "csrFile" /\ ProvisionCsrFile(a, TRUE)
       \/ how = "update" /\ UpdateConfig(a, TRUE)
    /\ UNCHANGED <<alone, late>>

(* Ask for the next option, or go on with what there is. *)
AskOrProceed(a, how, given, names) ==
    /\ asks' = [asks EXCEPT ![a] = names]
    /\ first' = [first EXCEPT ![a] = Nothing]
    /\ confirm' = [confirm EXCEPT ![a] = names = <<"passphrase">>]
    /\ IF names = <<>>
         THEN Proceed(a, how, given)
         ELSE /\ options' = [options EXCEPT ![a] = given]
              /\ UNCHANGED <<vars, hostInfo>>

(* The action of a subcommand, with those of its options that are given. *)
Start(a) ==
    /\ a \in alone
    /\ verb[a] = "none"
    /\ \E how \in {"generate", "csrFile", "generateCsr", "update"},
          given \in [OptionNames -> {Nothing, Login, Prompt}] :
         /\ given["passphrase"] # Login
         /\ \A n \in Credentials : given[n] # Prompt
         /\ \A n \in OptionNames \ Needed(how) : given[n] = Nothing
         /\ verb' = [verb EXCEPT ![a] = how]
         /\ AskOrProceed(a, how, given, Asks(how, given))
    /\ UNCHANGED typed

(* What getValueFromPrompt() makes of a line: an empty one is asked for     *)
(* again, one that is to be confirmed is asked for a second time, and two   *)
(* that differ start over.                                                  *)
Again(a, line) == line = Nothing /\ UNCHANGED <<dialog, options, hostInfo, vars>>

ToConfirm(a, line) ==
    /\ line # Nothing /\ confirm[a]
    /\ first' = [first EXCEPT ![a] = line]
    /\ confirm' = [confirm EXCEPT ![a] = FALSE]
    /\ UNCHANGED <<asks, options, hostInfo, vars>>

(* A slip to tell apart: the second try is not confirmed. *)
Mismatch_Unconfirmed(a, line) ==
    /\ Nothing \notin {line, first[a]} /\ line # first[a]
    /\ first' = [first EXCEPT ![a] = Nothing]
    /\ UNCHANGED <<asks, confirm, options, hostInfo, vars>>

Mismatch(a, line) ==
    /\ Nothing \notin {line, first[a]} /\ line # first[a]
    /\ first' = [first EXCEPT ![a] = Nothing]
    /\ confirm' = [confirm EXCEPT ![a] = TRUE]
    /\ UNCHANGED <<asks, options, hostInfo, vars>>

Accept(a, line) ==
    /\ line # Nothing /\ ~confirm[a] /\ first[a] \in {Nothing, line}
    /\ AskOrProceed(a, verb[a], [options[a] EXCEPT ![Head(asks[a])] = line],
                    Tail(asks[a]))

(* The line that read() gives to its callback. *)
Answer(a) ==
    /\ a \notin dead /\ asks[a] # <<>>
    /\ LET secret == Head(asks[a]) = "passphrase"
       IN  \E line \in {Nothing} \cup IF secret THEN Passphrases ELSE {Login} :
             /\ typed' = IF ~secret \/ line = Nothing THEN typed ELSE
                  [typed EXCEPT ![a] = IF @ = <<>> THEN <<line>>
                                                   ELSE <<line, Head(@)>>]
             /\ \/ Again(a, line) \/ ToConfirm(a, line)
                \/ Mismatch(a, line) \/ Accept(a, line)
    /\ UNCHANGED verb

(* The prompt is interrupted or its input ends: the command ends. *)
Interrupt(a) ==
    /\ a \notin dead /\ asks[a] # <<>>
    /\ Tell(a, "error", FALSE, TRUE)
    /\ UNCHANGED <<command, directory, called, http, stage, late, empty>>

CommandNext ==
    \/ Next /\ UNCHANGED command
    \/ \E a \in Commands : Start(a) \/ Answer(a) \/ Interrupt(a)

CommandSpec == CommandInit /\ [][CommandNext]_allVars

FairCommandSpec == CommandSpec /\ Fairness

-----------------------------------------------------------------------------
(* Properties *)

(* A command calls nothing before it has all it needs: the credentials, be  *)
(* they given or typed, reach the management service, and a passphrase that *)
(* was to be asked for is never the value true.                             *)
CredentialsInv ==
    \A a \in Commands :
        a \in alone /\ kind[a] # "none"
          => /\ kind[a] # "generateCsr"
                  => \A n \in Credentials : hostInfo[a][n] # Nothing
             /\ kind[a] # "update" => options[a]["passphrase"] # Prompt

(* A passphrase that was asked for has been typed twice in a row, whatever  *)
(* was typed before and however often the answers were empty.               *)
ConfirmedInv ==
    \A a \in Commands :
        kind[a] # "none" /\ typed[a] # <<>>
          => typed[a] = <<options[a]["passphrase"], options[a]["passphrase"]>>
=============================================================================
