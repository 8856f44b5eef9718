------------------------- MODULE ProvisioningProofs -------------------------
(***************************************************************************)
(* Proofs about modules Provisioning and CommandLine, for any attempts,    *)
(* any commands among them and any number of redirects.  A step is one     *)
(* attempt's: what it writes, what becomes of its request and what it is   *)
(* told (Moves).  The invariant says of each attempt what follows from     *)
(* where it stands, and what remains true of it while others write.        *)
(***************************************************************************)
EXTENDS CommandLine, TLAPS

Asking(a) == http[a].phase \in {"waiting", "reading"}
MakesKey(a) == kind[a] \in {"generate", "generateCsr"}

(* An attempt that was not called yet.  (A command that is interrupted at   *)
(* the prompt was told an error, and is dead.)                              *)
CallInv(a) ==
    kind[a] = "none" =>
      /\ http[a].phase = "idle"
      /\ told[a] = <<>> \/ (a \in dead /\ told[a] = <<"error">>)
      /\ signed[a] = Absent /\ touched[a] = {}
      /\ \A f \in Files : files[f] # a

(* What an attempt was told, by the state of its request. *)
RequestInv(a) ==
    /\ told[a] \in {<<>>, <<"error">>, <<"success">>, <<"error", "error">>}
    /\ Asking(a) => told[a] = <<>>
    /\ http[a].phase = "draining" =>
         told[a] \in {<<>>, <<"error">>} /\ http[a].redirects = MaxRedirects
    /\ told[a] = <<"error", "error">> =>
         http[a].phase = "idle" /\ http[a].redirects = MaxRedirects

(* What an attempt has stored while it waits for the service. *)
StageInv(a) ==
    Asking(a) =>
      /\ \A f \in {"cert", "brokers", "wsBrokers"} : files[f] # a
      /\ \/ /\ stage[a] = "provision" /\ kind[a] \in {"generate", "csrFile"}
            /\ kind[a] = "generate" /\ touched[a] = {}
                 => files["key"] = a /\ files["csr"] = a
         \/ stage[a] = "certChain" /\ kind[a] = "update"
         \/ /\ stage[a] = "brokers" /\ kind[a] = "update"
            /\ touched[a] = {} => files["ca"] = a

(* What goes together with a file an attempt wrote, and with its success.   *)
FilesInv(a) ==
    /\ files["cert"] = a => kind[a] \in {"generate", "csrFile"}
    /\ touched[a] = {} =>
         /\ files["cert"] = a => \A f \in Stores(a) : files[f] = a
         /\ (\E f \in {"brokers", "wsBrokers"} : files[f] = a)
              /\ kind[a] = "update" => files["ca"] = a
         /\ told[a] = <<"success">> /\ a \notin empty /\ files["certs"] # Torn
              => \A f \in Stores(a) : files[f] = a

(* Whose signing request an attempt may have sent. *)
SignedInv(a) ==
    /\ kind[a] = "generate" => signed[a] \in {a, Absent}
    /\ kind[a] \in {"none", "update", "generateCsr"} => signed[a] = Absent

(* What was asked for before: the CA certificates, with all its redirects.   *)
Spent(a) == IF stage[a] = "brokers" THEN MaxRedirects + 1 ELSE 0

(* Late errors, with those that may still come, are at most one for each    *)
(* request that was answered; a command does not survive the first.         *)
LateInv(a) ==
    /\ late[a] + http[a].open <=
         Spent(a) + IF http[a].phase = "waiting" THEN http[a].redirects
                                                ELSE MaxRedirects + 1
    /\ stage[a] = "brokers" => kind[a] = "update"
    /\ kind[a] = "none" => late[a] = 0 /\ http[a].open = 0
    /\ (a \in alone /\ late[a] > 0) => a \in dead

AttemptInv(a) == /\ CallInv(a) /\ RequestInv(a) /\ StageInv(a)
                 /\ FilesInv(a) /\ SignedInv(a) /\ LateInv(a)

(* Beside a signing request, or one that was sent, is its key, unless an    *)
(* attempt that makes keys has written since.                               *)
KeyInv ==
    \A b \in Attempts :
        (files["csr"] = b \/ \E a \in Attempts : signed[a] = b)
          => /\ kind[b] # "none"
             /\ files["key"] = b \/ \E c \in touched[b] : MakesKey(c)

AttemptsInv == TypeOK /\ (\A a \in Attempts : AttemptInv(a)) /\ KeyInv

-----------------------------------------------------------------------------
(* Requests to the management service *)

(* What the response handler leaves of a request and gives to the callback. *)
LEMMA ResponseFacts ==
    ASSUME NEW request \in Request, request.phase = "waiting",
           NEW headers \in Headers, NEW next, next = OnResponse(request, headers)
    PROVE  /\ next.request \in Request
           /\ \/ /\ next.result = "none"
                 /\ next.request.phase \in {"waiting", "reading"}
              \/ /\ next.result = "error"
                 /\ \/ next.request.phase = "idle"
                    \/ /\ next.request.phase = "draining"
                       /\ next.request.redirects = MaxRedirects
              \/ next.result = "throws" /\ next.request.phase = "lost"
           /\ next.request.open = request.open + 1
           /\ next.request.phase = "waiting" =>
                next.request.redirects = request.redirects + 1
<1>0. MaxRedirects \in Nat  BY RedirectsAssumption
<1>1. request.redirects \in 0..MaxRedirects /\ request.open \in Nat
  BY DEF Request
<1>2. PICK open : open = Open(request)  OBVIOUS
<1>o. /\ open \in Request /\ open.phase = request.phase
       /\ open.redirects = request.redirects /\ open.open = request.open + 1
  BY <1>1, <1>2 DEF Open, Request
<1>3. \A p \in {"idle", "waiting", "reading", "draining", "lost"} :
        /\ [open EXCEPT !.phase = p] \in Request
        /\ [open EXCEPT !.phase = p].phase = p
        /\ [open EXCEPT !.phase = p].redirects = open.redirects
        /\ [open EXCEPT !.phase = p].open = open.open
  BY <1>o DEF Request
<1>4. request.redirects # MaxRedirects =>
        /\ HttpGet(open, request.redirects + 1) \in Request
        /\ HttpGet(open, request.redirects + 1).phase = "waiting"
        /\ HttpGet(open, request.redirects + 1).redirects = request.redirects + 1
        /\ HttpGet(open, request.redirects + 1).open = request.open + 1
  <2>1. PICK n : n = request.redirects + 1  OBVIOUS
  <2>2. request.redirects # MaxRedirects => n \in 0..MaxRedirects
    BY <1>0, <1>1, <2>1
  <2>3. n \in 0..MaxRedirects =>
          /\ HttpGet(open, n) \in Request
          /\ HttpGet(open, n).phase = "waiting"
          /\ HttpGet(open, n).redirects = n
          /\ HttpGet(open, n).open = open.open
    BY <1>o DEF HttpGet, Request
  <2>q. QED  BY <1>o, <2>1, <2>2, <2>3
<1>5. CASE headers = "content"
  BY <1>2, <1>3, <1>o, <1>5 DEF OnResponse, After
<1>6. CASE headers # "content" /\ request.redirects = MaxRedirects
  BY <1>2, <1>3, <1>o, <1>6 DEF OnResponse, After
<1>7. CASE headers = "misdirect" /\ request.redirects # MaxRedirects
  BY <1>2, <1>3, <1>o, <1>7 DEF OnResponse, After
<1>8. CASE headers = "unparsable" /\ request.redirects # MaxRedirects
  BY <1>2, <1>3, <1>o, <1>8 DEF OnResponse, After
<1>9. CASE headers = "redirect" /\ request.redirects # MaxRedirects
  BY <1>2, <1>4, <1>9 DEF OnResponse, After
<1>q. QED  BY <1>5, <1>6, <1>7, <1>8, <1>9 DEF Headers

(* The end of a body, and an error, leave the redirects as they are, and    *)
(* what may still fail; what is drained ends in an error.                   *)
LEMMA EndFacts ==
    ASSUME NEW request \in Request, NEW body \in Bodies
    PROVE  /\ OnEnd(request, body).request \in Request
           /\ OnEnd(request, body).request.phase = "idle"
           /\ OnEnd(request, body).request.redirects = request.redirects
           /\ OnEnd(request, body).request.open = request.open
           /\ OnEnd(request, body).result \in Bodies
           /\ request.phase = "draining" => OnEnd(request, body).result = "error"
           /\ OnError(request).request = OnEnd(request, body).request
           /\ OnError(request).result = "error"
<1>1. /\ [request EXCEPT !.phase = "idle"] \in Request
      /\ [request EXCEPT !.phase = "idle"].phase = "idle"
      /\ [request EXCEPT !.phase = "idle"].redirects = request.redirects
      /\ [request EXCEPT !.phase = "idle"].open = request.open
  BY DEF Request
<1>q. QED  BY <1>1 DEF OnEnd, OnError, After, Bodies

-----------------------------------------------------------------------------
(* What a step does to the files and to the outcome *)

(* Save() writes what it is given and nothing else, and those that are      *)
(* under way are touched by it, unless nothing was written.                 *)
LEMMA SaveFacts ==
    ASSUME TypeOK, NEW a \in Attempts, NEW w \in SUBSET Files,
           NEW t \in SUBSET Files, Save(a, w, t)
    PROVE  /\ files' \in [Files -> Attempts \cup {Absent, Torn}]
           /\ touched' \in [Attempts -> SUBSET Attempts]
           /\ \A f \in Files :
                /\ f \in w => files'[f] = a
                /\ f \in t \ w => files'[f] = Torn
                /\ f \notin w \cup t => files'[f] = files[f]
           /\ touched'[a] = touched[a]
           /\ \A b \in Attempts :
                /\ touched[b] \subseteq touched'[b]
                /\ kind[b] = "none" => touched'[b] = touched[b]
                /\ w \cup t # {} /\ b # a /\ kind[b] # "none" => a \in touched'[b]
           /\ w \cup t = {} => touched' = touched
<1>1. /\ files \in [Files -> Attempts \cup {Absent, Torn}]
      /\ touched \in [Attempts -> SUBSET Attempts]
  BY DEF TypeOK
<1>2. files' = [f \in Files |-> IF f \in w THEN a
                                ELSE IF f \in t THEN Torn ELSE files[f]]
  BY DEF Save
<1>3. touched' = IF w \cup t = {} THEN touched
                 ELSE [b \in Attempts |->
                         IF kind[b] = "none" \/ b = a THEN touched[b]
                                             ELSE touched[b] \cup {a}]
  BY DEF Save
<1>4. touched' \in [Attempts -> SUBSET Attempts]
  BY <1>1, <1>3
<1>5. files' \in [Files -> Attempts \cup {Absent, Torn}]
  BY <1>1, <1>2
<1>q. QED  BY <1>1, <1>2, <1>3, <1>4, <1>5

LEMMA NothingSaved ==
    ASSUME TypeOK, NEW a \in Attempts, UNCHANGED directory
    PROVE  Save(a, {}, {})
BY DEF TypeOK, directory, Save

(* An outcome: what the callback is given, if it is given anything, and     *)
(* processes that end.                                                      *)
Outcome(a, what) ==
    /\ told' = IF what = "nothing" THEN told
               ELSE [told EXCEPT ![a] = Append(@, what)]
    /\ dead \subseteq dead'
    /\ dead' \in SUBSET Attempts /\ threw' \in SUBSET Attempts

LEMMA DiesFacts ==
    ASSUME TypeOK, NEW a \in Attempts, Dies(a)
    PROVE  dead \subseteq dead' /\ dead' \in SUBSET Attempts /\ a \in dead'
<1>1. PICK others \in {{}, {b \in Attempts \ alone : http[b].phase # "idle"}} :
        dead' = dead \cup {a} \cup (IF a \in alone THEN {} ELSE others)
  BY DEF Dies
<1>q. QED  BY <1>1 DEF TypeOK

LEMMA KilledFacts ==
    ASSUME TypeOK, NEW a \in Attempts, Killed(a)
    PROVE  Outcome(a, "nothing")
BY DiesFacts DEF Killed, Outcome, TypeOK

LEMMA ThrowFacts ==
    ASSUME TypeOK, NEW a \in Attempts, NEW inCall, Throw(a, inCall)
    PROVE  Outcome(a, "nothing")
BY KilledFacts DEF Throw, Outcome, TypeOK

LEMMA TellFacts ==
    ASSUME TypeOK, NEW a \in Attempts, NEW what \in {"success", "error"},
           NEW inCall, NEW hears, Tell(a, what, inCall, hears)
    PROVE  \E heard \in {"nothing", what} : Outcome(a, heard)
<1>1. CASE hears
  <2>1. told' = [told EXCEPT ![a] = Append(@, what)] /\ threw' = threw
    BY <1>1 DEF Tell
  <2>2. dead \subseteq dead' /\ dead' \in SUBSET Attempts
    BY <1>1, DiesFacts DEF Tell, TypeOK
  <2>q. QED  BY <2>1, <2>2 DEF Outcome, TypeOK
<1>2. CASE ~hears /\ what = "success"
  BY <1>2, ThrowFacts DEF Tell
<1>3. CASE ~hears /\ what # "success"
  BY <1>3 DEF Tell, outcome, Outcome, TypeOK
<1>q. QED  BY <1>1, <1>2, <1>3

-----------------------------------------------------------------------------
(* The step of an attempt *)

Stages == {"none", "provision", "certChain", "brokers"}
Kinds == {"generate", "csrFile", "generateCsr", "update"}

(* An attempt writes some files and tears others, leaves its request as r   *)
(* and its stage as s, and is told something or nothing.                    *)
Moves(a, w, t, r, s, what) ==
    /\ Save(a, w, t)
    /\ http' = [http EXCEPT ![a] = r]
    /\ stage' = [stage EXCEPT ![a] = s]
    /\ Outcome(a, what)
    /\ alone' = alone /\ late' = late
    /\ listens' \in SUBSET Attempts /\ empty' \in SUBSET Attempts
    /\ empty' \ {a} = empty \ {a}

(* The requests that may still emit an error: those of before, one more     *)
(* when a response has come, and those of before again when the first       *)
(* request of a command is sent.                                            *)
Opens(a, r, s) ==
    \/ s = stage[a] /\ r.open = http[a].open /\ r.phase # "waiting"
    \/ /\ s = stage[a] /\ http[a].phase = "waiting"
       /\ r.open = http[a].open + 1
       /\ r.phase = "waiting" => r.redirects = http[a].redirects + 1
    \/ /\ r.phase = "waiting" /\ r.redirects = 0 /\ r.open = http[a].open
       /\ \/ kind[a] = "none" /\ s # "brokers"
          \/ kind[a] = "update" /\ stage[a] = "certChain" /\ s = "brokers"

(* What it was called for, and the signing request it sent: both are set    *)
(* when it is called and stay.                                              *)
Keeps(a, how, request) ==
    /\ kind[a] = how \/ kind[a] = "none"
    /\ kind' = [kind EXCEPT ![a] = how]
    /\ signed' = [signed EXCEPT ![a] = request]

LEMMA MoveTyped ==
    ASSUME TypeOK, NEW a \in Attempts, NEW w \in SUBSET Files,
           NEW t \in SUBSET Files, NEW r \in Request, NEW s \in Stages,
           NEW what \in {"nothing", "error", "success"}, Moves(a, w, t, r, s, what),
           NEW how \in Kinds, NEW request \in Attempts \cup {Absent, Torn},
           Keeps(a, how, request)
    PROVE  TypeOK'
<1>1. /\ files' \in [Files -> Attempts \cup {Absent, Torn}]
      /\ touched' \in [Attempts -> SUBSET Attempts]
  BY SaveFacts DEF Moves
<1>2. told' \in [Attempts -> Seq({"success", "error"})]
  <2>1. told \in [Attempts -> Seq({"success", "error"})]  BY DEF TypeOK
  <2>2. what # "nothing" => Append(told[a], what) \in Seq({"success", "error"})
    BY <2>1
  <2>q. QED  BY <2>1, <2>2 DEF Moves, Outcome
<1>3. kind' \in [Attempts -> {"none", "generate", "csrFile", "generateCsr",
                              "update"}]
  BY DEF Keeps, TypeOK, Kinds
<1>4. signed' \in [Attempts -> Attempts \cup {Absent, Torn}]
  BY DEF Keeps, TypeOK
<1>5. http' \in [Attempts -> Request]
      /\ stage' \in [Attempts -> {"none", "provision", "certChain", "brokers"}]
  BY DEF Moves, TypeOK, Stages
<1>6. /\ listens' \subseteq Attempts /\ alone' \subseteq Attempts
      /\ dead' \subseteq Attempts /\ threw' \subseteq Attempts
      /\ empty' \subseteq Attempts /\ late' \in [Attempts -> Nat]
  BY DEF Moves, Outcome, TypeOK
<1>q. QED  BY <1>1, <1>2, <1>3, <1>4, <1>5, <1>6 DEF TypeOK

LEMMA MoveFacts ==
    ASSUME TypeOK, NEW a \in Attempts, NEW w \in SUBSET Files,
           NEW t \in SUBSET Files, NEW r, NEW s, NEW what,
           Moves(a, w, t, r, s, what), NEW b \in Attempts
    PROVE  /\ \A f \in Files :
                /\ f \in w => files'[f] = a
                /\ f \in t \ w => files'[f] = Torn
                /\ f \notin w \cup t => files'[f] = files[f]
           /\ touched[b] \subseteq touched'[b]
           /\ b = a \/ kind[b] = "none" => touched'[b] = touched[b]
           /\ w \cup t # {} /\ b # a /\ kind[b] # "none" => a \in touched'[b]
<1>1. Save(a, w, t)  BY DEF Moves
<1>q. QED  BY <1>1, SaveFacts

(* An attempt that moves has no more late errors before it than requests    *)
(* that were answered.                                                      *)
LEMMA MoveLate ==
    ASSUME TypeOK, NEW a \in Attempts, NEW w, NEW t, NEW r \in Request,
           NEW s \in Stages, NEW what, Moves(a, w, t, r, s, what), NEW how \in Kinds,
           kind'[a] = how, kind[a] \in {"none", how}, Opens(a, r, s), LateInv(a)
    PROVE  LateInv(a)'
<1>1. /\ http'[a] = r /\ stage'[a] = s /\ late'[a] = late[a] /\ alone' = alone
      /\ a \in dead => a \in dead'
  BY DEF Moves, Outcome, TypeOK
<1>2. how # "none"  BY DEF Kinds
<1>3. PICK n, k, i, j, ri, rj :
        n = MaxRedirects /\ k = late[a] /\ i = http[a].open /\ j = r.open
          /\ ri = http[a].redirects /\ rj = r.redirects
  OBVIOUS
<1>4. n \in Nat /\ k \in Nat /\ i \in Nat /\ j \in Nat /\ ri \in 0..n /\ rj \in 0..n
  BY <1>3, RedirectsAssumption DEF TypeOK, Request
<1>5. k + i <= (IF stage[a] = "brokers" THEN n + 1 ELSE 0)
                 + IF http[a].phase = "waiting" THEN ri ELSE n + 1
  BY <1>3 DEF LateInv, Spent
<1>6. k + j <= (IF s = "brokers" THEN n + 1 ELSE 0)
                 + IF r.phase = "waiting" THEN rj ELSE n + 1
  <2>1. CASE s = stage[a] /\ j = i /\ r.phase # "waiting"
    BY <2>1, <1>4, <1>5
  <2>2. CASE /\ s = stage[a] /\ http[a].phase = "waiting" /\ j = i + 1
             /\ r.phase = "waiting" => rj = ri + 1
    BY <2>2, <1>4, <1>5
  <2>3. CASE r.phase = "waiting" /\ rj = 0 /\ j = i /\ kind[a] = "none" /\ s # "brokers"
    <3>1. k = 0 /\ i = 0  BY <1>3, <2>3 DEF LateInv
    <3>q. QED  BY <2>3, <3>1, <1>4
  <2>4. CASE /\ r.phase = "waiting" /\ rj = 0 /\ j = i /\ stage[a] = "certChain"
             /\ s = "brokers"
    BY <2>4, <1>4, <1>5
  <2>q. QED  BY <1>3, <2>1, <2>2, <2>3, <2>4 DEF Opens
<1>7. late'[a] + http'[a].open <=
        Spent(a)' + IF http'[a].phase = "waiting" THEN http'[a].redirects
                                                 ELSE MaxRedirects + 1
  BY <1>1, <1>3, <1>6 DEF Spent
<1>8. s = "brokers" => how = "update"  BY <1>2 DEF LateInv, Opens
<1>q. QED  BY <1>1, <1>2, <1>7, <1>8 DEF LateInv

(* What holds of the other attempts still does: what they wrote is there,   *)
(* or they are touched.                                                     *)
LEMMA MoveOthers ==
    ASSUME TypeOK, NEW a \in Attempts, NEW w \in SUBSET Files,
           NEW t \in SUBSET Files, NEW r, NEW s, NEW what,
           Moves(a, w, t, r, s, what), NEW how, NEW request, Keeps(a, how, request),
           NEW b \in Attempts, b # a, AttemptInv(b)
    PROVE  AttemptInv(b)'
<1>1. /\ http'[b] = http[b] /\ stage'[b] = stage[b] /\ kind'[b] = kind[b]
      /\ signed'[b] = signed[b] /\ told'[b] = told[b]
      /\ b \in empty' <=> b \in empty
      /\ b \in dead => b \in dead'
      /\ late'[b] = late[b] /\ alone' = alone
  BY DEF Moves, Outcome, Keeps, TypeOK
<1>2. /\ a \notin {Absent, Torn} /\ b # Torn
  BY AttemptsAssumption
<1>3. /\ \A f \in Files : files'[f] = b => files[f] = b
      /\ kind[b] = "none" => touched'[b] = touched[b]
      /\ touched'[b] = {} => touched[b] = {}
      /\ touched'[b] = {} /\ kind[b] # "none" => w \cup t = {}
      /\ w \cup t = {} => \A f \in Files : files'[f] = files[f]
  <2>2. /\ \A f \in Files :
             /\ f \in w => files'[f] = a
             /\ f \in t \ w => files'[f] = Torn
             /\ f \notin w \cup t => files'[f] = files[f]
        /\ touched[b] \subseteq touched'[b]
        /\ kind[b] = "none" => touched'[b] = touched[b]
        /\ w \cup t # {} /\ kind[b] # "none" => a \in touched'[b]
    BY MoveFacts
  <2>q. QED  BY <1>2, <2>2
<1>4. CallInv(b)'
  BY <1>1, <1>3 DEF AttemptInv, CallInv
<1>5. RequestInv(b)'
  BY <1>1 DEF AttemptInv, RequestInv, Asking
<1>6. StageInv(b)'
  <2>1. SUFFICES ASSUME Asking(b)' PROVE StageInv(b)!2'
    BY DEF StageInv
  <2>2. Asking(b) /\ kind[b] # "none"
    BY <1>1, <2>1 DEF Asking, AttemptInv, CallInv
  <2>q. QED  BY <1>1, <1>3, <2>2 DEF AttemptInv, StageInv, Asking, Files, ConfigFile
<1>7. FilesInv(b)'
  <2>1. Stores(b)' = Stores(b)  BY <1>1 DEF Stores
  <2>2. CASE kind[b] = "none"
    <3>1. \A f \in Files : files'[f] # b  BY <1>3, <2>2 DEF AttemptInv, CallInv
    <3>2. told'[b] # <<"success">>
      <4>1. told'[b] = <<>> \/ told'[b] = <<"error">>
        BY <1>1, <2>2 DEF AttemptInv, CallInv
      <4>2. <<>> # <<"success">> /\ <<"error">> # <<"success">>
        OBVIOUS
      <4>q. QED  BY <4>1, <4>2
    <3>q. QED  BY <3>1, <3>2 DEF FilesInv, Files, ConfigFile
  <2>3. CASE kind[b] # "none" /\ touched'[b] # {}
    BY <1>1, <1>3, <2>3 DEF AttemptInv, FilesInv, Files
  <2>4. CASE kind[b] # "none" /\ touched'[b] = {}
    <3>1. \A f \in Files : files'[f] = files[f]  BY <1>3, <2>4
    <3>2. kind[b] \in Kinds  BY <2>4 DEF TypeOK, Kinds
    <3>3. Stores(b) \subseteq Files
      BY <3>2 DEF Stores, Kinds, Files, ConfigFile
    <3>4. {"cert", "brokers", "wsBrokers", "ca", "certs"} \subseteq Files
      BY DEF Files, ConfigFile
    <3>q. QED  BY <1>1, <1>3, <2>1, <2>4, <3>1, <3>3, <3>4 DEF AttemptInv, FilesInv
  <2>q. QED  BY <2>2, <2>3, <2>4
<1>8. SignedInv(b)'
  BY <1>1 DEF AttemptInv, SignedInv
<1>9. LateInv(b)'
  BY <1>1 DEF AttemptInv, LateInv, Spent
<1>q. QED  BY <1>4, <1>5, <1>6, <1>7, <1>8, <1>9 DEF AttemptInv

(* Keys are made before their signing requests, and by calls that touch the *)
(* others; a signing request that is sent was made by the attempt, is the   *)
(* one in the directory, or comes from elsewhere.                           *)
LEMMA MoveKey ==
    ASSUME AttemptsInv, NEW a \in Attempts, NEW w \in SUBSET Files,
           NEW t \in SUBSET Files, NEW r, NEW s, NEW what,
           Moves(a, w, t, r, s, what), NEW how \in Kinds, NEW request,
           Keeps(a, how, request),
           "key" \in w \cup t =>
             kind[a] = "none" /\ how \in {"generate", "generateCsr"},
           "csr" \in w => "key" \in w,
           \/ request \in {signed[a], files["csr"], Absent}
           \/ request = a /\ "key" \in w
    PROVE  KeyInv'
<1>1. SUFFICES ASSUME NEW b \in Attempts,
                      files'["csr"] = b \/ \E c \in Attempts : signed'[c] = b
               PROVE  /\ kind'[b] # "none"
                      /\ files'["key"] = b \/ \E c \in touched'[b] : MakesKey(c)'
  BY DEF KeyInv
<1>2. Save(a, w, t) /\ TypeOK  BY DEF Moves, AttemptsInv
<1>3. /\ \A f \in Files :
           /\ f \in w => files'[f] = a
           /\ f \in t \ w => files'[f] = Torn
           /\ f \notin w \cup t => files'[f] = files[f]
      /\ touched[b] \subseteq touched'[b]
      /\ w \cup t # {} /\ b # a /\ kind[b] # "none" => a \in touched'[b]
  <2>1. touched[b] \subseteq touched'[b]  BY <1>2, MoveFacts
  <2>2. w \cup t # {} /\ b # a /\ kind[b] # "none" => a \in touched'[b]
    BY <1>2, MoveFacts
  <2>3. ASSUME NEW f \in Files
        PROVE  /\ f \in w => files'[f] = a
               /\ f \in t \ w => files'[f] = Torn
               /\ f \notin w \cup t => files'[f] = files[f]
    BY <1>2, MoveFacts
  <2>q. QED  BY <2>1, <2>2, <2>3
<1>4. "csr" \in Files /\ "key" \in Files  BY DEF Files
<1>5. a # Torn /\ b # Torn /\ b # Absent /\ a # Absent  BY AttemptsAssumption
<1>6. /\ \A c \in Attempts : c # a => kind'[c] = kind[c] /\ signed'[c] = signed[c]
      /\ kind'[a] = how /\ signed'[a] = request
      /\ kind[a] = how \/ kind[a] = "none"
      /\ how # "none"
  BY <1>2 DEF Keeps, TypeOK, Kinds
<1>7. \A c \in Attempts : MakesKey(c) => MakesKey(c)'
  BY <1>6 DEF MakesKey
<1>8. touched[b] \subseteq Attempts  BY <1>2 DEF TypeOK
<1>9. CASE files["csr"] = b \/ \E c \in Attempts : signed[c] = b
  <2>1. /\ kind[b] # "none"
        /\ files["key"] = b \/ \E c \in touched[b] : MakesKey(c)
    BY <1>9 DEF AttemptsInv, KeyInv
  <2>2. kind'[b] # "none"  BY <2>1, <1>6
  <2>3. CASE \E c \in touched[b] : MakesKey(c)
    BY <2>2, <2>3, <1>3, <1>7, <1>8
  <2>4. CASE files["key"] = b /\ "key" \notin w \cup t
    BY <2>2, <2>4, <1>3, <1>4
  <2>5. CASE files["key"] = b /\ "key" \in w \cup t
    <3>1. b # a  BY <2>1, <2>5
    <3>2. a \in touched'[b] /\ MakesKey(a)'
      BY <1>3, <2>1, <2>5, <3>1, <1>6 DEF MakesKey
    <3>q. QED  BY <2>2, <3>2
  <2>q. QED  BY <2>1, <2>3, <2>4, <2>5
<1>10. CASE ~(files["csr"] = b \/ \E c \in Attempts : signed[c] = b)
  <2>1. b = a /\ "key" \in w
    <3>1. CASE files'["csr"] = b
      BY <3>1, <1>10, <1>3, <1>4, <1>5
    <3>2. CASE \E c \in Attempts : signed'[c] = b
      <4>1. signed'[a] = b  BY <3>2, <1>10, <1>6
      <4>q. QED  BY <4>1, <1>10, <1>5, <1>6
    <3>q. QED  BY <3>1, <3>2, <1>1
  <2>2. files'["key"] = b /\ kind'[b] # "none"
    BY <2>1, <1>3, <1>4, <1>6
  <2>q. QED  BY <2>2
<1>q. QED  BY <1>9, <1>10

(* Nothing is written by an attempt that is over. *)
QuietStep ==
    \A b \in Attempts, f \in Files :
        Over(b) /\ files'[f] = b => files[f] = b

LEMMA MoveQuiet ==
    ASSUME TypeOK, NEW a \in Attempts, NEW w \in SUBSET Files,
           NEW t \in SUBSET Files, NEW r, NEW s, NEW what,
           Moves(a, w, t, r, s, what), Over(a) => w = {}
    PROVE  QuietStep
<1>1. SUFFICES ASSUME NEW b \in Attempts, NEW f \in Files,
                      Over(b), files'[f] = b
               PROVE  files[f] = b
  BY DEF QuietStep
<1>2. Save(a, w, t)  BY DEF Moves
<1>3. files'[f] = IF f \in w THEN a ELSE IF f \in t THEN Torn ELSE files[f]
  BY <1>2 DEF Save
<1>4. b # Torn  BY AttemptsAssumption
<1>q. QED  BY <1>1, <1>3, <1>4

(* What a callback was given is told apart by its length and its first.     *)
LEMMA ToldFacts ==
    /\ <<>> # <<"success">> /\ <<>> # <<"error">> /\ <<>> # <<"error", "error">>
    /\ <<"success">> # <<"error">> /\ <<"success">> # <<"error", "error">>
    /\ <<"error">> # <<"error", "error">>
    /\ Append(<<>>, "success") = <<"success">>
    /\ Append(<<>>, "error") = <<"error">>
    /\ Append(<<"error">>, "error") = <<"error", "error">>
<1>1. <<>> # <<"success">> /\ <<>> # <<"error">> /\ <<>> # <<"error", "error">>
  OBVIOUS
<1>2. <<"success">> # <<"error">>
  OBVIOUS
<1>3. <<"success">> # <<"error", "error">> /\ <<"error">> # <<"error", "error">>
  <2>1. Len(<<"success">>) = 1  OBVIOUS
  <2>3. Len(<<"error">>) = 1  OBVIOUS
  <2>2. Len(<<"error", "error">>) = 2  OBVIOUS
  <2>q. QED  BY <2>1, <2>2, <2>3
<1>4. \A x : Append(<<>>, x) = <<x>>
  OBVIOUS
<1>5. ASSUME NEW x, NEW y PROVE Append(<<x>>, y) = <<x, y>>
  <2>1. <<x>> \in Seq({x, y})  OBVIOUS
  <2>2. Append(<<x>>, y) = [i \in 1..2 |-> IF i <= 1 THEN <<x>>[i] ELSE y]
    BY <2>1
  <2>3. <<x, y>> \in [1..2 -> {x, y}]  OBVIOUS
  <2>4. <<x, y>> = [i \in 1..2 |-> <<x, y>>[i]]  BY <2>3
  <2>5. \A i \in 1..2 : <<x, y>>[i] = IF i <= 1 THEN <<x>>[i] ELSE y  OBVIOUS
  <2>q. QED  BY <2>2, <2>4, <2>5
<1>q. QED  BY <1>1, <1>2, <1>3, <1>4, <1>5

(* A call: what it may write, send and be told at once. *)
Calls(a, how, request, w, t, r, s, what) ==
    /\ w \in SUBSET {"key", "csr"} /\ t \in SUBSET {"key", "csr"}
    /\ r \in Request /\ s \in Stages /\ what \in {"nothing", "error", "success"}
    /\ how \in Kinds
    /\ Moves(a, w, t, r, s, what) /\ Keeps(a, how, request)
    /\ kind[a] = "none" /\ a \notin dead /\ Opens(a, r, s)
    /\ "key" \in w \cup t => how \in {"generate", "generateCsr"}
    /\ "csr" \in w => "key" \in w
    /\ \/ request = Absent
       \/ how = "csrFile" /\ request = files["csr"]
       \/ how = "generate" /\ request = a /\ "key" \in w
    /\ \/ r.phase = "idle"
       \/ /\ r.phase = "waiting" /\ what = "nothing"
          /\ \/ how = "generate" /\ s = "provision" /\ w = {"key", "csr"}
             \/ how = "csrFile" /\ s = "provision"
             \/ how = "update" /\ s = "certChain"
    /\ what = "success" /\ a \notin empty'
         => how = "generateCsr" /\ w = {"key", "csr"}

LEMMA CallMoves ==
    ASSUME AttemptsInv, NEW a \in Attempts, NEW how, NEW request, NEW w, NEW t,
           NEW r, NEW s, NEW what, Calls(a, how, request, w, t, r, s, what)
    PROVE  AttemptsInv' /\ QuietStep
<1>0. /\ w \in SUBSET {"key", "csr"} /\ t \in SUBSET {"key", "csr"}
      /\ r \in Request /\ s \in Stages /\ what \in {"nothing", "error", "success"}
      /\ how \in Kinds
      /\ Moves(a, w, t, r, s, what) /\ Keeps(a, how, request)
  BY DEF Calls
<1>. USE <1>0
<1>1. TypeOK /\ AttemptInv(a)  BY DEF AttemptsInv
<1>2. /\ http[a].phase = "idle" /\ told[a] = <<>> /\ signed[a] = Absent
      /\ touched[a] = {} /\ \A f \in Files : files[f] # a
  BY <1>1 DEF AttemptInv, CallInv, Calls
<1>3. w \in SUBSET Files /\ t \in SUBSET Files  BY DEF Files
<1>4. /\ http'[a] = r /\ stage'[a] = s /\ kind'[a] = how /\ signed'[a] = request
      /\ told'[a] = IF what = "nothing" THEN <<>> ELSE Append(<<>>, what)
  BY <1>1, <1>2 DEF Moves, Outcome, Keeps, TypeOK
<1>5. a \notin {Absent, Torn}  BY AttemptsAssumption
<1>6. touched'[a] = {}  BY <1>1, <1>2, <1>3, MoveFacts
<1>7. \A f \in Files : files'[f] = a <=> f \in w
  <2>1. SUFFICES ASSUME NEW f \in Files PROVE files'[f] = a <=> f \in w
    OBVIOUS
  <2>2. /\ f \in w => files'[f] = a
        /\ f \in t \ w => files'[f] = Torn
        /\ f \notin w \cup t => files'[f] = files[f]
    <3>0. Save(a, w, t)  BY DEF Moves
    <3>1. f \in w => files'[f] = a  BY <3>0, <1>3 DEF Save
    <3>2. f \in t \ w => files'[f] = Torn  BY <1>1, <1>3, MoveFacts
    <3>3. f \notin w \cup t => files'[f] = files[f]  BY <1>1, <1>3, MoveFacts
    <3>q. QED  BY <3>1, <3>2, <3>3
  <2>q. QED  BY <2>2, <1>2, <1>5
<1>8. told'[a] = CASE what = "nothing" -> <<>>
                   [] what = "error" -> <<"error">>
                   [] what = "success" -> <<"success">>
  BY <1>4, ToldFacts
<1>9. how # "none"  BY DEF Kinds
<1>10. CallInv(a)'  BY <1>4, <1>9 DEF CallInv
<1>11. RequestInv(a)'
  <2>1. Asking(a)' => told'[a] = <<>>  BY <1>4, <1>8 DEF Asking, Calls
  <2>2. told'[a] \in {<<>>, <<"error">>, <<"success">>}  BY <1>8
  <2>3. http'[a].phase # "draining"  BY <1>4 DEF Calls
  <2>q. QED  BY <2>1, <2>2, <2>3, ToldFacts DEF RequestInv
<1>12. StageInv(a)'
  <2>1. \A f \in {"cert", "brokers", "wsBrokers"} : f \in Files /\ f \notin w
    BY DEF Files, ConfigFile
  <2>2. "key" \in Files /\ "csr" \in Files  BY DEF Files
  <2>q. QED  BY <1>4, <1>6, <1>7, <2>1, <2>2 DEF StageInv, Asking, Calls
<1>13. FilesInv(a)'
  <2>1. \A f \in {"cert", "brokers", "wsBrokers"} : f \in Files /\ f \notin w
    BY DEF Files, ConfigFile
  <2>2. told'[a] = <<"success">> => what = "success"  BY <1>8, ToldFacts
  <2>3. told'[a] = <<"success">> /\ a \notin empty' =>
          \A f \in Stores(a)' : files'[f] = a
    <3>1. SUFFICES ASSUME how = "generateCsr", w = {"key", "csr"}
                   PROVE  \A f \in Stores(a)' : files'[f] = a
      BY <2>2 DEF Calls
    <3>2. Stores(a)' = {"key", "csr"}  BY <1>4, <3>1 DEF Stores
    <3>q. QED  BY <3>1, <3>2, <1>7 DEF Files
  <2>q. QED  BY <1>7, <2>1, <2>3 DEF FilesInv
<1>14. SignedInv(a)'  BY <1>4, <1>9 DEF SignedInv, Calls
<1>l. LateInv(a)'
  <2>1. LateInv(a) /\ kind[a] \in {"none", how} /\ Opens(a, r, s)
    BY <1>1 DEF AttemptInv, Calls
  <2>q. QED  BY <1>1, <1>4, <2>1, MoveLate
<1>15. AttemptInv(a)'
  BY <1>10, <1>11, <1>12, <1>13, <1>14, <1>l DEF AttemptInv
<1>16. request \in Attempts \cup {Absent, Torn}
  BY <1>1 DEF TypeOK, Files, Calls
<1>17. \/ request \in {signed[a], files["csr"], Absent}
       \/ request = a /\ "key" \in w
  BY DEF Calls
<1>18. TypeOK'  BY <1>1, <1>3, <1>16, MoveTyped
<1>19. KeyInv'  BY <1>3, <1>17, MoveKey DEF Calls
<1>20. \A b \in Attempts : AttemptInv(b)'
  BY <1>1, <1>3, <1>15, MoveOthers DEF AttemptsInv
<1>21. QuietStep
  <2>1. late[a] = 0  BY <1>1 DEF AttemptInv, LateInv, Calls
  <2>2. ~(0 > 0)  OBVIOUS
  <2>3. ~Over(a)  BY <1>2, <2>1, <2>2 DEF Over
  <2>q. QED  BY <1>1, <1>3, <2>3, MoveQuiet
<1>q. QED  BY <1>18, <1>19, <1>20, <1>21 DEF AttemptsInv

(* What an answer, the end of one or an error makes of an attempt. *)
Answered(a, w, t, r, s, what) ==
    \/ /\ w = {} /\ t = {} /\ s = stage[a]
       /\ \/ /\ http[a].phase = "waiting" /\ r.phase \in {"waiting", "reading"}
             /\ what = "nothing"
          \/ /\ http[a].phase = "waiting" /\ r.phase = "draining"
             /\ r.redirects = MaxRedirects /\ what # "success"
          \/ r.phase = "lost" /\ what = "nothing"
          \/ /\ r.phase = "idle"
             /\ Asking(a) \/ r.redirects = http[a].redirects
             /\ what # "success" \/ (Asking(a) /\ a \in empty')
    \/ /\ Asking(a) /\ stage[a] = "provision" /\ r.phase = "idle"
       /\ \/ w = Files \ {"key", "csr"} /\ what # "error"
          \/ w \subseteq Files \ {"key", "csr", "cert"} /\ what # "success"
    \/ /\ Asking(a) /\ stage[a] = "certChain" /\ w \cup t \subseteq {"ca"}
       /\ \/ r.phase = "idle" /\ what # "success"
          \/ w = {"ca"} /\ r.phase = "waiting" /\ s = "brokers" /\ what = "nothing"
    \/ /\ Asking(a) /\ stage[a] = "brokers" /\ r.phase = "idle"
       /\ w \subseteq {"brokers", "wsBrokers"} /\ t \subseteq ConfigFile
       /\ what = "success" => \/ w = {"brokers", "wsBrokers"}
                             \/ (files["certs"] = Torn /\ w \cup t = {})

Answers(a, w, t, r, s, what) ==
    /\ w \in SUBSET (Files \ {"key", "csr"}) /\ t \in SUBSET (Files \ {"key", "csr"})
    /\ r \in Request /\ s \in Stages /\ what \in {"nothing", "error", "success"}
    /\ Moves(a, w, t, r, s, what) /\ UNCHANGED <<kind, signed>>
    /\ http[a].phase \in {"waiting", "reading", "draining"} /\ a \notin dead
    /\ Opens(a, r, s) /\ Answered(a, w, t, r, s, what)

LEMMA AnswerMoves ==
    ASSUME AttemptsInv, NEW a \in Attempts, NEW w, NEW t, NEW r, NEW s, NEW what,
           Answers(a, w, t, r, s, what)
    PROVE  AttemptsInv' /\ QuietStep
<1>0. /\ w \in SUBSET (Files \ {"key", "csr"}) /\ t \in SUBSET (Files \ {"key", "csr"})
      /\ r \in Request /\ s \in Stages /\ what \in {"nothing", "error", "success"}
      /\ Moves(a, w, t, r, s, what) /\ kind' = kind /\ signed' = signed
      /\ http[a].phase \in {"waiting", "reading", "draining"}
      /\ Answered(a, w, t, r, s, what)
  BY DEF Answers
<1>. USE <1>0
<1>1. TypeOK /\ AttemptInv(a)  BY DEF AttemptsInv
<1>2. kind[a] # "none"  BY <1>1 DEF AttemptInv, CallInv
<1>3. w \in SUBSET Files /\ t \in SUBSET Files  OBVIOUS
<1>4. kind[a] \in Kinds /\ signed[a] \in Attempts \cup {Absent, Torn}
  BY <1>1, <1>2 DEF TypeOK, Kinds
<1>5. Keeps(a, kind[a], signed[a])
  BY <1>1 DEF Keeps, TypeOK
<1>6. /\ http'[a] = r /\ stage'[a] = s /\ kind'[a] = kind[a] /\ signed'[a] = signed[a]
      /\ told'[a] = IF what = "nothing" THEN told[a] ELSE Append(told[a], what)
  BY <1>1 DEF Moves, Outcome, TypeOK
<1>7. a \notin {Absent, Torn}  BY AttemptsAssumption
<1>8. touched'[a] = touched[a]  BY <1>1, <1>3, MoveFacts
<1>9. \A f \in Files : /\ files'[f] = a <=> f \in w \/ (files[f] = a /\ f \notin t)
                       /\ f \notin w \cup t => files'[f] = files[f]
  <2>1. SUFFICES ASSUME NEW f \in Files
                 PROVE /\ files'[f] = a <=> f \in w \/ (files[f] = a /\ f \notin t)
                       /\ f \notin w \cup t => files'[f] = files[f]
    OBVIOUS
  <2>2. Save(a, w, t)  BY DEF Moves
  <2>3. f \in w => files'[f] = a  BY <2>2, <1>3 DEF Save
  <2>4. f \in t \ w => files'[f] = Torn  BY <2>2, <1>3 DEF Save
  <2>5. f \notin w \cup t => files'[f] = files[f]  BY <1>1, <1>3, MoveFacts
  <2>q. QED  BY <2>3, <2>4, <2>5, <1>7
<1>10. \/ told[a] = <<>>
       \/ (http[a].phase = "draining" /\ told[a] = <<"error">>)
  BY <1>1 DEF AttemptInv, RequestInv, Asking
<1>11. /\ what = "nothing" => told'[a] = told[a]
       /\ what = "error" => \/ told'[a] = <<"error">>
                            \/ /\ http[a].phase = "draining"
                               /\ told'[a] = <<"error", "error">>
       /\ what = "success" /\ Asking(a) => told'[a] = <<"success">>
  BY <1>6, <1>10, ToldFacts DEF Asking
<1>12. CallInv(a)'  BY <1>2, <1>6 DEF CallInv
<1>13. RequestInv(a)'
  <2>1. http[a].phase = "draining" =>
          http[a].redirects = MaxRedirects /\ ~Asking(a)
    BY <1>1 DEF AttemptInv, RequestInv, Asking
  <2>2. what = "success" => Asking(a) /\ r.phase = "idle"  BY DEF Answered
  <2>3. r.phase \in {"waiting", "reading", "draining"} /\ http[a].phase = "draining"
          => FALSE
    BY DEF Answered, Asking
  <2>4. r.phase \in {"waiting", "reading"} => what = "nothing"  BY DEF Answered
  <2>5. r.phase = "draining" => what # "success" /\ r.redirects = MaxRedirects
    BY DEF Answered
  <2>6. http[a].phase = "draining" /\ what = "error"
          => r.phase = "idle" /\ r.redirects = http[a].redirects
    BY <2>1 DEF Answered
  <2>7. CASE what = "nothing"
    <3>1. told'[a] = <<>> \/ (http[a].phase = "draining" /\ told'[a] = <<"error">>)
      BY <2>7, <1>10, <1>11
    <3>q. QED  BY <3>1, <1>6, <2>3, <2>5, ToldFacts DEF RequestInv, Asking
  <2>8. CASE what = "error"
    <3>1. CASE told'[a] = <<"error">>
      BY <3>1, <2>8, <1>6, <2>4, <2>5, ToldFacts DEF RequestInv, Asking
    <3>2. CASE http[a].phase = "draining" /\ told'[a] = <<"error", "error">>
      BY <3>2, <2>8, <1>6, <2>1, <2>6, ToldFacts DEF RequestInv, Asking
    <3>q. QED  BY <3>1, <3>2, <2>8, <1>11
  <2>9. CASE what = "success"
    BY <2>9, <1>6, <1>11, <2>2, ToldFacts DEF RequestInv, Asking
  <2>q. QED  BY <2>7, <2>8, <2>9
<1>14. {"cert", "brokers", "wsBrokers", "ca", "certs", "key", "csr"} = Files
  BY DEF Files, ConfigFile
<1>15. StageInv(a)'
  <2>1. SUFFICES ASSUME Asking(a)' PROVE StageInv(a)!2'
    BY DEF StageInv
  <2>2. Asking(a)  BY <2>1, <1>6 DEF Answered, Asking
  <2>3. StageInv(a)!2  BY <1>1, <2>2 DEF AttemptInv, StageInv
  <2>4. CASE w = {} /\ t = {} /\ s = stage[a]
    <3>1. \A f \in Files : files'[f] = files[f]  BY <2>4, <1>9
    <3>q. QED  BY <2>3, <2>4, <3>1, <1>6, <1>8, <1>14
  <2>5. CASE w = {"ca"} /\ t \subseteq {"ca"} /\ stage[a] = "certChain" /\ s = "brokers"
    <3>1. \A f \in {"cert", "brokers", "wsBrokers"} : files'[f] # a
      BY <2>3, <2>5, <1>9, <1>14
    <3>2. files'["ca"] = a  BY <2>5, <1>9, <1>14
    <3>3. kind'[a] = "update"  BY <2>3, <2>5, <1>6
    <3>q. QED  BY <3>1, <3>2, <3>3, <2>5, <1>6
  <2>6. r.phase # "idle"  BY <2>1, <1>6 DEF Asking
  <2>q. QED  BY <2>4, <2>5, <2>6 DEF Answered
<1>16. FilesInv(a)'
  <2>1. Stores(a)' = Stores(a)  BY <1>6 DEF Stores
  <2>2. /\ kind[a] \in {"generate", "csrFile"}
           => Stores(a) = IF kind[a] = "generate" THEN Files ELSE Files \ {"key", "csr"}
        /\ kind[a] = "update" => Stores(a) = {"ca", "brokers", "wsBrokers"}
        /\ Stores(a) \subseteq Files
    BY <1>4 DEF Stores, Kinds, Files, ConfigFile
  <2>3. told'[a] = <<"success">> => what = "success"
    BY <1>10, <1>11, ToldFacts
  <2>4. CASE w = {} /\ t = {} /\ (what = "success" => a \in empty')
    <3>1. \A f \in Files : files'[f] = files[f]  BY <2>4, <1>9
    <3>2. FilesInv(a)  BY <1>1 DEF AttemptInv
    <3>q. QED  BY <3>1, <3>2, <2>1, <2>2, <2>3, <2>4, <1>6, <1>8, <1>14 DEF FilesInv
  <2>5. CASE /\ Asking(a) /\ stage[a] = "provision"
             /\ \/ w = Files \ {"key", "csr"}
                \/ w \subseteq Files \ {"key", "csr", "cert"} /\ what # "success"
    <3>1. /\ kind[a] \in {"generate", "csrFile"} /\ files["cert"] # a
          /\ kind[a] = "generate" /\ touched[a] = {}
               => files["key"] = a /\ files["csr"] = a
      BY <1>1, <2>5 DEF AttemptInv, StageInv
    <3>2. CASE w = Files \ {"key", "csr"}
      <4>1. touched[a] = {} => \A f \in Stores(a) : files'[f] = a
        BY <3>1, <3>2, <2>2, <1>9, <1>14
      <4>q. QED  BY <4>1, <3>1, <2>1, <1>6, <1>8 DEF FilesInv
    <3>3. CASE "cert" \notin w /\ what # "success"
      <4>1. files'["cert"] # a  BY <3>1, <3>3, <1>9, <1>14
      <4>q. QED  BY <4>1, <3>1, <3>3, <2>3, <1>6 DEF FilesInv
    <3>q. QED  BY <2>5, <3>2, <3>3, <1>14
  <2>6. CASE /\ Asking(a) /\ stage[a] = "certChain" /\ w \cup t \subseteq {"ca"}
             /\ what # "success"
    <3>1. \A f \in {"cert", "brokers", "wsBrokers"} : files[f] # a
      BY <1>1, <2>6 DEF AttemptInv, StageInv
    <3>2. \A f \in {"cert", "brokers", "wsBrokers"} : files'[f] # a
      BY <3>1, <2>6, <1>9, <1>14
    <3>q. QED  BY <3>2, <2>3, <2>6 DEF FilesInv
  <2>7. CASE /\ Asking(a) /\ stage[a] = "brokers"
             /\ w \subseteq {"brokers", "wsBrokers"} /\ t \subseteq ConfigFile
             /\ what = "success" => \/ w = {"brokers", "wsBrokers"}
                                   \/ (files["certs"] = Torn /\ w \cup t = {})
    <3>1. /\ files["cert"] # a /\ kind[a] = "update"
          /\ touched[a] = {} => files["ca"] = a
      BY <1>1, <2>7 DEF AttemptInv, StageInv
    <3>2. "cert" \notin w \cup t /\ "ca" \notin w \cup t
      BY <2>7 DEF ConfigFile
    <3>3. files'["cert"] # a /\ (touched[a] = {} => files'["ca"] = a)
      BY <3>1, <3>2, <1>9, <1>14
    <3>4. what = "success" /\ files'["certs"] # Torn /\ touched[a] = {}
            => \A f \in Stores(a) : files'[f] = a
      BY <2>7, <3>1, <3>3, <2>2, <1>9, <1>14
    <3>q. QED  BY <3>1, <3>3, <3>4, <2>1, <2>3, <1>6, <1>8 DEF FilesInv
  <2>q. QED
    BY <2>4, <2>5, <2>6, <2>7 DEF Answered
<1>17. SignedInv(a)'  BY <1>1, <1>6 DEF AttemptInv, SignedInv
<1>l. LateInv(a)'
  <2>1. LateInv(a) /\ Opens(a, r, s)  BY <1>1 DEF AttemptInv, Answers
  <2>q. QED  BY <1>1, <1>4, <1>6, <2>1, MoveLate
<1>18. AttemptInv(a)'
  BY <1>12, <1>13, <1>15, <1>16, <1>17, <1>l DEF AttemptInv
<1>19. TypeOK'
  <2>1. ASSUME NEW how \in Kinds, NEW request \in Attempts \cup {Absent, Torn},
               Keeps(a, how, request)
        PROVE  TypeOK'
    BY <1>1, <1>3, <2>1, MoveTyped
  <2>q. QED  BY <1>4, <1>5, <2>1
<1>20. KeyInv'
  <2>1. "key" \notin w \cup t /\ "csr" \notin w  OBVIOUS
  <2>q. QED  BY <2>1, <1>3, <1>4, <1>5, MoveKey
<1>21. \A b \in Attempts : AttemptInv(b)'
  BY <1>1, <1>3, <1>5, <1>18, MoveOthers DEF AttemptsInv
<1>22. QuietStep
  <2>1. told[a] # <<>> => w = {}  BY <1>10 DEF Answered, Asking
  <2>2. ~(a \in alone /\ late[a] > 0)  BY <1>1 DEF AttemptInv, LateInv, Answers
  <2>3. Over(a) => w = {}  BY <2>1, <2>2 DEF Over
  <2>q. QED  BY <2>3, <1>1, <1>3, MoveQuiet
<1>q. QED  BY <1>19, <1>20, <1>21, <1>22 DEF AttemptsInv

-----------------------------------------------------------------------------
(* The steps of the functions *)

LEMMA GeneratedSaved ==
    ASSUME NEW a \in Attempts
    PROVE  /\ SaveAll(a, Generated) => Save(a, {"key", "csr"}, {})
           /\ SaveFails(a, Generated)
                => \E w \in {{}, {"key"}}, t \in SUBSET {"key", "csr"} : Save(a, w, t)
<1>1. Len(Generated) = 2 /\ Generated[1] = {"key"} /\ Generated[2] = {"csr"}
  BY DEF Generated
<1>2. ASSUME SaveAll(a, Generated) PROVE Save(a, {"key", "csr"}, {})
  <2>1. UNION {Generated[i] : i \in 1..2} = {"key", "csr"}  BY <1>1
  <2>q. QED  BY <1>1, <1>2, <2>1 DEF SaveAll
<1>3. ASSUME SaveFails(a, Generated)
      PROVE  \E w \in {{}, {"key"}}, t \in SUBSET {"key", "csr"} : Save(a, w, t)
  <2>0. PICK n \in 1..2 :
          \E torn \in {{}, Generated[n]} :
             Save(a, UNION {Generated[i] : i \in 1..(n - 1)}, torn)
    BY <1>1, <1>3 DEF SaveFails
  <2>1. PICK torn \in {{}, Generated[n]} :
          Save(a, UNION {Generated[i] : i \in 1..(n - 1)}, torn)
    BY <2>0
  <2>2. torn \in SUBSET {"key", "csr"}  BY <1>1
  <2>3. CASE n = 1
    <3>1. UNION {Generated[i] : i \in 1..(n - 1)} = {}  BY <2>3
    <3>q. QED  BY <2>1, <2>2, <3>1
  <2>4. CASE n = 2
    <3>1. UNION {Generated[i] : i \in 1..(n - 1)} = {"key"}  BY <1>1, <2>4
    <3>q. QED  BY <2>1, <2>2, <3>1
  <2>q. QED  BY <2>3, <2>4
<1>q. QED  BY <1>2, <1>3

LEMMA ProvisionSaved ==
    ASSUME NEW a \in Attempts
    PROVE  /\ SaveAll(a, ProvisionFiles) => Save(a, Files \ {"key", "csr"}, {})
           /\ SaveFails(a, ProvisionFiles)
                => \E w \in SUBSET (Files \ {"key", "csr", "cert"}),
                      t \in SUBSET (Files \ {"key", "csr"}) : Save(a, w, t)
<1>1. /\ Len(ProvisionFiles) = 3 /\ ProvisionFiles[1] = ConfigFile
      /\ ProvisionFiles[2] = {"ca"} /\ ProvisionFiles[3] = {"cert"}
  BY DEF ProvisionFiles
<1>2. ASSUME SaveAll(a, ProvisionFiles) PROVE Save(a, Files \ {"key", "csr"}, {})
  <2>1. UNION {ProvisionFiles[i] : i \in 1..3} = Files \ {"key", "csr"}
    BY <1>1 DEF Files, ConfigFile
  <2>q. QED  BY <1>1, <1>2, <2>1 DEF SaveAll
<1>3. ASSUME SaveFails(a, ProvisionFiles)
      PROVE  \E w \in SUBSET (Files \ {"key", "csr", "cert"}),
                t \in SUBSET (Files \ {"key", "csr"}) : Save(a, w, t)
  <2>0. PICK n \in 1..3 :
          \E torn \in {{}, ProvisionFiles[n]} :
             Save(a, UNION {ProvisionFiles[i] : i \in 1..(n - 1)}, torn)
    BY <1>1, <1>3 DEF SaveFails
  <2>1. PICK torn \in {{}, ProvisionFiles[n]} :
          Save(a, UNION {ProvisionFiles[i] : i \in 1..(n - 1)}, torn)
    BY <2>0
  <2>2. torn \in SUBSET (Files \ {"key", "csr"})
    BY <1>1 DEF Files, ConfigFile
  <2>3. \A i \in 1..(n - 1) : ProvisionFiles[i] \subseteq Files \ {"key", "csr", "cert"}
    BY <1>1 DEF Files, ConfigFile
  <2>4. UNION {ProvisionFiles[i] : i \in 1..(n - 1)}
          \in SUBSET (Files \ {"key", "csr", "cert"})
    BY <2>3
  <2>q. QED  BY <2>1, <2>2, <2>4
<1>q. QED  BY <1>2, <1>3

LEMMA CaSaved ==
    ASSUME NEW a \in Attempts
    PROVE  /\ SaveAll(a, <<{"ca"}>>) => Save(a, {"ca"}, {})
           /\ SaveFails(a, <<{"ca"}>>) => \E t \in SUBSET {"ca"} : Save(a, {}, t)
<1>. DEFINE steps == <<{"ca"}>>
<1>1. Len(steps) = 1 /\ steps[1] = {"ca"}  OBVIOUS
<1>. HIDE DEF steps
<1>2. ASSUME SaveAll(a, steps) PROVE Save(a, {"ca"}, {})
  <2>1. UNION {steps[i] : i \in 1..1} = {"ca"}  BY <1>1
  <2>q. QED  BY <1>1, <1>2, <2>1 DEF SaveAll
<1>3. ASSUME SaveFails(a, steps) PROVE \E t \in SUBSET {"ca"} : Save(a, {}, t)
  <2>0. PICK n \in 1..1 :
          \E torn \in {{}, steps[n]} :
             Save(a, UNION {steps[i] : i \in 1..(n - 1)}, torn)
    BY <1>1, <1>3 DEF SaveFails
  <2>1. PICK torn \in {{}, steps[n]} :
          Save(a, UNION {steps[i] : i \in 1..(n - 1)}, torn)
    BY <2>0
  <2>2. UNION {steps[i] : i \in 1..(n - 1)} = {}  BY <2>1
  <2>3. torn \in SUBSET {"ca"}  BY <1>1
  <2>q. QED  BY <2>1, <2>2, <2>3
<1>q. QED  BY <1>2, <1>3 DEF steps

(* What a call leaves of request and stage, and what it is told. *)
Leaves(a, r, s, what) ==
    /\ http' = [http EXCEPT ![a] = r]
    /\ stage' = [stage EXCEPT ![a] = s]
    /\ Outcome(a, what)

LEMMA UnchangedLeaves ==
    ASSUME TypeOK, NEW a \in Attempts, UNCHANGED <<http, stage>>, NEW what,
           Outcome(a, what)
    PROVE  Leaves(a, http[a], stage[a], what)
BY DEF Leaves, TypeOK

LEMMA FinishFacts ==
    ASSUME TypeOK, NEW a \in Attempts, NEW what \in {"success", "error"},
           NEW hears, Finish(a, what, hears)
    PROVE  \E heard \in {"nothing", what} : Leaves(a, http[a], stage[a], heard)
<1>1. Tell(a, what, TRUE, hears) /\ UNCHANGED <<http, stage>>
  BY DEF Finish
<1>2. PICK always \in BOOLEAN : always = TRUE  OBVIOUS
<1>3. Tell(a, what, always, hears)  BY <1>1, <1>2
<1>4. PICK heard \in {"nothing", what} : Outcome(a, heard)  BY <1>3, TellFacts
<1>q. QED  BY <1>1, <1>4, UnchangedLeaves

(* The request of a call that is over, and the first of a command. *)
Ended(a) == [http[a] EXCEPT !.phase = "idle"]
Sent(a) == HttpGet(http[a], 0)

LEMMA AskFacts ==
    ASSUME TypeOK, NEW a \in Attempts, NEW asked, NEW inCall, NEW hears,
           Ask(a, asked, inCall, hears)
    PROVE  \/ \E heard \in {"nothing", "error"} : Leaves(a, Ended(a), stage[a], heard)
           \/ Leaves(a, Sent(a), asked, "nothing")
<1>1. stage = [stage EXCEPT ![a] = stage[a]]  BY DEF TypeOK
<1>2. CASE /\ Throw(a, inCall) /\ http' = [http EXCEPT ![a] = Ended(a)]
           /\ UNCHANGED stage
  <2>1. Outcome(a, "nothing")  BY <1>2, ThrowFacts
  <2>q. QED  BY <1>1, <1>2, <2>1 DEF Leaves
<1>3. CASE /\ Tell(a, "error", inCall, hears)
           /\ http' = [http EXCEPT ![a] = Ended(a)] /\ UNCHANGED stage
  <2>1. PICK heard \in {"nothing", "error"} : Outcome(a, heard)
    BY <1>3, TellFacts
  <2>q. QED  BY <1>1, <1>3, <2>1 DEF Leaves
<1>4. CASE /\ http' = [http EXCEPT ![a] = Sent(a)]
           /\ stage' = [stage EXCEPT ![a] = asked] /\ UNCHANGED outcome
  <2>1. Outcome(a, "nothing")  BY <1>4 DEF outcome, Outcome, TypeOK
  <2>q. QED  BY <1>4, <2>1 DEF Leaves
<1>5. /\ [http EXCEPT ![a].phase = "idle"] = [http EXCEPT ![a] = Ended(a)]
      /\ [http EXCEPT ![a] = HttpGet(@, 0)] = [http EXCEPT ![a] = Sent(a)]
  BY DEF Ended, Sent
<1>q. QED  BY <1>2, <1>3, <1>4, <1>5 DEF Ask

LEMMA IdleType == /\ Idle \in Request /\ Idle.phase = "idle" /\ Idle.open = 0
BY RedirectsAssumption DEF Idle, Request

LEMMA RequestTypes ==
    ASSUME TypeOK, NEW a \in Attempts
    PROVE  /\ Ended(a) \in Request /\ Ended(a).phase = "idle"
           /\ Opens(a, Ended(a), stage[a])
           /\ Sent(a) \in Request /\ Sent(a).phase = "waiting"
           /\ kind[a] = "none" => \A s \in {"provision", "certChain"} :
                                    Opens(a, Sent(a), s)
           /\ kind[a] = "update" /\ stage[a] = "certChain"
                => Opens(a, Sent(a), "brokers")
<1>1. http[a] \in Request  BY DEF TypeOK
<1>2. /\ Ended(a) \in Request /\ Ended(a).phase = "idle"
      /\ Ended(a).open = http[a].open
  BY <1>1 DEF Ended, Request
<1>3. /\ Sent(a) \in Request /\ Sent(a).phase = "waiting"
      /\ Sent(a).redirects = 0 /\ Sent(a).open = http[a].open
  <2>1. 0 \in 0..MaxRedirects  BY RedirectsAssumption
  <2>q. QED  BY <1>1, <2>1 DEF Sent, HttpGet, Request
<1>q. QED  BY <1>2, <1>3 DEF Opens

(* An attempt that is called: its request is idle, it keeps what it is      *)
(* called for, and the request that it signed.                              *)
LEMMA CallFacts ==
    ASSUME AttemptsInv, NEW a \in Attempts, NEW how \in Kinds, NEW hears,
           Call(a, how, hears)
    PROVE  /\ TypeOK /\ kind[a] = "none" /\ a \notin dead
           /\ http[a] \in Request /\ http[a].phase = "idle" /\ stage[a] \in Stages
           /\ Opens(a, http[a], stage[a])
           /\ listens' \in SUBSET Attempts
           /\ UNCHANGED signed => Keeps(a, how, Absent)
           /\ \A request : Signs(a, request) => Keeps(a, how, request)
<1>1. TypeOK /\ AttemptInv(a) /\ kind[a] = "none"  BY DEF AttemptsInv, Call
<1>2. http[a].phase = "idle" /\ signed[a] = Absent
  BY <1>1 DEF AttemptInv, CallInv
<1>3. kind' = [kind EXCEPT ![a] = how] /\ listens' \in SUBSET Attempts
      /\ a \notin dead
  BY <1>1 DEF Call, TypeOK
<1>4. UNCHANGED signed => signed' = [signed EXCEPT ![a] = Absent]
  BY <1>1, <1>2 DEF TypeOK
<1>5. http[a] \in Request /\ stage[a] \in Stages  BY <1>1 DEF TypeOK, Stages
<1>6. Opens(a, http[a], stage[a])  BY <1>2 DEF Opens
<1>q. QED  BY <1>1, <1>2, <1>3, <1>4, <1>5, <1>6 DEF Keeps, Signs

LEMMA EmptyFacts ==
    ASSUME TypeOK, NEW a \in Attempts, empty' \in {empty, empty \cup {a}}
    PROVE  empty' \in SUBSET Attempts /\ empty' \ {a} = empty \ {a}
BY DEF TypeOK

(* A key that is not made, or only half. *)
LEMMA GenerateFailsStep ==
    ASSUME AttemptsInv, NEW a \in Attempts, NEW hears, GenerateFails(a, hears),
           UNCHANGED <<alone, late>>, NEW how \in {"generate", "generateCsr"},
           Call(a, how, hears)
    PROVE  AttemptsInv' /\ QuietStep
<1>1. how \in Kinds  BY DEF Kinds
<1>2. /\ TypeOK /\ kind[a] = "none" /\ a \notin dead
      /\ http[a] \in Request /\ http[a].phase = "idle" /\ stage[a] \in Stages
      /\ Opens(a, http[a], stage[a])
      /\ listens' \in SUBSET Attempts /\ Keeps(a, how, Absent)
  BY <1>1, CallFacts DEF GenerateFails
<1>3. PICK w \in SUBSET {"key", "csr"}, t \in SUBSET {"key", "csr"} :
        Save(a, w, t) /\ ("csr" \in w => "key" \in w)
  <2>1. CASE SaveFails(a, Generated)
    <3>1. PICK w \in {{}, {"key"}}, t \in SUBSET {"key", "csr"} : Save(a, w, t)
      BY <2>1, GeneratedSaved
    <3>q. QED  BY <3>1
  <2>2. CASE SaveAll(a, Generated)  BY <2>2, GeneratedSaved
  <2>q. QED  BY <2>1, <2>2 DEF GenerateFails
<1>4. PICK heard \in {"nothing", "error"} : Leaves(a, http[a], stage[a], heard)
  <2>1. CASE Finish(a, "error", hears)  BY <1>2, <2>1, FinishFacts
  <2>2. CASE Killed(a) /\ UNCHANGED <<http, stage>>
    BY <1>2, <2>2, KilledFacts, UnchangedLeaves
  <2>q. QED  BY <2>1, <2>2 DEF GenerateFails
<1>5. empty' \in SUBSET Attempts /\ empty' \ {a} = empty \ {a}
  BY <1>2, EmptyFacts DEF GenerateFails
<1>6. Moves(a, w, t, http[a], stage[a], heard)
  BY <1>2, <1>3, <1>4, <1>5 DEF Moves, Leaves
<1>7. Calls(a, how, Absent, w, t, http[a], stage[a], heard)
  BY <1>1, <1>2, <1>3, <1>6 DEF Calls
<1>q. QED  BY <1>7, CallMoves

LEMMA GenerateCsrStep ==
    ASSUME AttemptsInv, NEW a \in Attempts, GenerateCsr(a), UNCHANGED <<alone, late>>
    PROVE  AttemptsInv' /\ QuietStep
<1>0. PICK hears \in BOOLEAN : hears = TRUE  OBVIOUS
<1>1. "generateCsr" \in Kinds  BY DEF Kinds
<1>2. Call(a, "generateCsr", hears)  BY <1>0 DEF GenerateCsr
<1>3. /\ TypeOK /\ kind[a] = "none" /\ a \notin dead
      /\ http[a] \in Request /\ http[a].phase = "idle" /\ stage[a] \in Stages
      /\ Opens(a, http[a], stage[a])
      /\ listens' \in SUBSET Attempts
      /\ UNCHANGED signed => Keeps(a, "generateCsr", Absent)
  BY <1>1, <1>2, CallFacts
<1>4. CASE GenerateFails(a, TRUE)
  <2>1. GenerateFails(a, hears)  BY <1>0, <1>4
  <2>q. QED  BY <1>2, <2>1, GenerateFailsStep
<1>5. CASE /\ SaveAll(a, Generated) /\ Finish(a, "success", TRUE)
           /\ UNCHANGED <<empty, signed>>
  <2>1. Save(a, {"key", "csr"}, {})  BY <1>5, GeneratedSaved
  <2>2. Finish(a, "success", hears)  BY <1>0, <1>5
  <2>3. PICK heard \in {"nothing", "success"} : Leaves(a, http[a], stage[a], heard)
    BY <1>3, <2>2, FinishFacts
  <2>4. empty' \in SUBSET Attempts /\ empty' \ {a} = empty \ {a}
    BY <1>3, <1>5, EmptyFacts
  <2>5. Moves(a, {"key", "csr"}, {}, http[a], stage[a], heard)
    BY <1>3, <2>1, <2>3, <2>4 DEF Moves, Leaves
  <2>6. Calls(a, "generateCsr", Absent, {"key", "csr"}, {}, http[a], stage[a], heard)
    BY <1>1, <1>3, <1>5, <2>5 DEF Calls
  <2>q. QED  BY <2>6, CallMoves
<1>q. QED  BY <1>4, <1>5 DEF GenerateCsr

(* A signing request that cannot be read back. *)
LEMMA UnreadableFacts ==
    ASSUME TypeOK, NEW a \in Attempts, NEW hears, Unreadable(a, hears)
    PROVE  /\ \E heard \in {"nothing", "success"} :
                 Leaves(a, http[a], stage[a], heard)
           /\ empty' \in SUBSET Attempts /\ empty' \ {a} = empty \ {a}
           /\ a \in empty' /\ UNCHANGED signed
<1>1. Finish(a, "success", hears) /\ empty' = empty \cup {a} /\ UNCHANGED signed
  BY DEF Unreadable
<1>2. \E heard \in {"nothing", "success"} : Leaves(a, http[a], stage[a], heard)
  BY <1>1, FinishFacts
<1>q. QED  BY <1>1, <1>2, EmptyFacts

LEMMA ProvisionGenerateStep ==
    ASSUME AttemptsInv, NEW a \in Attempts, NEW hears, ProvisionGenerate(a, hears),
           UNCHANGED <<alone, late>>
    PROVE  AttemptsInv' /\ QuietStep
<1>1. "generate" \in Kinds  BY DEF Kinds
<1>2. Call(a, "generate", hears)  BY DEF ProvisionGenerate
<1>3. /\ TypeOK /\ kind[a] = "none" /\ a \notin dead
      /\ http[a] \in Request /\ http[a].phase = "idle" /\ stage[a] \in Stages
      /\ Opens(a, http[a], stage[a])
      /\ listens' \in SUBSET Attempts
      /\ UNCHANGED signed => Keeps(a, "generate", Absent)
      /\ Signs(a, a) => Keeps(a, "generate", a)
  BY <1>1, <1>2, CallFacts
<1>4. CASE GenerateFails(a, hears)  BY <1>2, <1>4, GenerateFailsStep
<1>5. CASE SaveAll(a, Generated) /\ Unreadable(a, hears)
  <2>1. Save(a, {"key", "csr"}, {})  BY <1>5, GeneratedSaved
  <2>2. PICK heard \in {"nothing", "success"} : Leaves(a, http[a], stage[a], heard)
    BY <1>3, <1>5, UnreadableFacts
  <2>3. /\ empty' \in SUBSET Attempts /\ empty' \ {a} = empty \ {a} /\ a \in empty'
        /\ UNCHANGED signed
    BY <1>3, <1>5, UnreadableFacts
  <2>4. Moves(a, {"key", "csr"}, {}, http[a], stage[a], heard)
    BY <1>3, <2>1, <2>2, <2>3 DEF Moves, Leaves
  <2>5. Calls(a, "generate", Absent, {"key", "csr"}, {}, http[a], stage[a], heard)
    BY <1>1, <1>3, <2>3, <2>4 DEF Calls
  <2>q. QED  BY <2>5, CallMoves
<1>6. CASE /\ SaveAll(a, Generated) /\ Ask(a, "provision", TRUE, hears)
           /\ Signs(a, a) /\ UNCHANGED empty
  <2>1. Save(a, {"key", "csr"}, {})  BY <1>6, GeneratedSaved
  <2>2. empty' \in SUBSET Attempts /\ empty' \ {a} = empty \ {a}
    BY <1>3, <1>6, EmptyFacts
  <2>3. PICK always \in BOOLEAN : always = TRUE  OBVIOUS
  <2>4. Ask(a, "provision", always, hears)  BY <1>6, <2>3
  <2>5. \/ \E heard \in {"nothing", "error"} : Leaves(a, Ended(a), stage[a], heard)
        \/ Leaves(a, Sent(a), "provision", "nothing")
    BY <1>3, <2>4, AskFacts
  <2>6. ASSUME NEW heard \in {"nothing", "error"}, Leaves(a, Ended(a), stage[a], heard)
        PROVE  AttemptsInv' /\ QuietStep
    <3>1. Moves(a, {"key", "csr"}, {}, Ended(a), stage[a], heard)
      BY <1>3, <2>1, <2>2, <2>6 DEF Moves, Leaves
    <3>2. Calls(a, "generate", a, {"key", "csr"}, {}, Ended(a), stage[a], heard)
      BY <1>1, <1>3, <1>6, <3>1, RequestTypes DEF Calls
    <3>q. QED  BY <3>2, CallMoves
  <2>7. CASE Leaves(a, Sent(a), "provision", "nothing")
    <3>1. Moves(a, {"key", "csr"}, {}, Sent(a), "provision", "nothing")
      BY <1>3, <2>1, <2>2, <2>7 DEF Moves, Leaves
    <3>2. Calls(a, "generate", a, {"key", "csr"}, {}, Sent(a), "provision", "nothing")
      BY <1>1, <1>3, <1>6, <3>1, RequestTypes DEF Calls, Stages
    <3>q. QED  BY <3>2, CallMoves
  <2>q. QED  BY <2>5, <2>6, <2>7
<1>q. QED  BY <1>4, <1>5, <1>6 DEF ProvisionGenerate

LEMMA ProvisionCsrFileStep ==
    ASSUME AttemptsInv, NEW a \in Attempts, NEW hears, ProvisionCsrFile(a, hears),
           UNCHANGED <<alone, late>>
    PROVE  AttemptsInv' /\ QuietStep
<1>1. "csrFile" \in Kinds  BY DEF Kinds
<1>2. Call(a, "csrFile", hears) /\ UNCHANGED directory  BY DEF ProvisionCsrFile
<1>3. /\ TypeOK /\ kind[a] = "none" /\ a \notin dead
      /\ http[a] \in Request /\ http[a].phase = "idle" /\ stage[a] \in Stages
      /\ Opens(a, http[a], stage[a])
      /\ listens' \in SUBSET Attempts
      /\ UNCHANGED signed => Keeps(a, "csrFile", Absent)
      /\ \A request : Signs(a, request) => Keeps(a, "csrFile", request)
  BY <1>1, <1>2, CallFacts
<1>4. Save(a, {}, {})  BY <1>2, <1>3, NothingSaved
<1>5. CASE Finish(a, "error", hears) /\ UNCHANGED <<empty, signed>>
  <2>1. PICK heard \in {"nothing", "error"} : Leaves(a, http[a], stage[a], heard)
    BY <1>3, <1>5, FinishFacts
  <2>2. empty' \in SUBSET Attempts /\ empty' \ {a} = empty \ {a}
    BY <1>3, <1>5, EmptyFacts
  <2>3. Moves(a, {}, {}, http[a], stage[a], heard)
    BY <1>3, <1>4, <2>1, <2>2 DEF Moves, Leaves
  <2>4. Calls(a, "csrFile", Absent, {}, {}, http[a], stage[a], heard)
    BY <1>1, <1>3, <1>5, <2>3 DEF Calls
  <2>q. QED  BY <2>4, CallMoves
<1>6. CASE Unreadable(a, hears)
  <2>1. PICK heard \in {"nothing", "success"} : Leaves(a, http[a], stage[a], heard)
    BY <1>3, <1>6, UnreadableFacts
  <2>2. /\ empty' \in SUBSET Attempts /\ empty' \ {a} = empty \ {a} /\ a \in empty'
        /\ UNCHANGED signed
    BY <1>3, <1>6, UnreadableFacts
  <2>3. Moves(a, {}, {}, http[a], stage[a], heard)
    BY <1>3, <1>4, <2>1, <2>2 DEF Moves, Leaves
  <2>4. Calls(a, "csrFile", Absent, {}, {}, http[a], stage[a], heard)
    BY <1>1, <1>3, <2>2, <2>3 DEF Calls
  <2>q. QED  BY <2>4, CallMoves
<1>7. CASE /\ Ask(a, "provision", TRUE, hears)
           /\ \E request \in {Absent, files["csr"]} : Signs(a, request)
           /\ UNCHANGED empty
  <2>1. PICK request \in {Absent, files["csr"]} : Signs(a, request)  BY <1>7
  <2>2. Keeps(a, "csrFile", request)  BY <1>3, <2>1
  <2>3. empty' \in SUBSET Attempts /\ empty' \ {a} = empty \ {a}
    BY <1>3, <1>7, EmptyFacts
  <2>4. PICK always \in BOOLEAN : always = TRUE  OBVIOUS
  <2>5. Ask(a, "provision", always, hears)  BY <1>7, <2>4
  <2>6. \/ \E heard \in {"nothing", "error"} : Leaves(a, Ended(a), stage[a], heard)
        \/ Leaves(a, Sent(a), "provision", "nothing")
    BY <1>3, <2>5, AskFacts
  <2>7. ASSUME NEW heard \in {"nothing", "error"}, Leaves(a, Ended(a), stage[a], heard)
        PROVE  AttemptsInv' /\ QuietStep
    <3>1. Moves(a, {}, {}, Ended(a), stage[a], heard)
      BY <1>3, <1>4, <2>3, <2>7 DEF Moves, Leaves
    <3>2. Calls(a, "csrFile", request, {}, {}, Ended(a), stage[a], heard)
      BY <1>1, <1>3, <2>1, <2>2, <3>1, RequestTypes DEF Calls
    <3>q. QED  BY <3>2, CallMoves
  <2>8. CASE Leaves(a, Sent(a), "provision", "nothing")
    <3>1. Moves(a, {}, {}, Sent(a), "provision", "nothing")
      BY <1>3, <1>4, <2>3, <2>8 DEF Moves, Leaves
    <3>2. Calls(a, "csrFile", request, {}, {}, Sent(a), "provision", "nothing")
      BY <1>1, <1>3, <2>1, <2>2, <3>1, RequestTypes DEF Calls, Stages
    <3>q. QED  BY <3>2, CallMoves
  <2>q. QED  BY <2>6, <2>7, <2>8
<1>q. QED  BY <1>5, <1>6, <1>7 DEF ProvisionCsrFile

LEMMA UpdateConfigStep ==
    ASSUME AttemptsInv, NEW a \in Attempts, NEW hears, UpdateConfig(a, hears),
           UNCHANGED <<alone, late>>
    PROVE  AttemptsInv' /\ QuietStep
<1>1. "update" \in Kinds  BY DEF Kinds
<1>2. Call(a, "update", hears) /\ UNCHANGED <<directory, empty, signed>>
  BY DEF UpdateConfig
<1>3. /\ TypeOK /\ kind[a] = "none" /\ a \notin dead
      /\ http[a] \in Request /\ http[a].phase = "idle" /\ stage[a] \in Stages
      /\ Opens(a, http[a], stage[a])
      /\ listens' \in SUBSET Attempts /\ Keeps(a, "update", Absent)
  BY <1>1, <1>2, CallFacts
<1>4. Save(a, {}, {})  BY <1>2, <1>3, NothingSaved
<1>5. empty' \in SUBSET Attempts /\ empty' \ {a} = empty \ {a}
  BY <1>2, <1>3, EmptyFacts
<1>6. CASE Finish(a, "error", hears)
  <2>1. PICK heard \in {"nothing", "error"} : Leaves(a, http[a], stage[a], heard)
    BY <1>3, <1>6, FinishFacts
  <2>2. Moves(a, {}, {}, http[a], stage[a], heard)
    BY <1>3, <1>4, <1>5, <2>1 DEF Moves, Leaves
  <2>3. Calls(a, "update", Absent, {}, {}, http[a], stage[a], heard)
    BY <1>1, <1>3, <2>2 DEF Calls
  <2>q. QED  BY <2>3, CallMoves
<1>7. CASE Ask(a, "certChain", TRUE, hears)
  <2>1. PICK always \in BOOLEAN : always = TRUE  OBVIOUS
  <2>2. Ask(a, "certChain", always, hears)  BY <1>7, <2>1
  <2>3. \/ \E heard \in {"nothing", "error"} : Leaves(a, Ended(a), stage[a], heard)
        \/ Leaves(a, Sent(a), "certChain", "nothing")
    BY <1>3, <2>2, AskFacts
  <2>4. ASSUME NEW heard \in {"nothing", "error"}, Leaves(a, Ended(a), stage[a], heard)
        PROVE  AttemptsInv' /\ QuietStep
    <3>1. Moves(a, {}, {}, Ended(a), stage[a], heard)
      BY <1>3, <1>4, <1>5, <2>4 DEF Moves, Leaves
    <3>2. Calls(a, "update", Absent, {}, {}, Ended(a), stage[a], heard)
      BY <1>1, <1>3, <3>1, RequestTypes DEF Calls
    <3>q. QED  BY <3>2, CallMoves
  <2>5. CASE Leaves(a, Sent(a), "certChain", "nothing")
    <3>1. Moves(a, {}, {}, Sent(a), "certChain", "nothing")
      BY <1>3, <1>4, <1>5, <2>5 DEF Moves, Leaves
    <3>2. Calls(a, "update", Absent, {}, {}, Sent(a), "certChain", "nothing")
      BY <1>1, <1>3, <3>1, RequestTypes DEF Calls, Stages
    <3>q. QED  BY <3>2, CallMoves
  <2>q. QED  BY <2>3, <2>4, <2>5
<1>q. QED  BY <1>6, <1>7 DEF UpdateConfig

-----------------------------------------------------------------------------
(* The steps of the response callbacks *)

(* An event at an attempt whose request is under way. *)
Event(a, r) ==
    /\ AttemptsInv /\ a \in Attempts /\ r \in Request
    /\ http[a].phase \in {"waiting", "reading", "draining"} /\ a \notin dead
    /\ UNCHANGED <<called, late>>

LEMMA EventFacts ==
    ASSUME NEW a, NEW r, Event(a, r)
    PROVE  /\ TypeOK /\ AttemptInv(a) /\ stage[a] \in Stages
           /\ alone' = alone /\ late' = late /\ listens' \in SUBSET Attempts
           /\ UNCHANGED <<kind, signed>> /\ a \notin dead
BY DEF Event, AttemptsInv, called, TypeOK, Stages

LEMMA DoneLeaves ==
    ASSUME TypeOK, NEW a \in Attempts, NEW r, NEW what, Done(a, r), Outcome(a, what)
    PROVE  Leaves(a, r, stage[a], what)
BY DEF TypeOK, Done, Leaves

LEMMA EventMoves ==
    ASSUME NEW a, NEW r, Event(a, r), NEW w, NEW t, NEW s, NEW what,
           Save(a, w, t), Leaves(a, r, s, what),
           empty' \in {empty, empty \cup {a}}
    PROVE  Moves(a, w, t, r, s, what)
<1>1. a \in Attempts  BY DEF Event
<1>2. TypeOK /\ alone' = alone /\ late' = late /\ listens' \in SUBSET Attempts
  BY EventFacts
<1>3. empty' \in SUBSET Attempts /\ empty' \ {a} = empty \ {a}
  BY <1>1, <1>2, EmptyFacts
<1>q. QED  BY <1>2, <1>3 DEF Moves, Leaves

(* An event after which the attempt stays where it is, or is over. *)
LEMMA NothingStep ==
    ASSUME NEW a, NEW r, Event(a, r), UNCHANGED directory, NEW what,
           Leaves(a, r, stage[a], what), empty' \in {empty, empty \cup {a}},
           what \in {"nothing", "error", "success"},
           Answered(a, {}, {}, r, stage[a], what), Opens(a, r, stage[a])
    PROVE  AttemptsInv' /\ QuietStep
<1>1. a \in Attempts /\ AttemptsInv /\ r \in Request
      /\ http[a].phase \in {"waiting", "reading", "draining"}
  BY DEF Event
<1>2. TypeOK /\ stage[a] \in Stages /\ UNCHANGED <<kind, signed>> /\ a \notin dead
  BY EventFacts
<1>3. Save(a, {}, {})  BY <1>1, <1>2, NothingSaved
<1>4. Moves(a, {}, {}, r, stage[a], what)  BY <1>3, EventMoves
<1>5. Answers(a, {}, {}, r, stage[a], what)
  BY <1>1, <1>2, <1>4 DEF Answers
<1>q. QED  BY <1>1, <1>5, AnswerMoves

(* What a handler may give to the response callback, and leave of the       *)
(* request.                                                                 *)
Delivers(a, result, r) ==
    /\ Event(a, r) /\ Opens(a, r, stage[a])
    /\ result = "none" =>
         http[a].phase = "waiting" /\ r.phase \in {"waiting", "reading"}
    /\ result = "error" =>
         \/ /\ r.phase = "idle"
            /\ Asking(a) \/ r.redirects = http[a].redirects
         \/ /\ http[a].phase = "waiting" /\ r.phase = "draining"
            /\ r.redirects = MaxRedirects
    /\ result = "throws" => r.phase = "lost"
    /\ result \in {"void", "good", "malformed"} => Asking(a) /\ r.phase = "idle"

LEMMA NoAnswerStep ==
    ASSUME NEW a, NEW r, NEW result \in {"error", "void"}, Delivers(a, result, r),
           NoAnswer(a, result, r)
    PROVE  AttemptsInv' /\ QuietStep
<1>1. Event(a, r) /\ Opens(a, r, stage[a])  BY DEF Delivers
<1>2. a \in Attempts /\ TypeOK  BY <1>1, EventFacts DEF Event
<1>3. PICK always \in BOOLEAN : always = FALSE  OBVIOUS
<1>4. PICK hears : hears = (a \in listens)  OBVIOUS
<1>5. CASE result = "void"
  <2>1. Tell(a, "success", always, hears) /\ Done(a, r) /\ UNCHANGED directory
        /\ empty' = empty \cup {a}
    BY <1>3, <1>4, <1>5 DEF NoAnswer
  <2>2. PICK heard \in {"nothing", "success"} : Outcome(a, heard)
    BY <1>2, <2>1, TellFacts
  <2>3. Leaves(a, r, stage[a], heard)  BY <1>2, <2>1, <2>2, DoneLeaves
  <2>4. a \in empty' /\ empty' \in {empty, empty \cup {a}}  BY <2>1
  <2>5. Answered(a, {}, {}, r, stage[a], heard)
    BY <1>5, <2>4 DEF Answered, Delivers
  <2>q. QED  BY <1>1, <2>1, <2>3, <2>4, <2>5, NothingStep
<1>6. CASE result = "error"
  <2>1. Tell(a, "error", always, hears) /\ Done(a, r) /\ UNCHANGED directory
        /\ empty' = empty
    BY <1>3, <1>4, <1>6 DEF NoAnswer
  <2>2. PICK heard \in {"nothing", "error"} : Outcome(a, heard)
    BY <1>2, <2>1, TellFacts
  <2>3. Leaves(a, r, stage[a], heard)  BY <1>2, <2>1, <2>2, DoneLeaves
  <2>4. empty' \in {empty, empty \cup {a}}  BY <2>1
  <2>5. Answered(a, {}, {}, r, stage[a], heard)
    BY <1>6 DEF Answered, Delivers
  <2>q. QED  BY <1>1, <2>1, <2>3, <2>4, <2>5, NothingStep
<1>q. QED  BY <1>5, <1>6

(* An error, or a kill, is heard or not. *)
LEMMA ErrorFacts ==
    ASSUME TypeOK, NEW a \in Attempts,
           Tell(a, "error", FALSE, a \in listens) \/ Killed(a)
    PROVE  \E heard \in {"nothing", "error"} : Outcome(a, heard)
<1>1. PICK always \in BOOLEAN : always = FALSE  OBVIOUS
<1>2. PICK hears : hears = (a \in listens)  OBVIOUS
<1>3. CASE Killed(a)  BY <1>3, KilledFacts
<1>4. CASE Tell(a, "error", FALSE, a \in listens)
  <2>1. Tell(a, "error", always, hears)  BY <1>1, <1>2, <1>4
  <2>q. QED  BY <2>1, TellFacts
<1>q. QED  BY <1>3, <1>4

LEMMA SuccessFacts ==
    ASSUME TypeOK, NEW a \in Attempts, Tell(a, "success", FALSE, a \in listens)
    PROVE  \E heard \in {"nothing", "success"} : Outcome(a, heard)
<1>1. PICK always \in BOOLEAN : always = FALSE  OBVIOUS
<1>2. PICK hears : hears = (a \in listens)  OBVIOUS
<1>3. Tell(a, "success", always, hears)  BY <1>1, <1>2
<1>q. QED  BY <1>3, TellFacts

(* An event that ends in an error and leaves the files alone. *)
LEMMA MalformedStep ==
    ASSUME NEW a, NEW r, Event(a, r), Asking(a), r.phase = "idle",
           Opens(a, r, stage[a]),
           UNCHANGED directory, UNCHANGED empty, Done(a, r),
           Tell(a, "error", FALSE, a \in listens) \/ Killed(a)
    PROVE  AttemptsInv' /\ QuietStep
<1>1. a \in Attempts /\ TypeOK  BY EventFacts DEF Event
<1>2. PICK heard \in {"nothing", "error"} : Outcome(a, heard)
  BY <1>1, ErrorFacts
<1>3. Leaves(a, r, stage[a], heard)  BY <1>1, <1>2, DoneLeaves
<1>4. Answered(a, {}, {}, r, stage[a], heard)  BY DEF Answered
<1>5. empty' \in {empty, empty \cup {a}}  OBVIOUS
<1>q. QED  BY <1>3, <1>4, <1>5, NothingStep

LEMMA StoreProvisionConfigStep ==
    ASSUME NEW a, NEW r, NEW result \in {"good", "malformed"},
           Delivers(a, result, r), stage[a] = "provision",
           StoreProvisionConfig(a, result, r)
    PROVE  AttemptsInv' /\ QuietStep
<1>1. Event(a, r) /\ Asking(a) /\ r.phase = "idle" /\ Opens(a, r, stage[a])
  BY DEF Delivers
<1>2. a \in Attempts /\ r \in Request /\ AttemptsInv
      /\ http[a].phase \in {"waiting", "reading", "draining"}
  BY <1>1 DEF Event
<1>3. TypeOK /\ stage[a] \in Stages /\ UNCHANGED <<kind, signed>> /\ a \notin dead
  BY <1>1, EventFacts
<1>4. Done(a, r) /\ UNCHANGED empty  BY DEF StoreProvisionConfig
<1>5. empty' \in {empty, empty \cup {a}}  BY <1>4
<1>6. CASE SaveAll(a, ProvisionFiles) /\ Tell(a, "success", FALSE, a \in listens)
  <2>. DEFINE w == Files \ {"key", "csr"}
  <2>1. PICK heard \in {"nothing", "success"} : Outcome(a, heard)
    BY <1>2, <1>3, <1>6, SuccessFacts
  <2>2. Leaves(a, r, stage[a], heard)  BY <1>2, <1>3, <1>4, <2>1, DoneLeaves
  <2>3. Save(a, w, {})  BY <1>2, <1>6, ProvisionSaved
  <2>4. w = Files \ {"key", "csr"}  OBVIOUS
  <2>. HIDE DEF w
  <2>5. Moves(a, w, {}, r, stage[a], heard)  BY <1>1, <1>5, <2>2, <2>3, EventMoves
  <2>6. Answered(a, w, {}, r, stage[a], heard)
    BY <1>1, <2>4 DEF Answered
  <2>7. Answers(a, w, {}, r, stage[a], heard)
    BY <1>1, <1>2, <1>3, <2>4, <2>5, <2>6 DEF Answers
  <2>q. QED  BY <1>2, <2>7, AnswerMoves
<1>7. CASE /\ SaveFails(a, ProvisionFiles)
           /\ Tell(a, "error", FALSE, a \in listens) \/ Killed(a)
  <2>1. PICK heard \in {"nothing", "error"} : Outcome(a, heard)
    BY <1>2, <1>3, <1>7, ErrorFacts
  <2>2. Leaves(a, r, stage[a], heard)  BY <1>2, <1>3, <1>4, <2>1, DoneLeaves
  <2>3. PICK w \in SUBSET (Files \ {"key", "csr", "cert"}),
             t \in SUBSET (Files \ {"key", "csr"}) : Save(a, w, t)
    BY <1>2, <1>7, ProvisionSaved
  <2>4. Moves(a, w, t, r, stage[a], heard)  BY <1>1, <1>5, <2>2, <2>3, EventMoves
  <2>5. Answered(a, w, t, r, stage[a], heard)  BY <1>1 DEF Answered
  <2>6. Answers(a, w, t, r, stage[a], heard)
    BY <1>1, <1>2, <1>3, <2>4, <2>5 DEF Answers
  <2>q. QED  BY <1>2, <2>6, AnswerMoves
<1>8. CASE UNCHANGED directory /\ Tell(a, "error", FALSE, a \in listens)
  BY <1>1, <1>4, <1>8, MalformedStep
<1>q. QED  BY <1>6, <1>7, <1>8 DEF StoreProvisionConfig

LEMMA UpdateBrokerCertChainStep ==
    ASSUME NEW a, NEW r, NEW result \in {"good", "malformed"},
           Delivers(a, result, r), stage[a] = "certChain",
           UpdateBrokerCertChain(a, result, r)
    PROVE  AttemptsInv' /\ QuietStep
<1>1. Event(a, r) /\ Asking(a) /\ r.phase = "idle" /\ Opens(a, r, stage[a])
  BY DEF Delivers
<1>2. a \in Attempts /\ r \in Request /\ AttemptsInv
      /\ http[a].phase \in {"waiting", "reading", "draining"}
  BY <1>1 DEF Event
<1>3. TypeOK /\ stage[a] \in Stages /\ UNCHANGED <<kind, signed>> /\ a \notin dead
  BY <1>1, EventFacts
<1>4. UNCHANGED empty  BY DEF UpdateBrokerCertChain
<1>5. {"ca"} \subseteq Files \ {"key", "csr"} /\ {"ca"} \subseteq Files  BY DEF Files
<1>6. PICK always \in BOOLEAN : always = FALSE  OBVIOUS
<1>7. PICK hears : hears = (a \in listens)  OBVIOUS
<1>8. CASE /\ SaveAll(a, <<{"ca"}>>) /\ Ask(a, "brokers", FALSE, a \in listens)
  <2>1. Save(a, {"ca"}, {})  BY <1>2, <1>8, CaSaved
  <2>2. Ask(a, "brokers", always, hears)  BY <1>6, <1>7, <1>8
  <2>3. \/ \E heard \in {"nothing", "error"} : Leaves(a, Ended(a), stage[a], heard)
        \/ Leaves(a, Sent(a), "brokers", "nothing")
    BY <1>2, <1>3, <2>2, AskFacts
  <2>4. Event(a, Ended(a)) /\ Event(a, Sent(a))
    BY <1>1, <1>2, <1>3, RequestTypes DEF Event
  <2>5. empty' \in {empty, empty \cup {a}}  BY <1>4
  <2>6. ASSUME NEW heard \in {"nothing", "error"}, Leaves(a, Ended(a), stage[a], heard)
        PROVE  AttemptsInv' /\ QuietStep
    <3>1. Moves(a, {"ca"}, {}, Ended(a), stage[a], heard)
      BY <2>1, <2>4, <2>5, <2>6, EventMoves
    <3>2. Answered(a, {"ca"}, {}, Ended(a), stage[a], heard)
      BY <1>1, <1>2, <1>3, RequestTypes DEF Answered
    <3>3. Answers(a, {"ca"}, {}, Ended(a), stage[a], heard)
      BY <1>2, <1>3, <1>5, <3>1, <3>2, RequestTypes DEF Answers
    <3>q. QED  BY <1>2, <3>3, AnswerMoves
  <2>7. CASE Leaves(a, Sent(a), "brokers", "nothing")
    <3>1. Moves(a, {"ca"}, {}, Sent(a), "brokers", "nothing")
      BY <2>1, <2>4, <2>5, <2>7, EventMoves
    <3>2. Answered(a, {"ca"}, {}, Sent(a), "brokers", "nothing")
      BY <1>1, <1>2, <1>3, RequestTypes DEF Answered
    <3>3. kind[a] = "update"
      <4>1. StageInv(a)  BY <1>1, EventFacts DEF AttemptInv
      <4>q. QED  BY <1>1, <4>1 DEF StageInv
    <3>4. Opens(a, Sent(a), "brokers")  BY <1>2, <1>3, <3>3, RequestTypes
    <3>5. Answers(a, {"ca"}, {}, Sent(a), "brokers", "nothing")
      BY <1>2, <1>3, <1>5, <3>1, <3>2, <3>4, RequestTypes DEF Answers, Stages
    <3>q. QED  BY <1>2, <3>5, AnswerMoves
  <2>q. QED  BY <2>3, <2>6, <2>7
<1>9. CASE /\ SaveFails(a, <<{"ca"}>>) \/ UNCHANGED directory
           /\ Throw(a, FALSE) /\ Done(a, r)
  <2>1. Throw(a, always)  BY <1>6, <1>9
  <2>2. Outcome(a, "nothing")  BY <1>2, <1>3, <2>1, ThrowFacts
  <2>3. Leaves(a, r, stage[a], "nothing")  BY <1>2, <1>3, <1>9, <2>2, DoneLeaves
  <2>4. PICK t \in SUBSET {"ca"} : Save(a, {}, t)
    <3>1. CASE SaveFails(a, <<{"ca"}>>)  BY <1>2, <3>1, CaSaved
    <3>2. CASE UNCHANGED directory
      <4>1. Save(a, {}, {})  BY <1>2, <1>3, <3>2, NothingSaved
      <4>q. QED  BY <4>1
    <3>q. QED  BY <1>9, <3>1, <3>2
  <2>5. empty' \in {empty, empty \cup {a}}  BY <1>4
  <2>6. Moves(a, {}, t, r, stage[a], "nothing")  BY <1>1, <2>3, <2>4, <2>5, EventMoves
  <2>7. Answered(a, {}, t, r, stage[a], "nothing")  BY <1>1 DEF Answered
  <2>8. Answers(a, {}, t, r, stage[a], "nothing")
    BY <1>1, <1>2, <1>3, <1>5, <2>6, <2>7 DEF Answers
  <2>q. QED  BY <1>2, <2>8, AnswerMoves
<1>q. QED  BY <1>8, <1>9 DEF UpdateBrokerCertChain

LEMMA UpdateBrokerListsStep ==
    ASSUME NEW a, NEW r, NEW result \in {"good", "malformed"},
           Delivers(a, result, r), stage[a] = "brokers",
           UpdateBrokerLists(a, result, r)
    PROVE  AttemptsInv' /\ QuietStep
<1>. DEFINE sections == IF files["certs"] = Torn THEN {} ELSE {"brokers", "wsBrokers"}
<1>1. Event(a, r) /\ Asking(a) /\ r.phase = "idle" /\ Opens(a, r, stage[a])
  BY DEF Delivers
<1>2. a \in Attempts /\ r \in Request /\ AttemptsInv
      /\ http[a].phase \in {"waiting", "reading", "draining"}
  BY <1>1 DEF Event
<1>3. TypeOK /\ stage[a] \in Stages /\ UNCHANGED <<kind, signed>> /\ a \notin dead
  BY <1>1, EventFacts
<1>4. Done(a, r) /\ UNCHANGED empty  BY DEF UpdateBrokerLists
<1>5. empty' \in {empty, empty \cup {a}}  BY <1>4
<1>6. \/ Save(a, sections, {}) /\ Tell(a, "success", FALSE, a \in listens)
      \/ /\ \/ Save(a, sections \ {"wsBrokers"}, {})
            \/ Save(a, {}, ConfigFile)
            \/ UNCHANGED directory
         /\ Tell(a, "error", FALSE, a \in listens) \/ Killed(a)
      \/ UNCHANGED directory /\ Tell(a, "error", FALSE, a \in listens)
  BY DEF UpdateBrokerLists
<1>7. /\ sections \subseteq {"brokers", "wsBrokers"}
      /\ sections = {"brokers", "wsBrokers"} \/ (files["certs"] = Torn /\ sections = {})
  OBVIOUS
<1>8. {"brokers", "wsBrokers"} \subseteq Files \ {"key", "csr"}
      /\ ConfigFile \subseteq Files \ {"key", "csr"}
  BY DEF Files, ConfigFile
<1>. HIDE DEF sections
<1>9. CASE Save(a, sections, {}) /\ Tell(a, "success", FALSE, a \in listens)
  <2>1. PICK heard \in {"nothing", "success"} : Outcome(a, heard)
    BY <1>2, <1>3, <1>9, SuccessFacts
  <2>2. Leaves(a, r, stage[a], heard)  BY <1>2, <1>3, <1>4, <2>1, DoneLeaves
  <2>3. Moves(a, sections, {}, r, stage[a], heard)
    BY <1>1, <1>5, <1>9, <2>2, EventMoves
  <2>4. Answered(a, sections, {}, r, stage[a], heard)
    BY <1>1, <1>7 DEF Answered
  <2>5. Answers(a, sections, {}, r, stage[a], heard)
    BY <1>1, <1>2, <1>3, <1>7, <1>8, <2>3, <2>4 DEF Answers
  <2>q. QED  BY <1>2, <2>5, AnswerMoves
<1>10. CASE /\ \/ Save(a, sections \ {"wsBrokers"}, {})
               \/ Save(a, {}, ConfigFile)
            /\ Tell(a, "error", FALSE, a \in listens) \/ Killed(a)
  <2>1. PICK heard \in {"nothing", "error"} : Outcome(a, heard)
    BY <1>2, <1>3, <1>10, ErrorFacts
  <2>2. Leaves(a, r, stage[a], heard)  BY <1>2, <1>3, <1>4, <2>1, DoneLeaves
  <2>3. PICK w \in SUBSET {"brokers", "wsBrokers"}, t \in SUBSET ConfigFile :
          Save(a, w, t)
    <3>1. sections \ {"wsBrokers"} \in SUBSET {"brokers", "wsBrokers"}  BY <1>7
    <3>q. QED  BY <1>10, <3>1
  <2>4. Moves(a, w, t, r, stage[a], heard)  BY <1>1, <1>5, <2>2, <2>3, EventMoves
  <2>5. Answered(a, w, t, r, stage[a], heard)  BY <1>1 DEF Answered
  <2>6. Answers(a, w, t, r, stage[a], heard)
    BY <1>1, <1>2, <1>3, <1>8, <2>4, <2>5 DEF Answers
  <2>q. QED  BY <1>2, <2>6, AnswerMoves
<1>11. CASE /\ UNCHANGED directory
            /\ Tell(a, "error", FALSE, a \in listens) \/ Killed(a)
  BY <1>1, <1>4, <1>11, MalformedStep
<1>q. QED  BY <1>6, <1>9, <1>10, <1>11

LEMMA DeliverStep ==
    ASSUME NEW a, NEW r, NEW result \in {"none", "error", "throws"} \cup Bodies,
           Delivers(a, result, r), Deliver(a, result, r)
    PROVE  AttemptsInv' /\ QuietStep
<1>1. Event(a, r) /\ Opens(a, r, stage[a])  BY DEF Delivers
<1>2. a \in Attempts /\ TypeOK  BY <1>1, EventFacts DEF Event
<1>3. CASE /\ result = "none" /\ http' = [http EXCEPT ![a] = r]
           /\ UNCHANGED <<directory, stage, outcome, empty>>
  <2>1. Outcome(a, "nothing")  BY <1>2, <1>3 DEF outcome, Outcome, TypeOK
  <2>2. Done(a, r)  BY <1>3 DEF Done
  <2>3. Leaves(a, r, stage[a], "nothing")  BY <1>2, <2>1, <2>2, DoneLeaves
  <2>4. Answered(a, {}, {}, r, stage[a], "nothing")
    BY <1>3 DEF Answered, Delivers
  <2>5. empty' \in {empty, empty \cup {a}} /\ UNCHANGED directory  BY <1>3
  <2>q. QED  BY <1>1, <2>3, <2>4, <2>5, NothingStep
<1>4. CASE result \in {"error", "void"} /\ NoAnswer(a, result, r)
  BY <1>4, NoAnswerStep
<1>5. CASE /\ result = "throws" /\ Throw(a, FALSE) /\ Done(a, r)
           /\ UNCHANGED <<directory, empty>>
  <2>0. PICK always \in BOOLEAN : always = FALSE  OBVIOUS
  <2>1. Throw(a, always)  BY <1>5, <2>0
  <2>2. Outcome(a, "nothing")  BY <1>2, <2>1, ThrowFacts
  <2>3. Leaves(a, r, stage[a], "nothing")  BY <1>2, <1>5, <2>2, DoneLeaves
  <2>4. Answered(a, {}, {}, r, stage[a], "nothing")
    BY <1>5 DEF Answered, Delivers
  <2>5. empty' \in {empty, empty \cup {a}} /\ UNCHANGED directory  BY <1>5
  <2>q. QED  BY <1>1, <2>3, <2>4, <2>5, NothingStep
<1>6. CASE result \in {"good", "malformed"}
  <2>1. CASE stage[a] = "provision" /\ StoreProvisionConfig(a, result, r)
    BY <1>6, <2>1, StoreProvisionConfigStep
  <2>2. CASE stage[a] = "certChain" /\ UpdateBrokerCertChain(a, result, r)
    BY <1>6, <2>2, UpdateBrokerCertChainStep
  <2>3. CASE stage[a] = "brokers" /\ UpdateBrokerLists(a, result, r)
    BY <1>6, <2>3, UpdateBrokerListsStep
  <2>q. QED  BY <1>6, <2>1, <2>2, <2>3 DEF Deliver
<1>q. QED  BY <1>3, <1>4, <1>5, <1>6 DEF Deliver

LEMMA ResponseStep ==
    ASSUME AttemptsInv, NEW a \in Attempts, NEW headers \in Headers,
           Response(a, headers)
    PROVE  AttemptsInv' /\ QuietStep
<1>1. TypeOK /\ http[a] \in Request  BY DEF AttemptsInv, TypeOK
<1>2. http[a].phase = "waiting" /\ UNCHANGED <<called, late>> /\ a \notin dead
  BY DEF Response
<1>3. PICK next : next = OnResponse(http[a], headers)  OBVIOUS
<1>4. Deliver(a, next.result, next.request)  BY <1>3 DEF Response
<1>5. /\ next.request \in Request
      /\ \/ /\ next.result = "none"
            /\ next.request.phase \in {"waiting", "reading"}
         \/ /\ next.result = "error"
            /\ \/ next.request.phase = "idle"
               \/ /\ next.request.phase = "draining"
                  /\ next.request.redirects = MaxRedirects
         \/ next.result = "throws" /\ next.request.phase = "lost"
      /\ next.request.open = http[a].open + 1
      /\ next.request.phase = "waiting" =>
           next.request.redirects = http[a].redirects + 1
  BY <1>1, <1>2, <1>3, ResponseFacts
<1>6. Event(a, next.request)  BY <1>2, <1>5 DEF Event
<1>7. Opens(a, next.request, stage[a])  BY <1>2, <1>5 DEF Opens
<1>8. Delivers(a, next.result, next.request)
  BY <1>2, <1>5, <1>6, <1>7 DEF Delivers, Asking
<1>q. QED  BY <1>4, <1>5, <1>8, DeliverStep

LEMMA EndStep ==
    ASSUME AttemptsInv, NEW a \in Attempts, NEW body \in Bodies, End(a, body)
    PROVE  AttemptsInv' /\ QuietStep
<1>1. TypeOK /\ http[a] \in Request  BY DEF AttemptsInv, TypeOK
<1>2. /\ http[a].phase \in {"reading", "draining"} /\ a \notin dead
      /\ UNCHANGED <<called, late>>
  BY DEF End
<1>3. PICK next : next = OnEnd(http[a], body)  OBVIOUS
<1>4. Deliver(a, next.result, next.request)  BY <1>3 DEF End
<1>5. /\ next.request \in Request /\ next.request.phase = "idle"
      /\ next.request.redirects = http[a].redirects
      /\ next.request.open = http[a].open
      /\ next.result \in Bodies
      /\ http[a].phase = "draining" => next.result = "error"
  BY <1>1, <1>3, EndFacts
<1>6. Event(a, next.request)  BY <1>2, <1>5 DEF Event
<1>7. Opens(a, next.request, stage[a])  BY <1>5 DEF Opens
<1>8. Delivers(a, next.result, next.request)
  BY <1>2, <1>5, <1>6, <1>7 DEF Delivers, Asking, Bodies
<1>q. QED  BY <1>4, <1>5, <1>8, DeliverStep

LEMMA ErrorStep ==
    ASSUME AttemptsInv, NEW a \in Attempts, Error(a)
    PROVE  AttemptsInv' /\ QuietStep
<1>1. TypeOK /\ http[a] \in Request  BY DEF AttemptsInv, TypeOK
<1>2. http[a].phase = "waiting" /\ UNCHANGED <<called, late>> /\ a \notin dead
  BY DEF Error
<1>3. PICK next : next = OnError(http[a])  OBVIOUS
<1>4. Deliver(a, next.result, next.request)  BY <1>3 DEF Error
<1>5. "error" \in Bodies  BY DEF Bodies
<1>6. /\ next.request \in Request /\ next.request.phase = "idle"
      /\ next.request.open = http[a].open /\ next.result = "error"
  BY <1>1, <1>3, <1>5, EndFacts
<1>7. Event(a, next.request)  BY <1>2, <1>6 DEF Event
<1>8. Opens(a, next.request, stage[a])  BY <1>6 DEF Opens
<1>9. Delivers(a, next.result, next.request)
  BY <1>2, <1>6, <1>7, <1>8 DEF Delivers, Asking
<1>q. QED  BY <1>4, <1>5, <1>6, <1>9, DeliverStep

LEMMA BreakStep ==
    ASSUME AttemptsInv, NEW a \in Attempts, Break(a)
    PROVE  AttemptsInv' /\ QuietStep
<1>1. TypeOK /\ http[a] \in Request  BY DEF AttemptsInv, TypeOK
<1>2. /\ http[a].phase \in {"reading", "draining"} /\ a \notin dead
      /\ UNCHANGED <<called, late>> /\ UNCHANGED <<directory, stage, outcome, empty>>
  BY DEF Break
<1>3. PICK r : r = [http[a] EXCEPT !.phase = "lost"]  OBVIOUS
<1>4. r \in Request /\ r.phase = "lost" /\ r.open = http[a].open
  BY <1>1, <1>3 DEF Request
<1>5. http' = [http EXCEPT ![a] = r]  BY <1>3 DEF Break
<1>6. Event(a, r)  BY <1>2, <1>4 DEF Event
<1>7. Outcome(a, "nothing")  BY <1>1, <1>2 DEF outcome, Outcome, TypeOK
<1>8. Done(a, r)  BY <1>2, <1>5 DEF Done
<1>9. Leaves(a, r, stage[a], "nothing")  BY <1>1, <1>7, <1>8, DoneLeaves
<1>10. Answered(a, {}, {}, r, stage[a], "nothing")  BY <1>4 DEF Answered
<1>11. empty' \in {empty, empty \cup {a}} /\ UNCHANGED directory  BY <1>2
<1>12. Opens(a, r, stage[a])  BY <1>4 DEF Opens
<1>q. QED  BY <1>6, <1>9, <1>10, <1>11, <1>12, NothingStep

(* An error of a request that was answered: one less that may still come,   *)
(* and one more that was heard, or none when nobody listens.                *)
LEMMA LateErrorStep ==
    ASSUME AttemptsInv, NEW a \in Attempts, LateError(a)
    PROVE  AttemptsInv' /\ QuietStep
<1>1. /\ http[a].open > 0
      /\ http' = [http EXCEPT ![a] = [http[a] EXCEPT !.open = http[a].open - 1]]
      /\ UNCHANGED <<directory, stage, called, told, threw, empty>>
      /\ \/ /\ late' = [late EXCEPT ![a] = @ + 1]
            /\ IF a \in alone THEN Dies(a) ELSE UNCHANGED dead
         \/ UNCHANGED <<late, dead>>
  BY DEF LateError, OnLateError
<1>2. TypeOK /\ http[a] \in Request /\ late[a] \in Nat  BY DEF AttemptsInv, TypeOK
<1>3. UNCHANGED <<files, touched, stage, listens, alone, signed, kind, told, threw, empty>>
  BY <1>1 DEF directory, called
<1>4. dead \subseteq dead' /\ dead' \in SUBSET Attempts
  BY <1>1, <1>2, DiesFacts DEF TypeOK
<1>5. PICK r : r = [http[a] EXCEPT !.open = http[a].open - 1]  OBVIOUS
<1>6. /\ r \in Request /\ r.phase = http[a].phase /\ r.redirects = http[a].redirects
      /\ r.open = http[a].open - 1 /\ http[a].open \in Nat
  BY <1>1, <1>2, <1>5 DEF Request
<1>7. http' = [http EXCEPT ![a] = r]  BY <1>1, <1>5
<1>8. /\ http'[a] = r
      /\ \A b \in Attempts : b # a => http'[b] = http[b] /\ late'[b] = late[b]
  BY <1>1, <1>2, <1>7 DEF TypeOK
<1>9. \A b \in Attempts : /\ http'[b].phase = http[b].phase
                          /\ http'[b].redirects = http[b].redirects
  BY <1>6, <1>8
<1>10. TypeOK'
  <2>1. http' \in [Attempts -> Request]  BY <1>2, <1>6, <1>7 DEF TypeOK
  <2>2. late' \in [Attempts -> Nat]  BY <1>1, <1>2 DEF TypeOK
  <2>q. QED  BY <1>2, <1>3, <1>4, <2>1, <2>2 DEF TypeOK
<1>11. KeyInv'  BY <1>3 DEF AttemptsInv, KeyInv, MakesKey
<1>12. LateInv(a)'
  <2>1. LateInv(a)  BY DEF AttemptsInv, AttemptInv
  <2>2. late'[a] \in {late[a], late[a] + 1}  BY <1>1, <1>2 DEF TypeOK
  <2>3. late'[a] + r.open <= late[a] + http[a].open  BY <1>2, <1>6, <2>2
  <2>4. PICK n : n = Spent(a) + IF http[a].phase = "waiting" THEN http[a].redirects
                                                             ELSE MaxRedirects + 1
    OBVIOUS
  <2>5. n \in Nat /\ late[a] + http[a].open <= n
    BY <1>2, <2>1, <2>4, RedirectsAssumption DEF LateInv, Spent, Request
  <2>6. late'[a] + r.open <= n  BY <1>2, <1>6, <2>2, <2>3, <2>5
  <2>7. kind[a] # "none"  BY <1>1, <1>6, <2>1 DEF LateInv
  <2>8. (a \in alone /\ late'[a] > 0) => a \in dead'
    <3>1. CASE UNCHANGED <<late, dead>>  BY <2>1, <3>1 DEF LateInv
    <3>2. CASE IF a \in alone THEN Dies(a) ELSE UNCHANGED dead
      BY <1>2, <3>2, DiesFacts
    <3>q. QED  BY <1>1, <3>1, <3>2
  <2>9. Spent(a)' = Spent(a)  BY <1>3 DEF Spent
  <2>q. QED  BY <1>3, <1>6, <1>8, <2>1, <2>4, <2>6, <2>7, <2>8, <2>9 DEF LateInv
<1>13. ASSUME NEW b \in Attempts PROVE AttemptInv(b)'
  <2>1. AttemptInv(b)  BY DEF AttemptsInv
  <2>2. CallInv(b)'  BY <2>1, <1>3, <1>4, <1>9 DEF AttemptInv, CallInv
  <2>3. RequestInv(b)' /\ StageInv(b)' /\ SignedInv(b)'
    BY <2>1, <1>3, <1>9 DEF AttemptInv, RequestInv, StageInv, SignedInv, Asking
  <2>4. FilesInv(b)'  BY <2>1, <1>3 DEF AttemptInv, FilesInv, Stores
  <2>5. CASE b # a
    <3>1. LateInv(b)'  BY <2>1, <2>5, <1>3, <1>4, <1>8 DEF AttemptInv, LateInv, Spent
    <3>q. QED  BY <2>2, <2>3, <2>4, <3>1 DEF AttemptInv
  <2>6. CASE b = a  BY <2>2, <2>3, <2>4, <2>6, <1>12 DEF AttemptInv
  <2>q. QED  BY <2>5, <2>6
<1>14. QuietStep  BY <1>3 DEF QuietStep
<1>q. QED  BY <1>10, <1>11, <1>13, <1>14 DEF AttemptsInv

(* Processes that end, and commands that are told so at the prompt. *)
LEMMA KillStep ==
    ASSUME AttemptsInv, NEW a \in Attempts, Kill(a)
    PROVE  AttemptsInv' /\ QuietStep
<1>1. Killed(a) /\ UNCHANGED <<directory, http, stage, called, late, empty>>
  BY DEF Kill
<1>2. TypeOK  BY DEF AttemptsInv
<1>3. dead \subseteq dead' /\ dead' \in SUBSET Attempts
  BY <1>1, <1>2, DiesFacts DEF Killed
<1>4. UNCHANGED <<files, touched, http, stage, listens, alone, signed, kind, told,
                  late, threw, empty>>
  BY <1>1 DEF directory, called, Killed
<1>5. TypeOK'  BY <1>2, <1>3, <1>4 DEF TypeOK
<1>6. KeyInv'  BY <1>4 DEF AttemptsInv, KeyInv, MakesKey
<1>7. ASSUME NEW b \in Attempts PROVE AttemptInv(b)'
  <2>1. AttemptInv(b)  BY DEF AttemptsInv
  <2>2. CallInv(b)'  BY <2>1, <1>3, <1>4 DEF AttemptInv, CallInv
  <2>3. RequestInv(b)' /\ StageInv(b)' /\ SignedInv(b)'
    BY <2>1, <1>4 DEF AttemptInv, RequestInv, StageInv, SignedInv, Asking
  <2>4. FilesInv(b)'  BY <2>1, <1>4 DEF AttemptInv, FilesInv, Stores
  <2>5. LateInv(b)'  BY <2>1, <1>3, <1>4 DEF AttemptInv, LateInv, Spent
  <2>q. QED  BY <2>2, <2>3, <2>4, <2>5 DEF AttemptInv
<1>8. QuietStep  BY <1>4 DEF QuietStep
<1>q. QED  BY <1>5, <1>6, <1>7, <1>8 DEF AttemptsInv

LEMMA NextStep ==
    ASSUME AttemptsInv, Next
    PROVE  AttemptsInv' /\ QuietStep
<1>1. PICK a \in Attempts :
        \/ /\ UNCHANGED <<alone, late>>
           /\ \E hears \in BOOLEAN : \/ ProvisionGenerate(a, hears)
                                    \/ ProvisionCsrFile(a, hears)
                                    \/ UpdateConfig(a, hears)
        \/ \E headers \in Headers : Response(a, headers)
        \/ \E body \in Bodies : End(a, body)
        \/ Error(a)
        \/ LateError(a)
        \/ Break(a)
        \/ Kill(a)
  BY DEF Next
<1>2. CASE /\ UNCHANGED <<alone, late>>
           /\ \E hears \in BOOLEAN : \/ ProvisionGenerate(a, hears)
                                    \/ ProvisionCsrFile(a, hears)
                                    \/ UpdateConfig(a, hears)
  BY <1>2, ProvisionGenerateStep, ProvisionCsrFileStep, UpdateConfigStep
<1>3. CASE \E headers \in Headers : Response(a, headers)  BY <1>3, ResponseStep
<1>4. CASE \E body \in Bodies : End(a, body)  BY <1>4, EndStep
<1>5. CASE Error(a)  BY <1>5, ErrorStep
<1>6. CASE Break(a)  BY <1>6, BreakStep
<1>7. CASE Kill(a)  BY <1>7, KillStep
<1>8. CASE LateError(a)  BY <1>8, LateErrorStep
<1>q. QED  BY <1>1, <1>2, <1>3, <1>4, <1>5, <1>6, <1>7, <1>8

-----------------------------------------------------------------------------
(* The dialog of a command *)

(* What is still to be asked for comes in this order. *)
Orders ==
    {<<>>, <<"user">>, <<"password">>, <<"passphrase">>, <<"user", "password">>,
     <<"user", "passphrase">>, <<"password", "passphrase">>,
     <<"user", "password", "passphrase">>}

Names(order) == {order[i] : i \in 1..Len(order)}

LEMMA ConcatFacts ==
    ASSUME NEW x, NEW y, NEW z
    PROVE  /\ <<>> \o <<>> = <<>> /\ <<>> \o <<x>> = <<x>> /\ <<x>> \o <<>> = <<x>>
           /\ <<x, y>> \o <<>> = <<x, y>>
           /\ <<x>> \o <<y>> = <<x, y>> /\ <<x, y>> \o <<z>> = <<x, y, z>>
<1>. DEFINE S == {x, y, z}
<1>1. /\ <<>> \in Seq(S) /\ Len(<<>>) = 0 /\ <<x>> \in Seq(S) /\ Len(<<x>>) = 1
      /\ <<y>> \in Seq(S) /\ Len(<<y>>) = 1 /\ <<z>> \in Seq(S) /\ Len(<<z>>) = 1
  OBVIOUS
<1>2. <<x, y>> \in Seq(S) /\ Len(<<x, y>>) = 2
      /\ <<x, y>> \in [1..2 -> S] /\ <<x, y, z>> \in [1..3 -> S]
  OBVIOUS
<1>3. <<>> \o <<>> = <<>> /\ <<>> \o <<x>> = <<x>> /\ <<x>> \o <<>> = <<x>>
  OBVIOUS
<1>4. <<x, y>> \o <<>> = <<x, y>>
  BY <1>1, <1>2
<1>5. <<x>> \o <<y>> = <<x, y>>
  <2>1. <<x>> \o <<y>> = [i \in 1..2 |-> IF i <= 1 THEN <<x>>[i] ELSE <<y>>[i - 1]]
    BY <1>1
  <2>2. <<x, y>> = [i \in 1..2 |-> <<x, y>>[i]]  BY <1>2
  <2>3. \A i \in 1..2 : <<x, y>>[i] = IF i <= 1 THEN <<x>>[i] ELSE <<y>>[i - 1]
    OBVIOUS
  <2>q. QED  BY <2>1, <2>2, <2>3
<1>6. <<x, y>> \o <<z>> = <<x, y, z>>
  <2>1. <<x, y>> \o <<z>>
          = [i \in 1..3 |-> IF i <= 2 THEN <<x, y>>[i] ELSE <<z>>[i - 2]]
    BY <1>1, <1>2
  <2>2. <<x, y, z>> = [i \in 1..3 |-> <<x, y, z>>[i]]  BY <1>2
  <2>3. \A i \in 1..3 : <<x, y, z>>[i] = IF i <= 2 THEN <<x, y>>[i] ELSE <<z>>[i - 2]
    OBVIOUS
  <2>q. QED  BY <2>1, <2>2, <2>3
<1>q. QED  BY <1>3, <1>4, <1>5, <1>6

LEMMA NamesFacts ==
    /\ Names(<<>>) = {}
    /\ \A x : Names(<<x>>) = {x}
    /\ \A x, y : Names(<<x, y>>) = {x, y}
    /\ \A x, y, z : Names(<<x, y, z>>) = {x, y, z}
<1>1. Names(<<>>) = {}  BY DEF Names
<1>2. ASSUME NEW x PROVE Names(<<x>>) = {x}  BY DEF Names
<1>3. ASSUME NEW x, NEW y PROVE Names(<<x, y>>) = {x, y}  BY DEF Names
<1>4. ASSUME NEW x, NEW y, NEW z PROVE Names(<<x, y, z>>) = {x, y, z}
  <2>1. Len(<<x, y, z>>) = 3  OBVIOUS
  <2>2. 1..3 = {1, 2, 3}  OBVIOUS
  <2>3. <<x, y, z>>[1] = x /\ <<x, y, z>>[2] = y /\ <<x, y, z>>[3] = z  OBVIOUS
  <2>q. QED  BY <2>1, <2>2, <2>3 DEF Names
<1>q. QED  BY <1>1, <1>2, <1>3, <1>4

LEMMA TailFacts ==
    /\ \A x : Head(<<x>>) = x /\ Tail(<<x>>) = <<>>
    /\ \A x, y : Head(<<x, y>>) = x /\ Tail(<<x, y>>) = <<y>>
    /\ \A x, y, z : Head(<<x, y, z>>) = x /\ Tail(<<x, y, z>>) = <<y, z>>
<1>1. \A x : Head(<<x>>) = x /\ Tail(<<x>>) = <<>>  OBVIOUS
<1>2. \A x, y : Head(<<x, y>>) = x /\ Tail(<<x, y>>) = <<y>>  OBVIOUS
<1>3. ASSUME NEW x, NEW y, NEW z
      PROVE  Head(<<x, y, z>>) = x /\ Tail(<<x, y, z>>) = <<y, z>>
  <2>1. <<x, y, z>> \in Seq({x, y, z}) /\ Len(<<x, y, z>>) = 3  OBVIOUS
  <2>2. Tail(<<x, y, z>>) = [i \in 1..2 |-> <<x, y, z>>[i + 1]]  BY <2>1
  <2>3. <<y, z>> \in [1..2 -> {y, z}]  OBVIOUS
  <2>4. <<y, z>> = [i \in 1..2 |-> <<y, z>>[i]]  BY <2>3
  <2>5. \A i \in 1..2 : <<y, z>>[i] = <<x, y, z>>[i + 1]  OBVIOUS
  <2>q. QED  BY <2>1, <2>2, <2>4, <2>5
<1>q. QED  BY <1>1, <1>2, <1>3

(* The names in an order; the passphrase is the last. *)
LEMMA OrderFacts ==
    /\ Names(<<>>) = {}
    /\ \A order \in Orders : order # <<>> =>
         /\ Head(order) \in OptionNames /\ Tail(order) \in Orders
         /\ Names(order) = {Head(order)} \cup Names(Tail(order))
         /\ Head(order) = "passphrase" => order = <<"passphrase">>
         /\ order = <<"passphrase">> =>
              Head(order) = "passphrase" /\ Tail(order) = <<>>
<1>3. {"user", "password", "passphrase"} = OptionNames
  BY DEF OptionNames, Credentials
<1>5. /\ \A order \in {<<>>, <<"password">>, <<"passphrase">>,
                     <<"password", "passphrase">>} : order \in Orders
      /\ Head(<<"passphrase">>) = "passphrase"
  BY DEF Orders
<1>4. ASSUME NEW order \in Orders, order # <<>>
      PROVE  /\ Head(order) \in OptionNames /\ Tail(order) \in Orders
             /\ Names(order) = {Head(order)} \cup Names(Tail(order))
             /\ Head(order) = "passphrase" => order = <<"passphrase">>
             /\ order = <<"passphrase">> =>
                  Head(order) = "passphrase" /\ Tail(order) = <<>>
  <2>1. CASE order = <<"user">>
    <3>1. /\ Head(order) = "user" /\ Tail(order) = <<>>
          /\ Names(order) = {"user"} /\ Names(<<>>) = {}
      BY <2>1, NamesFacts, TailFacts, Zenon
    <3>q. QED  BY <2>1, <3>1, <1>3, <1>5
  <2>2. CASE order = <<"password">>
    <3>1. /\ Head(order) = "password" /\ Tail(order) = <<>>
          /\ Names(order) = {"password"} /\ Names(<<>>) = {}
      BY <2>2, NamesFacts, TailFacts, Zenon
    <3>q. QED  BY <2>2, <3>1, <1>3, <1>5
  <2>3. CASE order = <<"passphrase">>
    <3>1. /\ Head(order) = "passphrase" /\ Tail(order) = <<>>
          /\ Names(order) = {"passphrase"} /\ Names(<<>>) = {}
      BY <2>3, NamesFacts, TailFacts, Zenon
    <3>q. QED  BY <2>3, <3>1, <1>3, <1>5
  <2>4. CASE order = <<"user", "password">>
    <3>1. /\ Head(order) = "user" /\ Tail(order) = <<"password">>
          /\ Names(order) = {"user", "password"} /\ Names(<<"password">>) = {"password"}
      BY <2>4, NamesFacts, TailFacts, Zenon
    <3>q. QED  BY <2>4, <3>1, <1>3, <1>5
  <2>5. CASE order = <<"user", "passphrase">>
    <3>1. /\ Head(order) = "user" /\ Tail(order) = <<"passphrase">>
          /\ Names(order) = {"user", "passphrase"} /\ Names(<<"passphrase">>) = {"passphrase"}
      BY <2>5, NamesFacts, TailFacts, Zenon
    <3>q. QED  BY <2>5, <3>1, <1>3, <1>5
  <2>6. CASE order = <<"password", "passphrase">>
    <3>1. /\ Head(order) = "password" /\ Tail(order) = <<"passphrase">>
          /\ Names(order) = {"password", "passphrase"} /\ Names(<<"passphrase">>) = {"passphrase"}
      BY <2>6, NamesFacts, TailFacts, Zenon
    <3>q. QED  BY <2>6, <3>1, <1>3, <1>5
  <2>7. CASE order = <<"user", "password", "passphrase">>
    <3>1. /\ Head(order) = "user" /\ Tail(order) = <<"password", "passphrase">>
          /\ Names(order) = {"user", "password", "passphrase"}
          /\ Names(<<"password", "passphrase">>) = {"password", "passphrase"}
      <4>1. \A x, y, z : Names(<<x, y, z>>) = {x, y, z}  BY NamesFacts
      <4>2. \A x, y, z : Head(<<x, y, z>>) = x /\ Tail(<<x, y, z>>) = <<y, z>>
        BY TailFacts
      <4>3. Names(order) = {"user", "password", "passphrase"}  BY <2>7, <4>1, Zenon
      <4>4. Head(order) = "user" /\ Tail(order) = <<"password", "passphrase">>
        BY <2>7, <4>2, Zenon
      <4>5. Names(<<"password", "passphrase">>) = {"password", "passphrase"}
        BY NamesFacts, Zenon
      <4>q. QED  BY <4>3, <4>4, <4>5
    <3>q. QED  BY <2>7, <3>1, <1>3, <1>5
  <2>q. QED  BY <1>4, <2>1, <2>2, <2>3, <2>4, <2>5, <2>6, <2>7 DEF Orders
<1>q. QED  BY NamesFacts, <1>4

(* A command asks for exactly what it misses. *)
LEMMA AsksFacts ==
    ASSUME NEW how, NEW given
    PROVE  Asks(how, given) \in Orders /\ Names(Asks(how, given)) = Missing(how, given)
<1>. DEFINE M == Missing(how, given)
            u == IF "user" \in M THEN <<"user">> ELSE <<>>
            p == IF "password" \in M THEN <<"password">> ELSE <<>>
            q == IF "passphrase" \in M THEN <<"passphrase">> ELSE <<>>
<1>1. M \subseteq {"user", "password", "passphrase"}
  BY DEF Missing, Needed, Credentials
<1>2. Asks(how, given) = u \o p \o q  BY DEF Asks
<1>. HIDE DEF M
<1>9. /\ <<>> \in Orders
      /\ <<"user">> \in Orders
      /\ <<"password">> \in Orders
      /\ <<"passphrase">> \in Orders
      /\ <<"user", "password">> \in Orders
      /\ <<"user", "passphrase">> \in Orders
      /\ <<"password", "passphrase">> \in Orders
      /\ <<"user", "password", "passphrase">> \in Orders
  BY DEF Orders
<1>5. CASE "user" \in M /\ "password" \in M
  <2>1. u \o p = <<"user", "password">>  BY <1>5, ConcatFacts
  <2>2. CASE "passphrase" \in M
    <3>1. u \o p \o q = <<"user", "password", "passphrase">>
      BY <2>1, <2>2, ConcatFacts
    <3>2. M = {"user", "password", "passphrase"}  BY <1>1, <1>5, <2>2
    <3>3. Names(<<"user", "password", "passphrase">>)
            = {"user", "password", "passphrase"}
      <4>1. \A x, y, z : Names(<<x, y, z>>) = {x, y, z}  BY NamesFacts
      <4>q. QED  BY <4>1, Zenon
    <3>q. QED  BY <3>1, <3>2, <3>3, <1>2, <1>9 DEF M
  <2>3. CASE "passphrase" \notin M
    <3>1. u \o p \o q = <<"user", "password">>  BY <2>1, <2>3, ConcatFacts
    <3>2. M = {"user", "password"}  BY <1>1, <1>5, <2>3
    <3>3. Names(<<"user", "password">>) = {"user", "password"}  BY NamesFacts, Zenon
    <3>q. QED  BY <3>1, <3>2, <3>3, <1>2, <1>9 DEF M
  <2>q. QED  BY <2>2, <2>3
<1>6. CASE "user" \in M /\ "password" \notin M
  <2>1. u \o p = <<"user">>  BY <1>6, ConcatFacts
  <2>2. CASE "passphrase" \in M
    <3>1. u \o p \o q = <<"user", "passphrase">>  BY <2>1, <2>2, ConcatFacts
    <3>2. M = {"user", "passphrase"}  BY <1>1, <1>6, <2>2
    <3>3. Names(<<"user", "passphrase">>) = {"user", "passphrase"}  BY NamesFacts, Zenon
    <3>q. QED  BY <3>1, <3>2, <3>3, <1>2, <1>9 DEF M
  <2>3. CASE "passphrase" \notin M
    <3>1. u \o p \o q = <<"user">>  BY <2>1, <2>3, ConcatFacts
    <3>2. M = {"user"}  BY <1>1, <1>6, <2>3
    <3>3. Names(<<"user">>) = {"user"}  BY NamesFacts, Zenon
    <3>q. QED  BY <3>1, <3>2, <3>3, <1>2, <1>9 DEF M
  <2>q. QED  BY <2>2, <2>3
<1>7. CASE "user" \notin M /\ "password" \in M
  <2>1. u \o p = <<"password">>  BY <1>7, ConcatFacts
  <2>2. CASE "passphrase" \in M
    <3>1. u \o p \o q = <<"password", "passphrase">>  BY <2>1, <2>2, ConcatFacts
    <3>2. M = {"password", "passphrase"}  BY <1>1, <1>7, <2>2
    <3>3. Names(<<"password", "passphrase">>) = {"password", "passphrase"}  BY NamesFacts, Zenon
    <3>q. QED  BY <3>1, <3>2, <3>3, <1>2, <1>9 DEF M
  <2>3. CASE "passphrase" \notin M
    <3>1. u \o p \o q = <<"password">>  BY <2>1, <2>3, ConcatFacts
    <3>2. M = {"password"}  BY <1>1, <1>7, <2>3
    <3>3. Names(<<"password">>) = {"password"}  BY NamesFacts, Zenon
    <3>q. QED  BY <3>1, <3>2, <3>3, <1>2, <1>9 DEF M
  <2>q. QED  BY <2>2, <2>3
<1>8. CASE "user" \notin M /\ "password" \notin M
  <2>1. u \o p = <<>>  BY <1>8, ConcatFacts
  <2>2. CASE "passphrase" \in M
    <3>1. u \o p \o q = <<"passphrase">>  BY <2>1, <2>2, ConcatFacts
    <3>2. M = {"passphrase"}  BY <1>1, <1>8, <2>2
    <3>3. Names(<<"passphrase">>) = {"passphrase"}  BY NamesFacts, Zenon
    <3>q. QED  BY <3>1, <3>2, <3>3, <1>2, <1>9 DEF M
  <2>3. CASE "passphrase" \notin M
    <3>1. u \o p \o q = <<>>  BY <2>1, <2>3, ConcatFacts
    <3>2. M = {}  BY <1>1, <1>8, <2>3
    <3>3. Names(<<>>) = {}  BY NamesFacts, Zenon
    <3>q. QED  BY <3>1, <3>2, <3>3, <1>2, <1>9 DEF M
  <2>q. QED  BY <2>2, <2>3
<1>q. QED  BY <1>5, <1>6, <1>7, <1>8

Values == {Nothing, Prompt, Login} \cup Passphrases
Verbs == {"none", "generate", "csrFile", "generateCsr", "update"}

DialogTypeOK ==
    /\ verb \in [Commands -> Verbs]
    /\ options \in [Commands -> [OptionNames -> Values]]
    /\ asks \in [Commands -> Orders]
    /\ confirm \in [Commands -> BOOLEAN]
    /\ first \in [Commands -> {Nothing} \cup Passphrases]
    /\ hostInfo \in [Commands -> [Credentials -> Values]]
    /\ typed \in [Commands -> Seq(Passphrases)]

(* While a command asks, it has made no call, what it misses is among what  *)
(* it is still going to ask for, and the answer that is to be confirmed is  *)
(* the one that was typed last.                                             *)
DialogInv(a) ==
    /\ a \notin alone => asks[a] = <<>> /\ typed[a] = <<>>
    /\ a \in alone /\ verb[a] = "none" =>
         kind[a] = "none" /\ asks[a] = <<>> /\ typed[a] = <<>>
    /\ asks[a] # <<>> =>
         /\ kind[a] = "none"
         /\ Missing(verb[a], options[a]) \subseteq Names(asks[a])
         /\ asks[a] # <<"passphrase">> =>
              ~confirm[a] /\ first[a] = Nothing /\ typed[a] = <<>>
         /\ asks[a] = <<"passphrase">> =>
              \/ confirm[a] /\ first[a] = Nothing
              \/ /\ ~confirm[a] /\ first[a] \in Passphrases
                 /\ typed[a] # <<>> /\ Head(typed[a]) = first[a]

(* What CredentialsInv and ConfirmedInv say of one command. *)
SettledInv(a) ==
    kind[a] # "none" =>
      /\ a \in alone =>
           /\ kind[a] # "generateCsr"
                => \A n \in Credentials : hostInfo[a][n] # Nothing
           /\ kind[a] # "update" => options[a]["passphrase"] # Prompt
      /\ typed[a] # <<>> =>
           typed[a] = <<options[a]["passphrase"], options[a]["passphrase"]>>

DialogsInv ==
    /\ DialogTypeOK
    /\ \A a \in Commands : DialogInv(a) /\ SettledInv(a)

(* Everything that is said of one command. *)
Same(b) ==
    /\ verb'[b] = verb[b] /\ options'[b] = options[b] /\ asks'[b] = asks[b]
    /\ confirm'[b] = confirm[b] /\ first'[b] = first[b]
    /\ hostInfo'[b] = hostInfo[b] /\ typed'[b] = typed[b]

LEMMA DialogOthers ==
    ASSUME NEW b \in Commands, DialogInv(b), SettledInv(b), Same(b),
           alone' = alone, b \in alone => kind'[b] = kind[b]
    PROVE  DialogInv(b)' /\ SettledInv(b)'
<1>1. Missing(verb[b], options[b])' = Missing(verb[b], options[b])
      /\ Names(asks[b])' = Names(asks[b])
  BY DEF Same, Missing, Needed, Names
<1>2. DialogInv(b)'  BY <1>1 DEF DialogInv, Same
<1>3. SettledInv(b)'  BY DEF DialogInv, SettledInv, Same
<1>q. QED  BY <1>2, <1>3

LEMMA OthersDialog ==
    ASSUME DialogsInv, UNCHANGED command, alone' = alone,
           \A b \in alone : kind'[b] = kind[b]
    PROVE  DialogsInv'
<1>1. DialogTypeOK'  BY DEF DialogsInv, DialogTypeOK, command, dialog
<1>2. ASSUME NEW b \in Commands PROVE DialogInv(b)' /\ SettledInv(b)'
  <2>1. Same(b)  BY DEF command, dialog, Same
  <2>q. QED  BY <2>1, DialogOthers DEF DialogsInv
<1>q. QED  BY <1>1, <1>2 DEF DialogsInv

LEMMA NextKind ==
    ASSUME TypeOK, Next
    PROVE  alone' = alone /\ \A b \in alone : kind'[b] = kind[b]
<1>1. PICK a \in Attempts :
        \/ /\ a \notin alone
           /\ UNCHANGED alone
           /\ \E hears \in BOOLEAN : \/ ProvisionGenerate(a, hears)
                                    \/ ProvisionCsrFile(a, hears)
                                    \/ UpdateConfig(a, hears)
        \/ UNCHANGED called
  BY DEF Next, Response, End, Error, LateError, Break, Kill
<1>2. CASE UNCHANGED called  BY <1>2 DEF called
<1>3. ASSUME a \notin alone, UNCHANGED alone, NEW how, NEW hears, Call(a, how, hears)
      PROVE  alone' = alone /\ \A b \in alone : kind'[b] = kind[b]
  <2>1. kind' = [kind EXCEPT ![a] = how]  BY <1>3 DEF Call
  <2>q. QED  BY <1>3, <2>1 DEF TypeOK
<1>q. QED
  BY <1>1, <1>2, <1>3 DEF ProvisionGenerate, ProvisionCsrFile, UpdateConfig

LEMMA VarsStutter ==
    ASSUME AttemptsInv, UNCHANGED vars
    PROVE  AttemptsInv' /\ QuietStep
<1>1. UNCHANGED <<files, touched, http, stage, listens, alone, dead, signed, kind,
                  told, late, threw, empty>>
  BY DEF vars
<1>2. TypeOK'  BY <1>1 DEF AttemptsInv, TypeOK
<1>3. KeyInv'  BY <1>1 DEF AttemptsInv, KeyInv, MakesKey
<1>4. ASSUME NEW b \in Attempts PROVE AttemptInv(b)'
  <2>1. AttemptInv(b)  BY DEF AttemptsInv
  <2>2. CallInv(b)'  BY <2>1, <1>1 DEF AttemptInv, CallInv
  <2>3. RequestInv(b)' /\ StageInv(b)' /\ SignedInv(b)'
    BY <2>1, <1>1 DEF AttemptInv, RequestInv, StageInv, SignedInv, Asking
  <2>4. FilesInv(b)'  BY <2>1, <1>1 DEF AttemptInv, FilesInv, Stores
  <2>5. LateInv(b)'  BY <2>1, <1>1 DEF AttemptInv, LateInv, Spent
  <2>q. QED  BY <2>2, <2>3, <2>4, <2>5 DEF AttemptInv
<1>5. QuietStep  BY <1>1 DEF QuietStep
<1>q. QED  BY <1>2, <1>3, <1>4, <1>5 DEF AttemptsInv

(* Nothing is missing any more, and the call is made. *)
LEMMA ProceedStep ==
    ASSUME AttemptsInv, DialogsInv, NEW a \in Commands, NEW how \in Kinds,
           NEW given \in [OptionNames -> Values], Missing(how, given) = {},
           Proceed(a, how, given)
    PROVE  /\ AttemptsInv' /\ QuietStep
           /\ alone' = alone
           /\ kind' = [kind EXCEPT ![a] = how]
           /\ hostInfo' \in [Commands -> [Credentials -> Values]]
           /\ options' \in [Commands -> [OptionNames -> Values]]
           /\ \A b \in Commands \ {a} :
                options'[b] = options[b] /\ hostInfo'[b] = hostInfo[b]
           /\ options'[a]["passphrase"] = given["passphrase"]
           /\ how # "generateCsr" => \A n \in Credentials : hostInfo'[a][n] # Nothing
           /\ how # "update" => options'[a]["passphrase"] # Prompt
<1>1. a \in Attempts  BY AttemptsAssumption
<1>2. /\ alone' = alone /\ UNCHANGED <<alone, late>>
      /\ hostInfo' = [hostInfo EXCEPT ![a] = [n \in Credentials |-> given[n]]]
      /\ options' = [options EXCEPT ![a] =
                       [n \in OptionNames |-> IF n \in Credentials THEN Nothing
                                                                 ELSE given[n]]]
  BY DEF Proceed
<1>3. /\ options \in [Commands -> [OptionNames -> Values]]
      /\ hostInfo \in [Commands -> [Credentials -> Values]]
  BY DEF DialogsInv, DialogTypeOK
<1>4. /\ Credentials \subseteq OptionNames /\ "passphrase" \in OptionNames
      /\ "passphrase" \notin Credentials
  BY DEF OptionNames, Credentials
<1>5. Nothing \in Values  BY DEF Values
<1>6. [n \in Credentials |-> given[n]] \in [Credentials -> Values]
      /\ [n \in OptionNames |-> IF n \in Credentials THEN Nothing ELSE given[n]]
           \in [OptionNames -> Values]
  BY <1>4, <1>5
<1>7. /\ hostInfo' \in [Commands -> [Credentials -> Values]]
      /\ options' \in [Commands -> [OptionNames -> Values]]
      /\ \A b \in Commands \ {a} :
           options'[b] = options[b] /\ hostInfo'[b] = hostInfo[b]
      /\ options'[a]["passphrase"] = given["passphrase"]
      /\ \A n \in Credentials : hostInfo'[a][n] = given[n]
  BY <1>2, <1>3, <1>4, <1>6
<1>8. /\ how # "generateCsr" => \A n \in Credentials : given[n] # Nothing
      /\ how # "update" => given["passphrase"] # Prompt
  <2>1. \A n \in Needed(how) :
          given[n] # IF n = "passphrase" THEN Prompt ELSE Nothing
    BY DEF Missing
  <2>2. /\ how # "generateCsr" => Credentials \subseteq Needed(how)
        /\ how # "update" => "passphrase" \in Needed(how)
    BY DEF Needed
  <2>q. QED  BY <2>1, <2>2, <1>4
<1>9. PICK always \in BOOLEAN : always = TRUE  OBVIOUS
<1>10. \/ how = "generateCsr" /\ GenerateCsr(a)
       \/ how = "generate" /\ ProvisionGenerate(a, always)
       \/ how = "csrFile" /\ ProvisionCsrFile(a, always)
       \/ how = "update" /\ UpdateConfig(a, always)
  BY <1>9 DEF Proceed
<1>11. AttemptsInv' /\ QuietStep
  BY <1>1, <1>2, <1>10, GenerateCsrStep, ProvisionGenerateStep,
     ProvisionCsrFileStep, UpdateConfigStep
<1>12. kind' = [kind EXCEPT ![a] = how]
  BY <1>10 DEF GenerateCsr, ProvisionGenerate, ProvisionCsrFile, UpdateConfig, Call
<1>q. QED  BY <1>2, <1>7, <1>8, <1>11, <1>12

(* A command goes on with the options that it has by now. *)
Tries(a, how, given, names) ==
    /\ a \in Commands /\ a \in alone /\ kind[a] = "none"
    /\ how \in Kinds /\ given \in [OptionNames -> Values] /\ names \in Orders
    /\ Missing(how, given) \subseteq Names(names)
    /\ verb' = [verb EXCEPT ![a] = how]
    /\ typed' \in [Commands -> Seq(Passphrases)]
    /\ \A b \in Commands \ {a} : typed'[b] = typed[b]
    /\ names # <<>> => typed'[a] = <<>>
    /\ typed'[a] # <<>> => typed'[a] = <<given["passphrase"], given["passphrase"]>>
    /\ AskOrProceed(a, how, given, names)

LEMMA TriesStep ==
    ASSUME AttemptsInv, DialogsInv, NEW a, NEW how, NEW given, NEW names,
           Tries(a, how, given, names)
    PROVE  AttemptsInv' /\ DialogsInv' /\ QuietStep
<1>1. /\ a \in Commands /\ a \in alone /\ kind[a] = "none"
      /\ how \in Kinds /\ given \in [OptionNames -> Values] /\ names \in Orders
      /\ Missing(how, given) \subseteq Names(names)
      /\ verb' = [verb EXCEPT ![a] = how]
      /\ typed' \in [Commands -> Seq(Passphrases)]
      /\ \A b \in Commands \ {a} : typed'[b] = typed[b]
      /\ names # <<>> => typed'[a] = <<>>
      /\ typed'[a] # <<>>
           => typed'[a] = <<given["passphrase"], given["passphrase"]>>
  BY DEF Tries
<1>2. /\ asks' = [asks EXCEPT ![a] = names]
      /\ first' = [first EXCEPT ![a] = Nothing]
      /\ confirm' = [confirm EXCEPT ![a] = names = <<"passphrase">>]
  BY DEF Tries, AskOrProceed
<1>3. DialogTypeOK /\ TypeOK  BY DEF DialogsInv, AttemptsInv
<1>4. how \in Verbs /\ how # "none"  BY <1>1 DEF Verbs, Kinds
<1>5. /\ verb' \in [Commands -> Verbs] /\ asks' \in [Commands -> Orders]
      /\ first' \in [Commands -> {Nothing} \cup Passphrases]
      /\ confirm' \in [Commands -> BOOLEAN]
  BY <1>1, <1>2, <1>3, <1>4 DEF DialogTypeOK
<1>6. /\ verb'[a] = how /\ asks'[a] = names /\ first'[a] = Nothing
      /\ confirm'[a] = (names = <<"passphrase">>)
      /\ \A b \in Commands \ {a} :
           /\ verb'[b] = verb[b] /\ asks'[b] = asks[b] /\ first'[b] = first[b]
           /\ confirm'[b] = confirm[b]
  BY <1>1, <1>2, <1>3 DEF DialogTypeOK
<1>7. CASE names = <<>>
  <2>1. Missing(how, given) = {}  BY <1>1, <1>7, OrderFacts
  <2>2. Proceed(a, how, given)  BY <1>7 DEF Tries, AskOrProceed
  <2>3. /\ AttemptsInv' /\ QuietStep
        /\ alone' = alone
        /\ kind' = [kind EXCEPT ![a] = how]
        /\ hostInfo' \in [Commands -> [Credentials -> Values]]
        /\ options' \in [Commands -> [OptionNames -> Values]]
        /\ \A b \in Commands \ {a} :
             options'[b] = options[b] /\ hostInfo'[b] = hostInfo[b]
        /\ options'[a]["passphrase"] = given["passphrase"]
        /\ how # "generateCsr" => \A n \in Credentials : hostInfo'[a][n] # Nothing
        /\ how # "update" => options'[a]["passphrase"] # Prompt
    BY <1>1, <2>1, <2>2, ProceedStep
  <2>4. DialogTypeOK'  BY <1>1, <1>5, <2>3 DEF DialogTypeOK
  <2>5. a \in Attempts  BY <1>1, AttemptsAssumption
  <2>6. kind'[a] = how /\ \A b \in Attempts \ {a} : kind'[b] = kind[b]
    BY <1>3, <2>3, <2>5 DEF TypeOK
  <2>7. DialogInv(a)'  BY <1>1, <1>4, <1>6, <1>7, <2>3 DEF DialogInv
  <2>8. SettledInv(a)'  BY <1>1, <2>3, <2>6 DEF SettledInv
  <2>9. ASSUME NEW b \in Commands, b # a PROVE DialogInv(b)' /\ SettledInv(b)'
    <3>1. Same(b)  BY <1>1, <1>6, <2>3, <2>9 DEF Same
    <3>2. kind'[b] = kind[b]  BY <2>6, <2>9, AttemptsAssumption
    <3>q. QED  BY <2>3, <3>1, <3>2, DialogOthers DEF DialogsInv
  <2>q. QED  BY <2>3, <2>4, <2>7, <2>8, <2>9 DEF DialogsInv
<1>8. CASE names # <<>>
  <2>1. options' = [options EXCEPT ![a] = given] /\ UNCHANGED <<vars, hostInfo>>
    BY <1>8 DEF Tries, AskOrProceed
  <2>2. AttemptsInv' /\ QuietStep  BY <2>1, VarsStutter
  <2>3. alone' = alone /\ kind' = kind  BY <2>1 DEF vars
  <2>4. /\ options' \in [Commands -> [OptionNames -> Values]]
        /\ options'[a] = given
        /\ \A b \in Commands \ {a} : options'[b] = options[b]
    BY <1>1, <1>3, <2>1 DEF DialogTypeOK
  <2>5. DialogTypeOK'  BY <1>1, <1>3, <1>5, <2>1, <2>4 DEF DialogTypeOK
  <2>6. Missing(verb[a], options[a])' \subseteq Names(asks[a])'
    <3>1. Missing(verb[a], options[a])' = Missing(how, given)
      BY <1>6, <2>4 DEF Missing, Needed
    <3>2. Names(asks[a])' = Names(names)  BY <1>6 DEF Names
    <3>q. QED  BY <1>1, <3>1, <3>2
  <2>7. DialogInv(a)'
    BY <1>1, <1>4, <1>6, <1>8, <2>3, <2>6 DEF DialogInv
  <2>8. SettledInv(a)'  BY <1>1, <2>3 DEF SettledInv
  <2>9. ASSUME NEW b \in Commands, b # a PROVE DialogInv(b)' /\ SettledInv(b)'
    <3>1. Same(b)  BY <1>1, <1>6, <2>1, <2>4, <2>9 DEF Same
    <3>q. QED  BY <2>3, <3>1, DialogOthers DEF DialogsInv
  <2>q. QED  BY <2>2, <2>5, <2>7, <2>8, <2>9 DEF DialogsInv
<1>q. QED  BY <1>7, <1>8

LEMMA StartStep ==
    ASSUME AttemptsInv, DialogsInv, NEW a \in Commands, Start(a)
    PROVE  AttemptsInv' /\ DialogsInv' /\ QuietStep
<1>1. PICK how \in {"generate", "csrFile", "generateCsr", "update"},
           given \in [OptionNames -> {Nothing, Login, Prompt}] :
        /\ verb' = [verb EXCEPT ![a] = how]
        /\ AskOrProceed(a, how, given, Asks(how, given))
  BY DEF Start
<1>2. a \in alone /\ verb[a] = "none" /\ typed' = typed  BY DEF Start
<1>3. kind[a] = "none" /\ typed[a] = <<>>  BY <1>2 DEF DialogsInv, DialogInv
<1>4. typed \in [Commands -> Seq(Passphrases)]  BY DEF DialogsInv, DialogTypeOK
<1>5. given \in [OptionNames -> Values] /\ how \in Kinds  BY DEF Values, Kinds
<1>6. Asks(how, given) \in Orders /\ Names(Asks(how, given)) = Missing(how, given)
  BY AsksFacts
<1>7. Tries(a, how, given, Asks(how, given))
  BY <1>1, <1>2, <1>3, <1>4, <1>5, <1>6 DEF Tries
<1>q. QED  BY <1>7, TriesStep

(* A line that leaves the command where it was, but for the dialog. *)
LEMMA DialogOnly ==
    ASSUME AttemptsInv, DialogsInv, NEW a \in Commands, asks[a] # <<>>,
           UNCHANGED <<asks, options, hostInfo, vars, verb>>,
           DialogTypeOK', DialogInv(a)',
           \A b \in Commands \ {a} :
              confirm'[b] = confirm[b] /\ first'[b] = first[b] /\ typed'[b] = typed[b]
    PROVE  AttemptsInv' /\ DialogsInv' /\ QuietStep
<1>1. AttemptsInv' /\ QuietStep  BY VarsStutter
<1>2. alone' = alone /\ kind' = kind  BY DEF vars
<1>3. SettledInv(a)'
  <2>1. kind'[a] = "none"  BY <1>2 DEF DialogsInv, DialogInv
  <2>q. QED  BY <2>1 DEF SettledInv
<1>4. ASSUME NEW b \in Commands, b # a PROVE DialogInv(b)' /\ SettledInv(b)'
  <2>1. Same(b)  BY <1>4 DEF Same
  <2>q. QED  BY <1>2, <2>1, DialogOthers DEF DialogsInv
<1>q. QED  BY <1>1, <1>3, <1>4 DEF DialogsInv

LEMMA AnswerStep ==
    ASSUME AttemptsInv, DialogsInv, NEW a \in Commands, Answer(a)
    PROVE  AttemptsInv' /\ DialogsInv' /\ QuietStep
<1>1. DialogTypeOK /\ DialogInv(a) /\ asks[a] # <<>> /\ verb' = verb
  BY DEF DialogsInv, Answer
<1>2. /\ a \in alone /\ kind[a] = "none" /\ verb[a] # "none"
      /\ Missing(verb[a], options[a]) \subseteq Names(asks[a])
      /\ asks[a] # <<"passphrase">> =>
           ~confirm[a] /\ first[a] = Nothing /\ typed[a] = <<>>
      /\ asks[a] = <<"passphrase">> =>
           \/ confirm[a] /\ first[a] = Nothing
           \/ /\ ~confirm[a] /\ first[a] \in Passphrases
              /\ typed[a] # <<>> /\ Head(typed[a]) = first[a]
  BY <1>1 DEF DialogInv
<1>3. PICK order \in Orders : order = asks[a]  BY <1>1 DEF DialogTypeOK
<1>4. /\ Head(order) \in OptionNames /\ Tail(order) \in Orders
      /\ Names(order) = {Head(order)} \cup Names(Tail(order))
      /\ Head(order) = "passphrase" => order = <<"passphrase">>
      /\ order = <<"passphrase">> =>
           Head(order) = "passphrase" /\ Tail(order) = <<>>
  BY <1>1, <1>3, OrderFacts
<1>. DEFINE secret == Head(order) = "passphrase"
<1>5. PICK line \in {Nothing} \cup IF secret THEN Passphrases ELSE {Login} :
        /\ typed' = IF ~secret \/ line = Nothing THEN typed ELSE
             [typed EXCEPT ![a] = IF @ = <<>> THEN <<line>>
                                              ELSE <<line, Head(@)>>]
        /\ \/ Again(a, line) \/ ToConfirm(a, line)
           \/ Mismatch(a, line) \/ Accept(a, line)
  BY <1>3 DEF Answer
<1>6. secret <=> order = <<"passphrase">>  BY <1>4
<1>7. Nothing \notin Passphrases /\ Nothing # Login /\ Prompt # Nothing
      /\ Prompt \notin Passphrases /\ Prompt # Login
  BY NothingAssumption
<1>8. /\ typed \in [Commands -> Seq(Passphrases)] /\ first[a] \in {Nothing} \cup Passphrases
      /\ confirm[a] \in BOOLEAN
  BY <1>1 DEF DialogTypeOK
<1>9. /\ typed' \in [Commands -> Seq(Passphrases)]
      /\ \A b \in Commands \ {a} : typed'[b] = typed[b]
      /\ ~secret \/ line = Nothing => typed'[a] = typed[a]
      /\ secret /\ line # Nothing =>
           /\ typed'[a] # <<>> /\ Head(typed'[a]) = line
           /\ typed[a] # <<>> => typed'[a] = <<line, Head(typed[a])>>
  <2>1. CASE ~secret \/ line = Nothing
    <3>1. typed' = typed  BY <1>5, <2>1
    <3>q. QED  BY <3>1, <2>1, <1>8
  <2>2. CASE secret /\ line # Nothing
    <3>1. line \in Passphrases  BY <2>2, <1>5
    <3>2. PICK new : new = IF typed[a] = <<>> THEN <<line>> ELSE <<line, Head(typed[a])>>
      OBVIOUS
    <3>3. typed[a] # <<>> => Head(typed[a]) \in Passphrases  BY <1>8
    <3>4. new \in Seq(Passphrases) /\ new # <<>> /\ Head(new) = line
      BY <3>1, <3>2, <3>3
    <3>5. typed' = [typed EXCEPT ![a] = new]  BY <1>5, <2>2, <3>2
    <3>6. /\ typed' \in [Commands -> Seq(Passphrases)] /\ typed'[a] = new
          /\ \A b \in Commands \ {a} : typed'[b] = typed[b]
      BY <1>8, <3>4, <3>5
    <3>q. QED  BY <2>2, <3>2, <3>4, <3>6
  <2>q. QED  BY <2>1, <2>2
<1>. HIDE DEF secret
<1>10. CASE Again(a, line)
  <2>1. line = Nothing /\ UNCHANGED <<dialog, options, hostInfo, vars>>
    BY <1>10 DEF Again
  <2>2. typed' = typed  BY <1>5, <2>1
  <2>3. UNCHANGED command  BY <1>1, <2>1, <2>2 DEF command, dialog
  <2>4. alone' = alone /\ kind' = kind  BY <2>1 DEF vars
  <2>q. QED  BY <2>1, <2>3, <2>4, VarsStutter, OthersDialog
<1>11. CASE ToConfirm(a, line)
  <2>1. /\ line # Nothing /\ confirm[a]
        /\ first' = [first EXCEPT ![a] = line]
        /\ confirm' = [confirm EXCEPT ![a] = FALSE]
        /\ UNCHANGED <<asks, options, hostInfo, vars>>
    BY <1>11 DEF ToConfirm
  <2>2. asks[a] = <<"passphrase">> /\ secret  BY <1>2, <1>3, <1>6, <2>1
  <2>3. line \in Passphrases  BY <1>5, <2>1, <2>2 DEF secret
  <2>4. /\ first' \in [Commands -> {Nothing} \cup Passphrases]
        /\ confirm' \in [Commands -> BOOLEAN]
        /\ first'[a] = line /\ ~confirm'[a]
        /\ \A b \in Commands \ {a} : first'[b] = first[b] /\ confirm'[b] = confirm[b]
    BY <1>1, <2>1, <2>3 DEF DialogTypeOK
  <2>5. DialogTypeOK'  BY <1>1, <1>9, <2>1, <2>4 DEF DialogTypeOK
  <2>6. DialogInv(a)'
    <3>1. alone' = alone /\ kind' = kind  BY <2>1 DEF vars
    <3>2. Missing(verb[a], options[a])' = Missing(verb[a], options[a])
          /\ Names(asks[a])' = Names(asks[a])
      BY <1>1, <2>1 DEF Missing, Needed, Names
    <3>3. typed'[a] # <<>> /\ Head(typed'[a]) = line  BY <1>9, <2>1, <2>2
    <3>q. QED
      BY <1>1, <1>2, <2>1, <2>2, <2>3, <2>4, <3>1, <3>2, <3>3 DEF DialogInv
  <2>q. QED  BY <1>1, <1>9, <2>1, <2>4, <2>5, <2>6, DialogOnly
<1>12. CASE Mismatch(a, line)
  <2>1. /\ Nothing \notin {line, first[a]} /\ line # first[a]
        /\ first' = [first EXCEPT ![a] = Nothing]
        /\ confirm' = [confirm EXCEPT ![a] = TRUE]
        /\ UNCHANGED <<asks, options, hostInfo, vars>>
    BY <1>12 DEF Mismatch
  <2>2. asks[a] = <<"passphrase">>  BY <1>2, <2>1
  <2>3. /\ first' \in [Commands -> {Nothing} \cup Passphrases]
        /\ confirm' \in [Commands -> BOOLEAN]
        /\ first'[a] = Nothing /\ confirm'[a]
        /\ \A b \in Commands \ {a} : first'[b] = first[b] /\ confirm'[b] = confirm[b]
    BY <1>1, <2>1 DEF DialogTypeOK
  <2>4. DialogTypeOK'  BY <1>1, <1>9, <2>1, <2>3 DEF DialogTypeOK
  <2>5. DialogInv(a)'
    <3>1. alone' = alone /\ kind' = kind  BY <2>1 DEF vars
    <3>2. Missing(verb[a], options[a])' = Missing(verb[a], options[a])
          /\ Names(asks[a])' = Names(asks[a])
      BY <1>1, <2>1 DEF Missing, Needed, Names
    <3>q. QED  BY <1>1, <1>2, <2>1, <2>2, <2>3, <3>1, <3>2 DEF DialogInv
  <2>q. QED  BY <1>1, <1>9, <2>1, <2>3, <2>4, <2>5, DialogOnly
<1>13. CASE Accept(a, line)
  <2>. DEFINE given == [options[a] EXCEPT ![Head(order)] = line]
  <2>1. /\ line # Nothing /\ ~confirm[a] /\ first[a] \in {Nothing, line}
        /\ AskOrProceed(a, verb[a], given, Tail(order))
    BY <1>3, <1>13 DEF Accept
  <2>2. options[a] \in [OptionNames -> Values] /\ verb[a] \in Kinds
        /\ verb = [verb EXCEPT ![a] = verb[a]]
    BY <1>1, <1>2 DEF DialogTypeOK, Verbs, Kinds
  <2>3. line \in Values /\ line # Prompt
    BY <1>5, <1>7, <2>1 DEF Values, secret
  <2>4. /\ given \in [OptionNames -> Values] /\ given[Head(order)] = line
        /\ \A n \in OptionNames \ {Head(order)} : given[n] = options[a][n]
    BY <1>4, <2>2, <2>3
  <2>. HIDE DEF given
  <2>5. Missing(verb[a], given) \subseteq Names(Tail(order))
    <3>1. Needed(verb[a]) \subseteq OptionNames
      BY DEF Needed, OptionNames
    <3>2. ASSUME NEW n \in Missing(verb[a], given) PROVE n \in Names(Tail(order))
      <4>1. n \in OptionNames /\ n \in Needed(verb[a])
            /\ given[n] = IF n = "passphrase" THEN Prompt ELSE Nothing
        BY <3>1, <3>2 DEF Missing
      <4>2. n # Head(order)  BY <4>1, <2>1, <2>3, <2>4
      <4>3. n \in Missing(verb[a], options[a])  BY <4>1, <4>2, <2>4 DEF Missing
      <4>q. QED  BY <4>2, <4>3, <1>2, <1>3, <1>4
    <3>q. QED  BY <3>2
  <2>6. Tail(order) # <<>> => typed'[a] = <<>>
    BY <1>2, <1>3, <1>4, <1>6, <1>9
  <2>7. typed'[a] # <<>> => typed'[a] = <<given["passphrase"], given["passphrase"]>>
    <3>1. CASE secret
      <4>1. first[a] \in Passphrases /\ typed[a] # <<>> /\ Head(typed[a]) = first[a]
        BY <1>2, <1>3, <1>6, <2>1, <3>1
      <4>2. first[a] = line  BY <4>1, <1>7, <2>1
      <4>3. typed'[a] = <<line, line>>  BY <4>1, <4>2, <1>9, <2>1, <3>1
      <4>4. given["passphrase"] = line  BY <2>4, <3>1 DEF secret
      <4>q. QED  BY <4>3, <4>4
    <3>2. CASE ~secret
      <4>1. typed'[a] = <<>>  BY <1>2, <1>3, <1>6, <1>9, <3>2
      <4>q. QED  BY <4>1
    <3>q. QED  BY <3>1, <3>2
  <2>8. Tries(a, verb[a], given, Tail(order))
    BY <1>1, <1>2, <1>4, <1>9, <2>1, <2>2, <2>4, <2>5, <2>6, <2>7 DEF Tries
  <2>q. QED  BY <2>8, TriesStep
<1>q. QED  BY <1>5, <1>10, <1>11, <1>12, <1>13

LEMMA InterruptStep ==
    ASSUME AttemptsInv, DialogsInv, NEW a \in Commands, Interrupt(a)
    PROVE  AttemptsInv' /\ DialogsInv' /\ QuietStep
<1>1. /\ a \notin dead /\ asks[a] # <<>> /\ Tell(a, "error", FALSE, TRUE)
      /\ UNCHANGED <<command, directory, called, http, stage, late, empty>>
  BY DEF Interrupt
<1>2. a \in Attempts /\ TypeOK /\ AttemptInv(a)
  BY AttemptsAssumption DEF AttemptsInv
<1>3. UNCHANGED <<files, touched, http, stage, listens, alone, signed, kind, late,
                  empty>>
  BY <1>1 DEF directory, called
<1>4. a \in alone /\ kind[a] = "none"  BY <1>1 DEF DialogsInv, DialogInv
<1>5. told[a] = <<>> /\ http[a].phase = "idle" /\ \A f \in Files : files[f] # a
  BY <1>1, <1>2, <1>4 DEF AttemptInv, CallInv
<1>6. told' = [told EXCEPT ![a] = Append(@, "error")] /\ Dies(a) /\ threw' = threw
  BY <1>1, <1>4 DEF Tell
<1>7. dead \subseteq dead' /\ dead' \in SUBSET Attempts /\ a \in dead'
  BY <1>2, <1>6, DiesFacts
<1>8. told'[a] = <<"error">>  BY <1>2, <1>5, <1>6, ToldFacts DEF TypeOK
<1>9. AttemptInv(a)'
  <2>1. CallInv(a)'  BY <1>2, <1>3, <1>7, <1>8 DEF AttemptInv, CallInv
  <2>2. RequestInv(a)'  BY <1>3, <1>5, <1>8, ToldFacts DEF RequestInv, Asking
  <2>3. StageInv(a)'  BY <1>3, <1>5 DEF StageInv, Asking
  <2>4. FilesInv(a)'
    BY <1>3, <1>5, <1>8, ToldFacts DEF FilesInv, Files, ConfigFile
  <2>5. SignedInv(a)'  BY <1>2, <1>3 DEF AttemptInv, SignedInv
  <2>6. LateInv(a)'  BY <1>2, <1>3, <1>7 DEF AttemptInv, LateInv, Spent
  <2>q. QED  BY <2>1, <2>2, <2>3, <2>4, <2>5, <2>6 DEF AttemptInv
<1>10. Moves(a, {}, {}, http[a], stage[a], "error")
  <2>1. Save(a, {}, {})  BY <1>1, <1>2, NothingSaved
  <2>2. Outcome(a, "error")  BY <1>2, <1>6, <1>7 DEF Outcome, TypeOK
  <2>3. listens' \in SUBSET Attempts /\ empty' \in SUBSET Attempts
    BY <1>2, <1>3 DEF TypeOK
  <2>4. http' = [http EXCEPT ![a] = http[a]] /\ stage' = [stage EXCEPT ![a] = stage[a]]
    BY <1>2, <1>3 DEF TypeOK
  <2>q. QED  BY <1>3, <2>1, <2>2, <2>3, <2>4 DEF Moves
<1>11. Keeps(a, "none", signed[a])  BY <1>2, <1>3, <1>4 DEF Keeps, TypeOK
<1>12. ASSUME NEW b \in Attempts PROVE AttemptInv(b)'
  <2>1. AttemptInv(b)  BY DEF AttemptsInv
  <2>2. CASE b # a  BY <1>2, <1>10, <1>11, <2>1, <2>2, MoveOthers
  <2>q. QED  BY <1>9, <2>2
<1>13. TypeOK'
  <2>1. told' \in [Attempts -> Seq({"success", "error"})]
    <3>1. <<"error">> \in Seq({"success", "error"})  OBVIOUS
    <3>2. told \in [Attempts -> Seq({"success", "error"})]  BY <1>2 DEF TypeOK
    <3>q. QED  BY <1>6, <1>8, <3>1, <3>2
  <2>q. QED  BY <1>2, <1>3, <1>6, <1>7, <2>1 DEF TypeOK
<1>14. KeyInv'  BY <1>3 DEF AttemptsInv, KeyInv, MakesKey
<1>15. QuietStep  BY <1>3 DEF QuietStep
<1>16. UNCHANGED command  BY <1>1
<1>17. DialogsInv'  BY <1>3, <1>16, OthersDialog
<1>q. QED  BY <1>12, <1>13, <1>14, <1>15, <1>17 DEF AttemptsInv

-----------------------------------------------------------------------------
(* The theorems *)

LEMMA InvInit ==
    ASSUME CommandInit
    PROVE  AttemptsInv /\ DialogsInv
<1>1. Init  BY DEF CommandInit
<1>2. Absent \notin Attempts /\ Torn \notin Attempts /\ Commands \subseteq Attempts
  BY AttemptsAssumption
<1>3. TypeOK
  <2>1. Idle \in Request  BY IdleType
  <2>2. <<>> \in Seq({"success", "error"})  OBVIOUS
  <2>q. QED  BY <1>1, <1>2, <2>1, <2>2 DEF Init, TypeOK
<1>4. ASSUME NEW a \in Attempts PROVE AttemptInv(a)
  <2>1. /\ http[a].phase = "idle" /\ told[a] = <<>> /\ signed[a] = Absent
        /\ touched[a] = {} /\ kind[a] = "none" /\ \A f \in Files : files[f] # a
    BY <1>1, <1>2, IdleType DEF Init
  <2>2. CallInv(a)  BY <2>1 DEF CallInv
  <2>3. RequestInv(a)  BY <2>1, ToldFacts DEF RequestInv, Asking
  <2>4. StageInv(a)  BY <2>1 DEF StageInv, Asking
  <2>5. FilesInv(a)  BY <2>1, ToldFacts DEF FilesInv, Files, ConfigFile
  <2>6. SignedInv(a)  BY <2>1 DEF SignedInv
  <2>7. LateInv(a)
    <3>1. stage[a] = "none" /\ late[a] = 0 /\ http[a].open = 0
      BY <1>1, IdleType DEF Init
    <3>2. MaxRedirects \in Nat  BY RedirectsAssumption
    <3>3. 0 + 0 <= 0 + (MaxRedirects + 1) /\ ~(0 > 0)  BY <3>2
    <3>q. QED  BY <2>1, <3>1, <3>3 DEF LateInv, Spent
  <2>q. QED  BY <2>2, <2>3, <2>4, <2>5, <2>6, <2>7 DEF AttemptInv
<1>5. KeyInv  BY <1>1, <1>2 DEF Init, KeyInv, Files
<1>6. DialogTypeOK
  <2>1. <<>> \in Orders  BY DEF Orders
  <2>2. "none" \in Verbs /\ Nothing \in Values  BY DEF Verbs, Values
  <2>3. <<>> \in Seq(Passphrases)  OBVIOUS
  <2>q. QED  BY <2>1, <2>2, <2>3 DEF CommandInit, DialogTypeOK, NoCredentials
<1>7. ASSUME NEW a \in Commands PROVE DialogInv(a) /\ SettledInv(a)
  <2>1. kind[a] = "none" /\ asks[a] = <<>> /\ typed[a] = <<>>
    BY <1>1, <1>2 DEF CommandInit, Init
  <2>q. QED  BY <2>1 DEF DialogInv, SettledInv
<1>q. QED  BY <1>3, <1>4, <1>5, <1>6, <1>7 DEF AttemptsInv, DialogsInv

LEMMA InvStep ==
    ASSUME AttemptsInv, DialogsInv, [CommandNext]_allVars
    PROVE  AttemptsInv' /\ DialogsInv' /\ QuietStep
<1>1. CASE Next /\ UNCHANGED command
  <2>1. AttemptsInv' /\ QuietStep  BY <1>1, NextStep
  <2>2. alone' = alone /\ \A b \in alone : kind'[b] = kind[b]
    BY <1>1, NextKind DEF AttemptsInv
  <2>q. QED  BY <1>1, <2>1, <2>2, OthersDialog
<1>2. CASE \E a \in Commands : Start(a)  BY <1>2, StartStep
<1>3. CASE \E a \in Commands : Answer(a)  BY <1>3, AnswerStep
<1>4. CASE \E a \in Commands : Interrupt(a)  BY <1>4, InterruptStep
<1>5. CASE UNCHANGED allVars
  <2>1. UNCHANGED vars /\ UNCHANGED command  BY <1>5 DEF allVars
  <2>2. alone' = alone /\ kind' = kind  BY <2>1 DEF vars
  <2>q. QED  BY <2>1, <2>2, VarsStutter, OthersDialog
<1>q. QED  BY <1>1, <1>2, <1>3, <1>4, <1>5 DEF CommandNext

LEMMA Inductive == CommandSpec => [](AttemptsInv /\ DialogsInv)
<1>1. CommandInit => AttemptsInv /\ DialogsInv  BY InvInit
<1>2. (AttemptsInv /\ DialogsInv) /\ [CommandNext]_allVars
        => (AttemptsInv /\ DialogsInv)'
  BY InvStep
<1>q. QED  BY <1>1, <1>2, PTL DEF CommandSpec

(* The files, the requests and the histories keep to their values, whatever *)
(* fails or is killed.                                                      *)
THEOREM AttemptsTyped == CommandSpec => []TypeOK
<1>1. AttemptsInv /\ DialogsInv => TypeOK  BY DEF AttemptsInv
<1>q. QED  BY <1>1, Inductive, PTL

(* No doneCallback is invoked twice by the answers, but for the two errors  *)
(* of a redirect too many: storing, asking on and failing never end in two  *)
(* calls.  Errors of requests that were answered, redirected or not, are    *)
(* added to that, at most one for each.                                     *)
THEOREM DoneCallbackOnce == CommandSpec => []ToldOnceInv
<1>1. ASSUME AttemptsInv, NEW a \in Attempts, Len(told[a]) > 1
      PROVE  /\ told[a] = <<"error", "error">>
             /\ http[a].redirects = MaxRedirects
  <2>1. RequestInv(a)  BY <1>1 DEF AttemptsInv, AttemptInv
  <2>2. told[a] \notin {<<>>, <<"error">>, <<"success">>}
    <3>1. Len(<<>>) = 0  OBVIOUS
    <3>2. Len(<<"error">>) = 1  OBVIOUS
    <3>3. Len(<<"success">>) = 1  OBVIOUS
    <3>4. told[a] # <<>>  BY <1>1, <3>1
    <3>5. told[a] = <<"error">> => Len(told[a]) = 1  BY <3>2, Zenon
    <3>6. told[a] = <<"success">> => Len(told[a]) = 1  BY <3>3, Zenon
    <3>7. Len(told[a]) # 1
      <4>1. ~(1 > 1)  OBVIOUS
      <4>q. QED  BY <1>1, <4>1, Zenon
    <3>q. QED  BY <3>4, <3>5, <3>6, <3>7
  <2>q. QED  BY <2>1, <2>2 DEF RequestInv
<1>2. ASSUME AttemptsInv, NEW a \in Attempts
      PROVE  late[a] + http[a].open <= Asked(a) * (MaxRedirects + 1)
  <2>1. TypeOK /\ LateInv(a)  BY <1>2 DEF AttemptsInv, AttemptInv
  <2>2. PICK n, k, i, j : n = MaxRedirects /\ k = late[a] /\ i = http[a].open
                            /\ j = http[a].redirects
    OBVIOUS
  <2>3. n \in Nat /\ k \in Nat /\ i \in Nat /\ j \in 0..n
    BY <2>1, <2>2, RedirectsAssumption DEF TypeOK, Request
  <2>4. k + i <= (IF stage[a] = "brokers" THEN n + 1 ELSE 0)
                   + IF http[a].phase = "waiting" THEN j ELSE n + 1
    BY <2>1, <2>2 DEF LateInv, Spent
  <2>5. k + i <= (IF kind[a] = "update" THEN n + 1 ELSE 0) + (n + 1)
    <3>1. stage[a] = "brokers" => kind[a] = "update"  BY <2>1 DEF LateInv
    <3>q. QED  BY <2>3, <2>4, <3>1
  <2>6. 1 * (n + 1) = 0 + (n + 1) /\ 2 * (n + 1) = (n + 1) + (n + 1)  BY <2>3
  <2>q. QED  BY <2>2, <2>5, <2>6 DEF Asked
<1>3. AttemptsInv /\ DialogsInv => ToldOnceInv  BY <1>1, <1>2 DEF ToldOnceInv
<1>q. QED  BY <1>3, Inductive, PTL

(* Success on an answer that holds something means that all of it is in the *)
(* directory, unless another attempt wrote there meanwhile.                 *)
THEOREM SuccessStored == CommandSpec => []StoredInv
<1>1. ASSUME AttemptsInv, NEW a \in Attempts, Succeeded(a), a \notin empty,
             touched[a] = {}, files["certs"] # Torn
      PROVE  \A f \in Stores(a) : files[f] = a
  <2>1. RequestInv(a) /\ FilesInv(a)  BY <1>1 DEF AttemptsInv, AttemptInv
  <2>2. told[a] = <<"success">>
    <3>1. PICK i \in DOMAIN told[a] : told[a][i] = "success"  BY <1>1 DEF Succeeded
    <3>2. told[a] # <<>>  BY <3>1
    <3>3. told[a] # <<"error">>  BY <3>1
    <3>4. told[a] # <<"error", "error">>  BY <3>1
    <3>q. QED  BY <2>1, <3>2, <3>3, <3>4 DEF RequestInv
  <2>q. QED  BY <1>1, <2>1, <2>2 DEF FilesInv
<1>2. AttemptsInv /\ DialogsInv => StoredInv  BY <1>1 DEF StoredInv
<1>q. QED  BY <1>2, Inductive, PTL

(* A new certificate never lies in the directory before what goes with it,  *)
(* nor new brokers before the CA certificates, wherever a write fails or a  *)
(* process is killed.                                                       *)
THEOREM StoredInOrder == CommandSpec => []OrderInv
<1>1. ASSUME AttemptsInv, NEW a \in Attempts PROVE FilesInv(a)
  BY <1>1 DEF AttemptsInv, AttemptInv
<1>2. AttemptsInv /\ DialogsInv => OrderInv  BY <1>1 DEF OrderInv, FilesInv
<1>q. QED  BY <1>2, Inductive, PTL

(* A certificate fits the private key beside it, whichever call or process  *)
(* made the key, if nobody else wrote since.                                *)
THEOREM CertificateFitsKey == CommandSpec => []FitsInv
<1>1. ASSUME AttemptsInv, NEW a \in Attempts, NEW b \in Attempts,
             files["cert"] = a, signed[a] = b, touched[a] = {}, touched[b] \subseteq {a}
      PROVE  files["key"] = b
  <2>1. FilesInv(a) /\ SignedInv(a) /\ KeyInv
    BY <1>1 DEF AttemptsInv, AttemptInv
  <2>2. kind[a] \in {"generate", "csrFile"}  BY <1>1, <2>1 DEF FilesInv
  <2>3. files["key"] = b \/ \E c \in touched[b] : MakesKey(c)
    BY <1>1, <2>1 DEF KeyInv
  <2>4. CASE kind[a] = "generate"
    <3>1. b = a  BY <1>1, <2>1, <2>4, AttemptsAssumption DEF SignedInv
    <3>q. QED  BY <1>1, <2>3, <3>1
  <2>5. CASE kind[a] = "csrFile"
    <3>1. ~MakesKey(a)  BY <2>5 DEF MakesKey
    <3>q. QED  BY <1>1, <2>3, <3>1
  <2>q. QED  BY <2>2, <2>4, <2>5
<1>2. AttemptsInv /\ DialogsInv => FitsInv  BY <1>1 DEF FitsInv
<1>q. QED  BY <1>2, Inductive, PTL

(* Nothing is written by a call whose doneCallback was invoked, late errors *)
(* aside, nor by a command that was given any error: the application may    *)
(* start the next one.                                                      *)
THEOREM NothingWrittenAfterDone == CommandSpec => NoWriteAfterToldProp
<1>1. (AttemptsInv /\ DialogsInv) /\ [CommandNext]_allVars => QuietStep  BY InvStep
<1>2. QuietStep =>
        [\A a \in Attempts, f \in Files :
           (Over(a) /\ files'[f] = a) => files[f] = a]_vars
  BY DEF QuietStep
<1>q. QED  BY <1>1, <1>2, Inductive, PTL DEF CommandSpec, NoWriteAfterToldProp

(* A command makes its call with the credentials and without a passphrase   *)
(* that is the value true, in whatever order they were given and asked for. *)
THEOREM CredentialsComplete == CommandSpec => []CredentialsInv
<1>1. AttemptsInv /\ DialogsInv => CredentialsInv
  BY DEF DialogsInv, SettledInv, CredentialsInv
<1>q. QED  BY <1>1, Inductive, PTL

(* A passphrase that was asked for was typed twice in a row. *)
THEOREM PassphraseConfirmed == CommandSpec => []ConfirmedInv
<1>1. AttemptsInv /\ DialogsInv => ConfirmedInv
  BY DEF DialogsInv, SettledInv, ConfirmedInv
<1>q. QED  BY <1>1, Inductive, PTL
=============================================================================
