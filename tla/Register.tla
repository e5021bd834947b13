------------------------------- MODULE Register -------------------------------
(***************************************************************************)
(* Registration of the server at the master: CRegister, one CProtocol for  *)
(* each address family, and the jobs that carry its requests               *)
(* (engine/server/register.cpp).                                           *)
(*                                                                         *)
(* The main thread sends requests as jobs; a job waits for the answer and  *)
(* records it under two locks, one after the other.  Requests overlap, may *)
(* fail, and are answered in any order.  The master is external: it asks   *)
(* for a challenge, whose token comes in a packet that may be lost, and    *)
(* for the server's information when it has none or an older one; it may   *)
(* restart and forget both.                                                *)
(*                                                                         *)
(* Abstractions.  The indexes of requests (m_NumTotalRequests, m_Index,    *)
(* m_LatestResponseIndex) matter by their order only: a request says       *)
(* whether it is the newest, and whether a later one was answered.  Time   *)
(* is kept as m_NextRegister having come or not; URLs, headers, addresses  *)
(* and the text of the information are left out but for its serial.        *)
(***************************************************************************)
EXTENDS Integers, Sequences, SequencesExt

CONSTANTS
  Protocols,  \* PROTOCOL_TW6_IPV6, PROTOCOL_TW6_IPV4
  MaxInfo,    \* bound: changes of the server's information
  MaxFlight,  \* bound: requests of one protocol that have not ended
  MaxFaults   \* bound: faults, and commands of the administrator

ASSUME RegisterAssumption == MaxInfo \in Nat /\ MaxFlight \in Nat \ {0} /\ MaxFaults \in Nat

VARIABLES
  gotUpdate,   \* m_GotFirstUpdateCall
  enabled,     \* m_aProtocolEnabled, as a set
  infoSerial,  \* CGlobal::m_InfoSerial
  knownSerial, \* CGlobal::m_LatestSuccessfulInfoSerial
  proto,       \* CProtocol and CShared of each protocol
  flight,      \* the jobs of each protocol, oldest first
  master,      \* what the master knows
  token,       \* protocols with a challenge packet on its way
  faults       \* how many faults and commands there were

registerVars == <<gotUpdate, enabled, infoSerial, knownSerial, proto, flight,
                  master, token, faults>>

Status == {"none", "success", "need_challenge", "need_info"}
Jobs == [kind : {"register", "delete"}, serial : Int, body : BOOLEAN, token : BOOLEAN,
         newest : BOOLEAN, late : BOOLEAN, answer : Status, phase : {"sent", "answered", "noted"}]

RegisterTypeOK ==
  /\ gotUpdate \in BOOLEAN /\ faults \in 0 .. MaxFaults
  /\ enabled \subseteq Protocols /\ token \subseteq Protocols
  /\ infoSerial \in -1 .. MaxInfo /\ knownSerial \in -1 .. MaxInfo
  /\ proto \in [Protocols -> [status : Status, quiet : BOOLEAN, newToken : BOOLEAN,
                              validToken : BOOLEAN, due : BOOLEAN]]
  /\ flight \in [Protocols -> Seq(Jobs)]
  /\ master \in [serial : Int, listed : SUBSET Protocols, told : Int]

RegisterInit ==
  /\ gotUpdate = FALSE /\ enabled = Protocols
  /\ infoSerial = -1 /\ knownSerial = -1
  \* quiet: m_LatestResponseIndex = m_NumTotalRequests - 1, no request in flight
  /\ proto = [p \in Protocols |-> [status |-> "none", quiet |-> TRUE, newToken |-> FALSE,
                                   validToken |-> FALSE, due |-> TRUE]]
  /\ flight = [p \in Protocols |-> <<>>]
  /\ master = [serial |-> -1, listed |-> {}, told |-> -1]
  /\ token = {} /\ faults = 0

Fault == faults < MaxFaults /\ faults' = faults + 1

-----------------------------------------------------------------------------
(* The main thread.                                                         *)

Request(p) ==
  [kind |-> "register", serial |-> infoSerial', body |-> infoSerial' > knownSerial,
   token |-> proto[p].validToken, newest |-> TRUE, late |-> FALSE,
   answer |-> "none", phase |-> "sent"]

Delete == [kind |-> "delete", serial |-> -1, body |-> FALSE, token |-> FALSE,
           newest |-> FALSE, late |-> FALSE, answer |-> "none", phase |-> "sent"]

HasRoom(p) == Len(flight[p]) < MaxFlight

\* What SendRegister leaves in the jobs and in the protocol q, which is q0 before.
WithRequest(p) ==
  Append([i \in DOMAIN flight[p] |-> [flight[p][i] EXCEPT !.newest = FALSE]], Request(p))
Registering(q) == [q EXCEPT !.quiet = FALSE, !.newToken = FALSE, !.due = FALSE]

\* CheckChallengeStatus: when all requests were answered the status may make the
\* next one due.
Checked(q) ==
  LET now == q.quiet /\ \/ q.status = "need_challenge" /\ q.newToken
                        \/ q.status = "need_info"
  IN  [q EXCEPT !.due = q.due \/ now]

\* Update and OnToken end alike: SendRegister if the time has come.
SendIfDue(p, q) ==
  /\ UNCHANGED infoSerial
  /\ IF q.due
       THEN /\ HasRoom(p)
            /\ flight' = [flight EXCEPT ![p] = WithRequest(p)]
            /\ proto' = [proto EXCEPT ![p] = Registering(q)]
       ELSE /\ proto' = [proto EXCEPT ![p] = q]
            /\ UNCHANGED flight

\* CRegister::Update, for one protocol.
Update(p) ==
  /\ infoSerial >= 0
  /\ p \in enabled
  /\ gotUpdate' = TRUE
  /\ SendIfDue(p, Checked(proto[p]))
  /\ UNCHANGED <<enabled, knownSerial, master, token, faults>>

\* The first call, while there is no information yet, only notes that it came.
FirstUpdate ==
  /\ ~gotUpdate /\ infoSerial < 0
  /\ gotUpdate' = TRUE
  /\ UNCHANGED <<enabled, infoSerial, knownSerial, proto, flight, master, token, faults>>

\* A challenge packet of the master: OnPacket, OnToken.  It does not ask whether
\* the protocol is enabled.
OnToken(p) ==
  /\ p \in token
  /\ token' = token \ {p}
  /\ SendIfDue(p, Checked([proto[p] EXCEPT !.newToken = TRUE, !.validToken = TRUE]))
  /\ UNCHANGED <<gotUpdate, enabled, knownSerial, master, faults>>

\* sv_register enables other protocols: the new ones register, those of the
\* past are deleted if they were registered.
OnConfigChange(E) ==
  LET On == E \ enabled
      Off == enabled \ E
      Listed(p) == proto[p].status = "success"
  IN  /\ Fault
      /\ E # enabled
      /\ enabled' = E
      /\ UNCHANGED infoSerial
      /\ IF gotUpdate
           THEN /\ \A p \in On \union Off : HasRoom(p)
                /\ flight' = [p \in Protocols |->
                     CASE p \in On -> WithRequest(p)
                       [] p \in Off /\ Listed(p) -> Append(flight[p], Delete)
                       [] OTHER -> flight[p]]
                /\ proto' = [p \in Protocols |->
                     CASE p \in On -> Registering(proto[p])
                       [] p \in Off -> [proto[p] EXCEPT !.status = "none"]
                       [] OTHER -> proto[p]]
           ELSE UNCHANGED <<flight, proto>>
      /\ UNCHANGED <<gotUpdate, knownSerial, master, token>>

\* OnNewInfo: the protocols that are due send it at once; so does the next one,
\* unless a request was sent less than a second ago.
OnNewInfo ==
  /\ infoSerial < MaxInfo
  /\ infoSerial' = infoSerial + 1
  /\ \E S \in SUBSET enabled :
       /\ IF gotUpdate
            THEN /\ {p \in enabled : proto[p].due} \subseteq S
                 /\ \A p, q \in S : ~proto[p].due /\ ~proto[q].due => p = q
            ELSE S = {}
       /\ \A p \in S : HasRoom(p)
       /\ flight' = [p \in Protocols |-> IF p \in S THEN WithRequest(p) ELSE flight[p]]
       /\ proto' = [p \in Protocols |-> IF p \in S THEN Registering(proto[p]) ELSE proto[p]]
  /\ UNCHANGED <<gotUpdate, enabled, knownSerial, master, token, faults>>

\* 15 seconds after the last request, or one after it for new information.
NextRegisterComes(p) ==
  /\ ~proto[p].due
  /\ proto' = [proto EXCEPT ![p].due = TRUE]
  /\ UNCHANGED <<gotUpdate, enabled, infoSerial, knownSerial, flight, master, token, faults>>

-----------------------------------------------------------------------------
(* The master, external.                                                    *)

Larger(a, b) == IF a < b THEN b ELSE a

Answer(r) ==
  IF ~r.token THEN "need_challenge"
  ELSE IF r.serial > master.serial /\ ~r.body THEN "need_info" ELSE "success"

\* A request reaches the master, and its answer the job.  A refusal for want of a
\* token sends a challenge packet.
MasterAnswers(p, i) ==
  LET r == flight[p][i]
      a == Answer(r)
  IN  /\ r.phase = "sent"
      /\ IF r.kind = "delete"
           THEN /\ master' = [master EXCEPT !.listed = @ \ {p}]
                /\ flight' = [flight EXCEPT ![p] = RemoveAt(@, i)]
                /\ UNCHANGED token
           ELSE /\ flight' = [flight EXCEPT ![p][i].answer = a, ![p][i].phase = "answered"]
                /\ token' = IF a = "need_challenge" THEN token \union {p} ELSE token
                /\ master' =
                     IF a # "success" THEN master
                     ELSE [serial |-> Larger(master.serial, r.serial),
                           told |-> Larger(master.told, r.serial),
                           listed |-> master.listed \union {p}]
      /\ UNCHANGED <<gotUpdate, enabled, infoSerial, knownSerial, proto, faults>>

\* It forgets all; the tokens it gave are void.
MasterRestarts ==
  /\ Fault
  /\ master' = [master EXCEPT !.serial = -1, !.listed = {}]
  /\ token' = {}
  /\ proto' = [p \in Protocols |-> [proto[p] EXCEPT !.validToken = FALSE]]
  /\ flight' = [p \in Protocols |->
                  [i \in DOMAIN flight[p] |-> [flight[p][i] EXCEPT !.token = FALSE]]]
  /\ UNCHANGED <<gotUpdate, enabled, infoSerial, knownSerial>>

TokenIsLost(p) ==
  /\ Fault
  /\ p \in token
  /\ token' = token \ {p}
  /\ UNCHANGED <<gotUpdate, enabled, infoSerial, knownSerial, proto, flight, master>>

-----------------------------------------------------------------------------
(* The jobs: CJob::Run.                                                     *)

\* No answer, or one that is not understood.
RequestFails(p, i) ==
  /\ Fault
  /\ flight[p][i].phase \in {"sent", "answered"}
  /\ flight' = [flight EXCEPT ![p] = RemoveAt(@, i)]
  /\ UNCHANGED <<gotUpdate, enabled, infoSerial, knownSerial, proto, master, token>>

\* Under CShared::m_Lock: an answer counts unless a later request was answered.
NoteStatus(p, i) ==
  LET r == flight[p][i]
  IN  /\ r.phase = "answered"
      /\ flight' = [flight EXCEPT ![p] =
           [j \in DOMAIN @ |->
              IF j = i THEN [@[j] EXCEPT !.phase = "noted"]
              ELSE IF j < i THEN [@[j] EXCEPT !.late = TRUE] ELSE @[j]]]
      /\ proto' = IF r.late THEN proto
                  ELSE [proto EXCEPT ![p].status = r.answer, ![p].quiet = @ \/ r.newest]
      /\ UNCHANGED <<gotUpdate, enabled, infoSerial, knownSerial, master, token, faults>>

\* m_InfoSerial of the job.
Succeeded(r) == r.serial

\* Mutant of Forgotten: nothing makes the information be sent again.
NotForgotten(r) == knownSerial

\* The master needs the information that we thought it knows.
Forgotten(r) == IF r.serial = knownSerial THEN knownSerial - 1 ELSE knownSerial

\* Then under CGlobal::m_Lock: what the master knows.
NoteSerial(p, i) ==
  LET r == flight[p][i]
  IN  /\ r.phase = "noted"
      /\ knownSerial' =
           CASE r.answer = "success" -> IF Succeeded(r) > knownSerial THEN Succeeded(r)
                                        ELSE knownSerial
             [] r.answer = "need_info" -> Forgotten(r)
             [] OTHER -> knownSerial
      /\ flight' = [flight EXCEPT ![p] = RemoveAt(@, i)]
      /\ UNCHANGED <<gotUpdate, enabled, infoSerial, proto, master, token, faults>>

JobStep(p, i) == MasterAnswers(p, i) \/ NoteStatus(p, i) \/ NoteSerial(p, i)

RegisterNext ==
  \/ \E p \in Protocols : \/ Update(p) \/ OnToken(p) \/ NextRegisterComes(p) \/ TokenIsLost(p)
                          \/ \E i \in DOMAIN flight[p] : JobStep(p, i) \/ RequestFails(p, i)
  \/ FirstUpdate \/ OnNewInfo \/ MasterRestarts
  \/ \E E \in SUBSET Protocols : OnConfigChange(E)

\* The main loop calls Update at every turn and reads its packets; time passes;
\* every job is run, the one that waits longest first (see JobPool).
RegisterFairness ==
  \A p \in Protocols :
    /\ WF_registerVars(Update(p)) /\ SF_registerVars(OnToken(p))
    /\ WF_registerVars(NextRegisterComes(p))
    /\ WF_registerVars(flight[p] # <<>> /\ JobStep(p, 1))

RegisterSpec == RegisterInit /\ [][RegisterNext]_registerVars /\ RegisterFairness

-----------------------------------------------------------------------------
\* m_LatestSuccessfulInfoSerial is never ahead of what the master was told: the
\* information is not left out of a request before a master had it
\* (engine/server/register.cpp:446; proved in ThreadsProofs).
KnownWasTold == knownSerial <= master.told

\* In the end every enabled protocol is listed with the current information,
\* whatever requests, answers, losses and restarts came before.
RegistrationConverges ==
  infoSerial >= 0 ~> enabled \subseteq master.listed
                             /\ (enabled # {} => master.serial = infoSerial)

\* sv_register names the protocols to register: no request is sent for another.
\* The code does not keep to it (README, section 4), and no run checks it.
OnlyEnabledRegister ==
  [][\A p \in Protocols : Len(flight'[p]) > Len(flight[p]) /\ Last(flight'[p]).kind = "register"
                          => p \in enabled']_registerVars
=============================================================================
