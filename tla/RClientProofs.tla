--------------------------- MODULE RClientProofs ----------------------------
(***************************************************************************)
(* RClient's properties, for every set of identification strings, objects, *)
(* symbols and passwords, and for every codec that decodes what it has     *)
(* encoded.                                                                *)
(***************************************************************************)
EXTENDS RClient, TLAPS

LEMMA SameNames ==
    /\ m_NetMan!NoVersion = NoVersion
    /\ \A id : m_NetMan!versionMatch(id, AnyVersion) = versionMatch(id, AnyVersion)
BY Zenon
DEF NoVersion, m_NetMan!NoVersion, versionMatch, m_NetMan!versionMatch

-----------------------------------------------------------------------------
(* Responses. *)

LEMMA SuccessIsOk ==
    /\ isOk(OK)
    /\ \A e : isOk(Success(e))
BY DEF isOk, OK, Success, Reply, RESP_OK

\* What reports success is a response.
LEMMA OkIsResponse == \A p : isOk(p) => p # NoResponse
BY DEF isOk, NoResponse, Reply

\* A refusal is no success, whatever its code, and is not taken for the
\* response that is not there.
LEMMA RefusalIsNotOk ==
    ASSUME NEW c
    PROVE  ~isOk(Refusal(c)) /\ Refusal(c) # NoResponse
BY DEF isOk, Refusal, NoResponse, Reply, RESP_ERR

\* A refusal for want of a login, and one with a code that is not below 0, are
\* told for what they are; of any other code seven bits are told.
LEMMA RefusalStatus ==
    ASSUME NEW c \in RErrors \cup {ERR_auth_failed}
    PROVE  LET told == getStatus(Refusal(c))
           IN  /\ told.code = c % 128
               /\ c = ERR_auth_failed =>
                    told = [by |-> "Rserve", code |-> ERR_auth_failed]
               /\ c \in 0..63 => told.by = "R"
<1>1. c \in -128..65
  BY RErrorsAssumption DEF ERR_auth_failed
<1>2. Refusal(c).code = c % 256
  BY DEF Refusal, Reply
<1>3. (c % 256) % 128 = c % 128
  BY <1>1
<1>4. c \in 0..65 => c % 128 = c
  BY <1>1
<1>5. getStatus(Refusal(c)) =
        [by |-> IF c % 128 <= 63 THEN "R" ELSE "Rserve", code |-> c % 128]
  BY <1>2, <1>3, RefusalIsNotOk DEF getStatus
<1>. QED
  BY <1>4, <1>5 DEF ERR_auth_failed

LEMMA EntryMeansObject ==
    ASSUME NEW v \in Values, Encoded(v) # <<>>
    PROVE  Encoded(v) \in Entries /\ Decoded(Encoded(v)) = v
BY CodecAssumption DEF Entries

LEMMA EntriesMeanObjects == \A e \in Entries : Decoded(e) \in Values
BY CodecAssumption DEF Entries

LEMMA RepliesServerGives ==
    /\ OK \in Replies
    /\ \A c \in RErrors \cup {ERR_auth_failed} : Refusal(c) \in Replies
    /\ \A e \in Entries : Success(e) \in Replies
BY DEF Replies

-----------------------------------------------------------------------------
(* Requests. *)

\* A request says what kind it is.
LEMMA RequestKinds ==
    /\ \A r \in LoginRequests : r.cmd = "CMD_login"
    /\ \A r \in Assignments : /\ r.cmd = "CMD_setSEXP" /\ r.sym \in Symbols
                                /\ r.expr \in Values /\ Encoded(r.expr) # <<>>
    /\ \A r \in Evaluations : r.cmd = "CMD_eval" /\ r.expr \in Symbols
    /\ Shutdown.cmd = "CMD_shutdown"
    /\ VersionQuery.cmd = "version"
    /\ NoRequest.cmd = "none"
BY DEF LoginRequests, Assignments, Evaluations, Shutdown, VersionQuery, NoRequest

LEMMA SubmittedKinds ==
    ASSUME RequestInv, at = "submit"
    PROVE  \/ request \in LoginRequests /\ request.cmd = "CMD_login"
           \/ /\ request \in Assignments /\ request.cmd = "CMD_setSEXP"
              /\ request.sym \in Symbols /\ request.expr \in Values
              /\ Encoded(request.expr) # <<>>
           \/ /\ request \in Evaluations /\ request.cmd = "CMD_eval"
              /\ request.expr \in Symbols
           \/ request = Shutdown /\ request.cmd = "CMD_shutdown"
BY RequestKinds DEF RequestInv

LEMMA SaltOfLogin ==
    ASSUME NEW r \in LoginRequests,
           NEW salt \in {"none", "plain"} \cup {getKey(id) : id \in ServerIDs}
    PROVE  /\ [r EXCEPT !.salt = salt] \in LoginRequests
           /\ [r EXCEPT !.salt = salt].salt = salt
           /\ [r EXCEPT !.salt = salt].cmd = "CMD_login"
BY DEF LoginRequests

-----------------------------------------------------------------------------
(* What each step does to the calls of NetworkManager. *)

LEMMA AskEffect ==
    ASSUME Ask \/ submit
    PROVE  /\ busy = "no" /\ busy' \in {"query", "submit"}
           /\ busy' = "query" => at \in Questions
           /\ busy' = "submit" => at = "submit"
           /\ packet' = NoResponse
           /\ UNCHANGED <<open, version, done, reply, at, request, result,
                          m_pLast_response, workspace, loggedIn, acknowledged,
                          welcome, previous>>
BY DEF Ask, submit, m_NetMan!Begin, serverVars, historyVars

LEMMA ConnectedEffect ==
    ASSUME NEW id \in ServerIDs, Connected(id)
    PROVE  /\ busy # "no" /\ ~open /\ open' = TRUE /\ version' = id
           /\ workspace' = Fresh /\ loggedIn' = FALSE
           /\ UNCHANGED <<busy, done, reply, packet, at, request, result,
                          m_pLast_response, acknowledged, welcome, previous>>
BY DEF Connected, m_NetMan!Open, historyVars

LEMMA ThrownEffect ==
    ASSUME NetworkErrorThrown
    PROVE  /\ open' = FALSE /\ version' = NoVersion /\ busy' = "no"
           /\ done' = FALSE /\ reply' = NoResponse
           /\ at' = "idle" /\ request' = NoRequest
           /\ result' = [kind |-> "threw", cmd |-> request.cmd]
           /\ acknowledged' = Fresh /\ welcome' = FALSE
           /\ previous' \in {"failed", previous}
           /\ UNCHANGED <<packet, m_pLast_response, workspace, loggedIn>>
BY SameNames DEF NetworkErrorThrown, m_NetMan!Throw, m_NetMan!Ends, serverVars

LEMMA AnsweredEffect ==
    ASSUME Answered
    PROVE  /\ busy = "query" /\ open
           /\ busy' = "no" /\ done' = FALSE /\ reply' = NoResponse
           /\ UNCHANGED <<open, version, packet, m_pLast_response, workspace,
                          loggedIn, acknowledged, previous>>
           /\ \/ LoginNotRequired
              \/ LoginTypeUnknown
              \/ LoginStep
              \/ at = "getVersion" /\ Return(version) /\ UNCHANGED welcome
BY DEF Answered, m_NetMan!ReturnVersion, m_NetMan!Ends, serverVars

LEMMA RespondedEffect ==
    ASSUME Responded
    PROVE  /\ busy = "submit" /\ done
           /\ busy' = "no" /\ done' = FALSE /\ reply' = NoResponse
           /\ packet' = reply /\ m_pLast_response' = reply
           /\ UNCHANGED <<open, version, workspace, loggedIn>>
           /\ at' = "idle" /\ request' = NoRequest
           /\ result' = [kind |-> "returned", cmd |-> request.cmd,
                value |-> IF request.cmd = "CMD_eval" THEN response_REXPAt(reply, 0)
                                                     ELSE isOk(reply)]
           /\ acknowledged' =
                IF request.cmd = "CMD_setSEXP" /\ isOk(reply)
                  THEN [acknowledged EXCEPT ![request.sym] = request.expr]
                  ELSE acknowledged
           /\ welcome' = (welcome \/ (request.cmd = "CMD_login" /\ isOk(reply)))
           /\ previous' \in {"succeeded", "failed"}
BY DEF Responded, Return, m_NetMan!ReturnPacket, m_NetMan!Ends, serverVars

\* Whatever the server does, it answers the request that it was sent, once.
LEMMA ServerEffect ==
    ASSUME Server
    PROVE  /\ busy = "submit" /\ open /\ ~done /\ done' = TRUE
           /\ UNCHANGED <<open, version, busy, packet, at, request, result,
                          m_pLast_response, acknowledged, welcome, previous>>
           /\ \/ /\ request.cmd = "CMD_login"
                 /\ reply' = IF RightLogin THEN OK ELSE Refusal(ERR_auth_failed)
                 /\ loggedIn' = (loggedIn \/ RightLogin)
                 /\ UNCHANGED workspace
              \/ /\ request.cmd # "CMD_login"
                 /\ \E code \in IF Authorized THEN RErrors ELSE {ERR_auth_failed} :
                      reply' = Refusal(code)
                 /\ UNCHANGED <<workspace, loggedIn>>
              \/ /\ request.cmd = "CMD_setSEXP" /\ Authorized /\ reply' = OK
                 /\ workspace' = [workspace EXCEPT
                                    ![request.sym] = Encoded(request.expr)]
                 /\ UNCHANGED loggedIn
              \/ /\ request.cmd = "CMD_eval" /\ Authorized
                 /\ workspace[request.expr] # Unset
                 /\ reply' = Success(workspace[request.expr])
                 /\ UNCHANGED <<workspace, loggedIn>>
              \/ /\ request.cmd = "CMD_shutdown" /\ Authorized /\ reply' = OK
                 /\ UNCHANGED <<workspace, loggedIn>>
BY DEF Server, ServerLogsIn, ServerRefuses, ServerAssigns, ServerEvaluates,
       ServerShutsDown, m_NetMan!Execute, serverVars, historyVars

\* How a command begins: nothing has been asked or submitted yet.
LEMMA CommandEffect ==
    ASSUME NEW place, NEW r, Command(place, r)
    PROVE  /\ at = "idle" /\ at' = place /\ request' = r
           /\ UNCHANGED <<open, version, busy, done, reply, packet, result,
                          m_pLast_response, workspace, loggedIn, acknowledged,
                          welcome, previous>>
BY DEF Command, netManVars, serverVars, historyVars

LEMMA ConsumerEffect ==
    ASSUME Consumer
    PROVE  /\ at = "idle"
           /\ UNCHANGED <<open, version, busy, done, reply, packet,
                          m_pLast_response, workspace, loggedIn, acknowledged,
                          welcome, previous>>
           /\ \/ /\ at' = "isAuthorizationRequired" /\ request' \in LoginRequests
                 /\ UNCHANGED result
              \/ /\ at' = "submit"
                 /\ request' \in Assignments \cup Evaluations \cup {Shutdown}
                 /\ UNCHANGED result
              \/ /\ at' = "getVersion" /\ request' = VersionQuery
                 /\ UNCHANGED result
              \/ /\ UNCHANGED <<at, request>>
                 /\ result' = [kind |-> "threw", cmd |-> "CMD_setSEXP"]
<1>1. ASSUME NEW pwd \in Passwords, login(pwd)
      PROVE  request' \in LoginRequests /\ at' = "isAuthorizationRequired"
  BY <1>1, CommandEffect DEF login, LoginRequests
<1>2. ASSUME NEW sym \in Symbols, NEW expr \in Values, assign(sym, expr)
      PROVE  request' \in Assignments /\ at' = "submit"
  BY <1>2, CommandEffect DEF assign, Assignments
<1>3. ASSUME NEW expr \in Symbols, eval(expr)
      PROVE  request' \in Evaluations /\ at' = "submit"
  BY <1>3, CommandEffect DEF eval, Evaluations
<1>4. shutdown => request' = Shutdown /\ at' = "submit"
  BY CommandEffect DEF shutdown, Shutdown
<1>5. getRserveVersion => request' = VersionQuery /\ at' = "getVersion"
  BY CommandEffect DEF getRserveVersion, VersionQuery
<1>6. ASSUME NEW expr \in Values, assignThrows(expr)
      PROVE  /\ at = "idle" /\ UNCHANGED <<at, request>>
             /\ result' = [kind |-> "threw", cmd |-> "CMD_setSEXP"]
             /\ UNCHANGED <<open, version, busy, done, reply, packet,
                            m_pLast_response, workspace, loggedIn, acknowledged,
                            welcome, previous>>
  BY <1>6 DEF assignThrows, netManVars, serverVars, historyVars
<1>. QED
  BY <1>1, <1>2, <1>3, <1>4, <1>5, <1>6, CommandEffect
  DEF Consumer, login, shutdown, assign, eval, getRserveVersion

\* login goes on to its next question, or has its salt and submits.
LEMMA LoginStepEffect ==
    ASSUME RequestInv, LoginStep, version \in ServerIDs
    PROVE  /\ request' \in LoginRequests
           /\ UNCHANGED <<result, welcome>>
           /\ \/ /\ at = "isAuthorizationRequired" /\ at' = "uc"
                 /\ isAuthorizationRequired(version)
              \/ /\ at = "uc" /\ at' = "getKey"
                 /\ hasAuthorizationType(version, "uc")
              \/ /\ at = "uc" /\ at' = "pt"
                 /\ ~hasAuthorizationType(version, "uc")
              \/ /\ at = "getKey" /\ at' = "submit"
                 /\ request'.salt = getKey(version)
              \/ /\ at = "pt" /\ at' = "submit"
                 /\ hasAuthorizationType(version, "pt")
                 /\ request'.salt = "plain"
<1>1. request \in LoginRequests
  BY DEF RequestInv, LoginStep, Questions
<1>2. getKey(version) \in {getKey(id) : id \in ServerIDs}
  OBVIOUS
<1>3. Crypted \in LoginRequests /\ Crypted.salt = getKey(version)
  BY <1>1, <1>2, SaltOfLogin DEF Crypted
<1>4. /\ [request EXCEPT !.salt = "plain"] \in LoginRequests
      /\ [request EXCEPT !.salt = "plain"].salt = "plain"
  BY <1>1, SaltOfLogin
<1>. QED
  BY <1>1, <1>3, <1>4 DEF LoginStep, Step

-----------------------------------------------------------------------------
(* The inductive invariant. *)

LEMMA InitInv == Init => TypeOK /\ CommandInv
<1> SUFFICES ASSUME Init PROVE TypeOK /\ CommandInv
  OBVIOUS
<1>1. /\ open = FALSE /\ version = NoVersion /\ busy = "no" /\ done = FALSE
      /\ reply = NoResponse /\ packet = NoResponse /\ at = "idle"
      /\ request = NoRequest /\ request.cmd = "none"
  BY SameNames, RequestKinds DEF Init, m_NetMan!Init
<1>2. TypeOK
  BY <1>1 DEF Init, TypeOK, Fresh
<1>3. RequestInv
  BY <1>1, RequestKinds DEF RequestInv, Questions
<1>4. LoginInv /\ AnswerInv
  BY <1>1 DEF LoginInv, AnswerInv
<1>. QED
  BY <1>2, <1>3, <1>4 DEF CommandInv

\* The cases in which the proofs below look at a step.
LEMMA Steps ==
    ASSUME [Next]_vars
    PROVE  \/ Consumer
           \/ Ask \/ submit
           \/ Answered
           \/ Responded
           \/ NetworkErrorThrown
           \/ \E id \in ServerIDs : Connected(id)
           \/ Server
           \/ UNCHANGED vars
BY DEF Next, Running

LEMMA RequestNext ==
    ASSUME RequestInv, [Next]_vars
    PROVE  RequestInv'
<1> USE DEF RequestInv
<1>1. CASE Consumer
  BY <1>1, ConsumerEffect, RequestKinds DEF Questions
<1>2. CASE Ask \/ submit
  BY <1>2, AskEffect DEF Questions
<1>3. CASE Answered
  <2>1. version \in ServerIDs
    BY <1>3, AnsweredEffect
  <2>2. CASE LoginStep
    BY <1>3, <2>1, <2>2, AnsweredEffect, LoginStepEffect, RequestKinds DEF Questions
  <2>3. CASE ~LoginStep
    <3>1. at' = "idle" /\ request' = NoRequest
      BY <1>3, <2>3, AnsweredEffect DEF LoginNotRequired, LoginTypeUnknown, Return
    <3>. QED
      BY <1>3, <3>1, AnsweredEffect, RequestKinds DEF Questions
  <2>. QED
    BY <2>2, <2>3
<1>4. CASE Responded
  BY <1>4, RespondedEffect, RequestKinds DEF Questions
<1>5. CASE NetworkErrorThrown
  BY <1>5, ThrownEffect, RequestKinds DEF Questions
<1>6. ASSUME NEW id \in ServerIDs, Connected(id) PROVE RequestInv'
  BY <1>6, ConnectedEffect
<1>7. CASE Server
  BY <1>7, ServerEffect
<1>8. CASE UNCHANGED vars
  BY <1>8 DEF vars, netManVars
<1>. QED
  BY <1>1, <1>2, <1>3, <1>4, <1>5, <1>6, <1>7, <1>8, Steps

\* From the first answer to the last call of login no call connects.
LEMMA LoginNext ==
    ASSUME RequestInv, LoginInv, [Next]_vars
    PROVE  LoginInv'
<1> USE DEF LoginInv
<1>1. CASE Consumer
  <2>1. at' = "submit" => request'.cmd # "CMD_login"
    BY <1>1, ConsumerEffect, RequestKinds DEF RequestInv
  <2>. QED
    BY <1>1, <2>1, ConsumerEffect
<1>2. CASE Ask \/ submit
  BY <1>2, AskEffect
<1>3. CASE Answered
  <2>1. version \in ServerIDs
    BY <1>3, AnsweredEffect DEF RequestInv
  <2>2. CASE LoginStep
    BY <1>3, <2>1, <2>2, AnsweredEffect, LoginStepEffect
  <2>3. CASE ~LoginStep
    <3>1. at' = "idle"
      BY <1>3, <2>3, AnsweredEffect DEF LoginNotRequired, LoginTypeUnknown, Return
    <3>. QED
      BY <3>1
  <2>. QED
    BY <2>2, <2>3
<1>4. CASE Responded \/ NetworkErrorThrown
  BY <1>4, RespondedEffect, ThrownEffect
<1>5. ASSUME NEW id \in ServerIDs, Connected(id) PROVE LoginInv'
  BY <1>5, ConnectedEffect
<1>6. CASE Server
  BY <1>6, ServerEffect
<1>7. CASE UNCHANGED vars
  BY <1>7 DEF vars, netManVars
<1>. QED
  BY <1>1, <1>2, <1>3, <1>4, <1>5, <1>6, <1>7, Steps

\* The right password is accepted where the login was made for the session.
LEMMA FittingLoginIsRight ==
    ASSUME LoginInv, at = "submit", request.cmd = "CMD_login",
           request.pwd = Password
    PROVE  RightLogin
BY DEF LoginInv, RightLogin

LEMMA AnswerNext ==
    ASSUME TypeOK, CommandInv, [Next]_vars
    PROVE  AnswerInv'
<1>1. CASE Server
  <2>1. /\ at = "submit" /\ done' = TRUE
        /\ UNCHANGED <<request, version>>
    BY <1>1, ServerEffect DEF CommandInv, RequestInv
  <2>2. workspace \in [Symbols -> Entries \cup {Unset}]
    BY DEF TypeOK
  <2>3. CASE request.cmd = "CMD_login"
    <3>1. /\ reply' = IF RightLogin THEN OK ELSE Refusal(ERR_auth_failed)
          /\ loggedIn' = (loggedIn \/ RightLogin)
      BY <1>1, <2>3, ServerEffect
    <3>2. isOk(OK) /\ ~isOk(Refusal(ERR_auth_failed))
      BY SuccessIsOk, RefusalIsNotOk
    <3>3. isOk(reply') => RightLogin
      BY <3>1, <3>2
    <3>4. request.pwd = Password => RightLogin
      BY <2>1, <2>3, FittingLoginIsRight DEF CommandInv
    <3>. QED
      BY <2>1, <2>3, <3>1, <3>2, <3>3, <3>4, RepliesServerGives DEF AnswerInv
  <2>4. ASSUME request.cmd # "CMD_login",
               NEW code \in IF Authorized THEN RErrors ELSE {ERR_auth_failed},
               reply' = Refusal(code), UNCHANGED <<workspace, loggedIn>>
        PROVE  AnswerInv'
    <3>1. code \in RErrors \cup {ERR_auth_failed}
      OBVIOUS
    <3>2. ~isOk(reply') /\ reply' \in Replies
      BY <2>4, <3>1, RefusalIsNotOk, RepliesServerGives
    <3>3. Authorized' <=> Authorized
      BY <2>1, <2>4 DEF Authorized
    <3>. QED
      BY <2>1, <2>4, <3>2, <3>3 DEF AnswerInv
  <2>5. ASSUME request.cmd = "CMD_setSEXP", reply' = OK,
               workspace' = [workspace EXCEPT ![request.sym] = Encoded(request.expr)]
        PROVE  AnswerInv'
    <3>1. request.sym \in Symbols
      BY <2>1, <2>5, SubmittedKinds DEF CommandInv
    <3>2. workspace'[request.sym] = Encoded(request.expr)
      BY <2>2, <2>5, <3>1
    <3>. QED
      BY <2>1, <2>5, <3>2, RepliesServerGives DEF AnswerInv
  <2>6. ASSUME request.cmd = "CMD_eval", workspace[request.expr] # Unset,
               reply' = Success(workspace[request.expr]),
               UNCHANGED workspace
        PROVE  AnswerInv'
    <3>1. request.expr \in Symbols
      BY <2>1, <2>6, SubmittedKinds DEF CommandInv
    <3>2. workspace[request.expr] \in Entries
      BY <2>2, <2>6, <3>1
    <3>. QED
      BY <2>1, <2>6, <3>2, RepliesServerGives DEF AnswerInv
  <2>7. ASSUME request.cmd = "CMD_shutdown", reply' = OK PROVE AnswerInv'
    BY <2>1, <2>7, RepliesServerGives DEF AnswerInv
  <2>. QED
    BY <1>1, <2>3, <2>4, <2>5, <2>6, <2>7, ServerEffect
<1>2. CASE UNCHANGED vars
  BY <1>2 DEF vars, netManVars, serverVars, CommandInv, AnswerInv, Authorized
\* Nothing else happens between the answer and the return of the call.
<1>3. CASE ~Server /\ ~UNCHANGED vars
  <2>1. ~done'
    BY <1>3, Steps, ConsumerEffect, AskEffect, AnsweredEffect, RespondedEffect,
       ThrownEffect, ConnectedEffect
    DEF CommandInv, RequestInv, Questions
  <2>. QED
    BY <2>1 DEF AnswerInv
<1>. QED
  BY <1>1, <1>2, <1>3

-----------------------------------------------------------------------------
(* Types. *)

\* The object that eval returns.
LEMMA ResultOfEval ==
    ASSUME TypeOK, CommandInv, done, request.cmd = "CMD_eval"
    PROVE  /\ request.expr \in Symbols
           /\ \/ /\ isOk(reply)
                 /\ workspace[request.expr] \in Entries
                 /\ response_REXPAt(reply, 0) = Decoded(workspace[request.expr])
              \/ /\ \E code \in IF Authorized THEN RErrors ELSE {ERR_auth_failed} :
                      reply = Refusal(code)
                 /\ ~isOk(reply)
                 /\ response_REXPAt(reply, 0) = NullObject
<1>1. at = "submit" /\ request.expr \in Symbols
  BY SubmittedKinds DEF CommandInv, RequestInv
<1>2. CASE /\ workspace[request.expr] # Unset
           /\ reply = Success(workspace[request.expr])
  <2>1. workspace[request.expr] \in Entries /\ isOk(reply)
    BY <1>1, <1>2, SuccessIsOk DEF TypeOK
  <2>2. response_REXPAt(reply, 0) = Decoded(workspace[request.expr])
    BY <1>2 DEF response_REXPAt, Success, Reply
  <2>. QED
    BY <1>1, <2>1, <2>2
<1>3. ASSUME NEW code \in IF Authorized THEN RErrors ELSE {ERR_auth_failed},
             reply = Refusal(code)
      PROVE  ~isOk(reply) /\ response_REXPAt(reply, 0) = NullObject
  <2>1. ~isOk(reply)
    BY <1>3, RefusalIsNotOk
  <2>2. Len(reply.entries) = 0
    BY <1>3 DEF Refusal, Reply
  <2>. QED
    BY <2>1, <2>2 DEF response_REXPAt
<1>. QED
  BY <1>1, <1>2, <1>3 DEF CommandInv, AnswerInv

LEMMA TypeNext ==
    ASSUME TypeOK, CommandInv, [Next]_vars
    PROVE  TypeOK'
<1> USE DEF TypeOK
<1>0. RequestInv
  BY DEF CommandInv
<1>1. CASE Consumer
  BY <1>1, ConsumerEffect DEF Questions
<1>2. CASE Ask \/ submit
  BY <1>2, AskEffect
<1>3. CASE Answered
  <2>1. version \in ServerIDs
    BY <1>0, <1>3, AnsweredEffect DEF RequestInv
  <2>2. CASE LoginStep
    BY <1>0, <1>3, <2>1, <2>2, AnsweredEffect, LoginStepEffect DEF Questions
  <2>3. CASE LoginNotRequired \/ LoginTypeUnknown
    <3>1. request.cmd = "CMD_login"
      BY <1>0, <2>3, RequestKinds
      DEF RequestInv, LoginNotRequired, LoginTypeUnknown, Questions
    <3>2. /\ at' = "idle" /\ welcome' \in BOOLEAN
          /\ \E value \in BOOLEAN : result' =
               [kind |-> "returned", cmd |-> request.cmd, value |-> value]
      BY <2>3 DEF LoginNotRequired, LoginTypeUnknown, Return
    <3>. QED
      BY <1>3, <3>1, <3>2, AnsweredEffect
  <2>4. CASE at = "getVersion" /\ Return(version) /\ UNCHANGED welcome
    <3>1. request.cmd = "version"
      BY <1>0, <2>4, RequestKinds DEF RequestInv
    <3>. QED
      BY <1>3, <2>1, <2>4, <3>1, AnsweredEffect DEF Return
  <2>. QED
    BY <1>3, <2>2, <2>3, <2>4, AnsweredEffect
<1>4. CASE Responded
  <2>1. done /\ at = "submit"
    BY <1>0, <1>4, RespondedEffect DEF RequestInv
  <2>2. /\ request.cmd # "version"
        /\ request.cmd = "CMD_setSEXP" =>
             request.sym \in Symbols /\ request.expr \in Values
    BY <1>0, <2>1, SubmittedKinds
  <2>3. request.cmd = "CMD_eval" =>
          response_REXPAt(reply, 0) \in Values \cup {NullObject}
    BY <2>1, ResultOfEval, EntriesMeanObjects
  <2>4. isOk(reply) \in BOOLEAN
    BY DEF isOk
  <2>5. acknowledged' \in [Symbols -> Values \cup {Unset}]
    BY <1>4, <2>2, RespondedEffect
  <2>6. welcome' \in BOOLEAN
    BY <1>4, <2>4, RespondedEffect
  <2>. QED
    BY <1>4, <2>2, <2>3, <2>4, <2>5, <2>6, RespondedEffect
<1>5. CASE NetworkErrorThrown
  BY <1>5, ThrownEffect DEF Fresh
<1>6. ASSUME NEW id \in ServerIDs, Connected(id) PROVE TypeOK'
  BY <1>6, ConnectedEffect DEF Fresh
<1>7. CASE Server
  <2>1. /\ at = "submit" /\ done' = TRUE
        /\ UNCHANGED <<open, version, busy, packet, at, result, m_pLast_response,
                       acknowledged, welcome, previous>>
    BY <1>0, <1>7, ServerEffect DEF RequestInv
  <2>2. reply' \in Replies
    BY <1>7, <2>1, AnswerNext DEF AnswerInv
  <2>3. request.cmd = "CMD_setSEXP" => Encoded(request.expr) \in Entries
    BY <1>0, <2>1, SubmittedKinds, EntryMeansObject
  <2>4. workspace' \in [Symbols -> Entries \cup {Unset}] /\ loggedIn' \in BOOLEAN
    BY <1>7, <2>3, ServerEffect DEF RightLogin
  <2>. QED
    BY <2>1, <2>2, <2>4
<1>8. CASE UNCHANGED vars
  BY <1>8 DEF vars, netManVars, serverVars, historyVars
<1>. QED
  BY <1>1, <1>2, <1>3, <1>4, <1>5, <1>6, <1>7, <1>8, Steps

\* RClient's state is always what its commands mean it to be.
THEOREM TypeCorrect == Spec => []TypeOK
<1>1. TypeOK /\ CommandInv /\ [Next]_vars => (TypeOK /\ CommandInv)'
  BY TypeNext, RequestNext, LoginNext, AnswerNext DEF CommandInv
<1>. QED
  BY <1>1, InitInv, PTL DEF Spec

\* What a command submits was made for the session that it reaches, and what
\* the server answers is true of that session until the command returns.
THEOREM CommandsStayInSession == Spec => []CommandInv
<1>1. TypeOK /\ CommandInv /\ [Next]_vars => (TypeOK /\ CommandInv)'
  BY TypeNext, RequestNext, LoginNext, AnswerNext DEF CommandInv
<1>. QED
  BY <1>1, InitInv, PTL DEF Spec

-----------------------------------------------------------------------------
(* What the consumer relies on. *)

\* A login arrives in the session whose key and whose answers it was made from,
\* so that the server refuses the right password for no other reason.
THEOREM LoginFits == Spec => []LoginFitsSession
<1>1. CommandInv => LoginFitsSession
  BY DEF CommandInv, RequestInv, LoginInv, AnswerInv, LoginFitsSession
<1>. QED
  BY <1>1, CommandsStayInSession, PTL

LEMMA LoginLastsNext ==
    ASSUME CommandInv, LoginLasts, [Next]_vars
    PROVE  LoginLasts'
<1> USE DEF LoginLasts, Authorized
<1>1. CASE Consumer
  BY <1>1, ConsumerEffect
<1>2. CASE Ask \/ submit
  BY <1>2, AskEffect
<1>3. CASE Answered
  BY <1>3, AnsweredEffect, LoginStepEffect
  DEF LoginNotRequired, LoginTypeUnknown, LoginStep, Step
<1>4. CASE Responded
  BY <1>4, RespondedEffect DEF CommandInv, RequestInv, AnswerInv
<1>5. CASE NetworkErrorThrown
  BY <1>5, ThrownEffect
<1>6. ASSUME NEW id \in ServerIDs, Connected(id) PROVE LoginLasts'
  BY <1>6, ConnectedEffect
<1>7. CASE Server
  BY <1>7, ServerEffect
<1>8. CASE UNCHANGED vars
  BY <1>8 DEF vars, netManVars, serverVars, historyVars
<1>. QED
  BY <1>1, <1>2, <1>3, <1>4, <1>5, <1>6, <1>7, <1>8, Steps

\* Once login has returned true, only an exception can end the session that
\* lets the consumer in.
THEOREM LoginsLast == Spec => []LoginLasts
<1>1. Init => LoginLasts
  BY DEF Init, LoginLasts
<1>. QED
  BY <1>1, LoginLastsNext, CommandsStayInSession, PTL DEF Spec

LEMMA AssignLastsNext ==
    ASSUME TypeOK, CommandInv, AssignLasts, [Next]_vars
    PROVE  AssignLasts'
<1> USE DEF AssignLasts
<1>0. RequestInv /\ AnswerInv
  BY DEF CommandInv
<1>1. CASE Consumer
  <2>1. busy = "no"
    BY <1>0, <1>1, ConsumerEffect DEF RequestInv, Questions, TypeOK
  <2>. QED
    BY <1>1, <2>1, ConsumerEffect
<1>2. CASE (Ask \/ submit) \/ Answered
  <2>1. /\ busy # "submit"
        /\ UNCHANGED <<open, workspace, acknowledged>>
    BY <1>2, AskEffect, AnsweredEffect
  <2>. QED
    BY <2>1
<1>3. CASE Responded
  <2>1. done /\ at = "submit" /\ busy' = "no"
    BY <1>0, <1>3, RespondedEffect DEF RequestInv
  <2>2. CASE request.cmd = "CMD_setSEXP" /\ isOk(reply)
    <3> DEFINE s == request.sym
               v == request.expr
    <3>1. s \in Symbols /\ v \in Values /\ Encoded(v) # <<>>
      BY <1>0, <2>1, <2>2, SubmittedKinds
    <3>2. workspace[s] = Encoded(v) /\ Decoded(workspace[s]) = v
          /\ workspace[s] # Unset /\ open
      BY <1>0, <2>1, <2>2, <3>1, EntryMeansObject, UnsetAssumption
      DEF AnswerInv, RequestInv
    <3>3. /\ acknowledged' = [acknowledged EXCEPT ![s] = v]
          /\ UNCHANGED <<open, workspace>>
      BY <1>3, <2>2, RespondedEffect
    <3>4. acknowledged'[s] = v
      BY <3>1, <3>3 DEF TypeOK
    <3>5. ASSUME NEW sym \in Symbols, sym # s, acknowledged'[sym] # Unset
          PROVE  open /\ workspace[sym] # Unset
                 /\ Decoded(workspace[sym]) = acknowledged'[sym]
      BY <3>3, <3>5
    <3>. QED
      BY <3>2, <3>3, <3>4, <3>5
  <2>3. CASE ~(request.cmd = "CMD_setSEXP" /\ isOk(reply))
    BY <1>3, <2>3, RespondedEffect
  <2>. QED
    BY <2>2, <2>3
<1>4. CASE NetworkErrorThrown
  BY <1>4, ThrownEffect DEF Fresh
<1>5. ASSUME NEW id \in ServerIDs, Connected(id) PROVE AssignLasts'
  BY <1>5, ConnectedEffect
<1>6. CASE Server
  <2>1. /\ at = "submit" /\ busy = "submit" /\ open /\ ~done /\ done' = TRUE
        /\ UNCHANGED <<open, busy, request, acknowledged>>
    BY <1>0, <1>6, ServerEffect DEF RequestInv
  <2>2. CASE UNCHANGED workspace
    BY <2>1, <2>2
  <2>3. CASE /\ request.cmd = "CMD_setSEXP" /\ reply' = OK
             /\ workspace' = [workspace EXCEPT
                                ![request.sym] = Encoded(request.expr)]
    <3>1. isOk(reply')
      BY <2>3, SuccessIsOk
    <3>2. \A sym \in Symbols : sym # request.sym => workspace'[sym] = workspace[sym]
      BY <2>3 DEF TypeOK
    <3>. QED
      BY <2>1, <2>3, <3>1, <3>2
  <2>. QED
    BY <1>6, <2>2, <2>3, ServerEffect
<1>7. CASE UNCHANGED vars
  BY <1>7 DEF vars, netManVars, serverVars, historyVars
<1>. QED
  BY <1>1, <1>2, <1>3, <1>4, <1>5, <1>6, <1>7, Steps

\* A value that was assigned is in the workspace, in bytes that mean it, until
\* some call throws or the symbol is assigned again.
THEOREM AssignmentsLast == Spec => []AssignLasts
<1>1. Init => AssignLasts
  BY DEF Init, AssignLasts, Fresh
<1>. QED
  BY <1>1, AssignLastsNext, TypeCorrect, CommandsStayInSession, PTL DEF Spec

\* What holds of the answer when eval returns.
LEMMA EvalStep ==
    ASSUME TypeOK, CommandInv, AssignLasts, Responded, request.cmd = "CMD_eval"
    PROVE  IF response_isSuccessful'
             THEN /\ result'.value = Decoded(workspace[request.expr])
                  /\ acknowledged[request.expr] \in {result'.value, Unset}
             ELSE LET told == response_errorStatus'
                  IN  /\ result'.value = NullObject
                      /\ ~Authorized => told = [by |-> "Rserve", code |-> ERR_auth_failed]
                      /\ Authorized =>
                           \E c \in RErrors : told.code = c % 128
                                                /\ (c >= 0 => told.by = "R")
<1>1. /\ done /\ m_pLast_response' = reply
      /\ result'.value = response_REXPAt(reply, 0)
  BY RespondedEffect
<1>2. CASE isOk(reply)
  <2>1. response_isSuccessful'
    BY <1>1, <1>2, OkIsResponse DEF response_isSuccessful
  <2>2. /\ request.expr \in Symbols
        /\ response_REXPAt(reply, 0) = Decoded(workspace[request.expr])
    BY <1>1, <1>2, ResultOfEval
  <2>3. acknowledged[request.expr] # Unset =>
          Decoded(workspace[request.expr]) = acknowledged[request.expr]
    BY <2>2 DEF AssignLasts
  <2>. QED
    BY <1>1, <2>1, <2>2, <2>3
<1>3. CASE ~isOk(reply)
  <2>1. PICK code \in IF Authorized THEN RErrors ELSE {ERR_auth_failed} :
          reply = Refusal(code)
    BY <1>1, <1>3, ResultOfEval
  <2>2. ~response_isSuccessful' /\ response_errorStatus' = getStatus(Refusal(code))
    BY <1>1, <1>3, <2>1, RefusalIsNotOk
    DEF response_isSuccessful, response_errorStatus
  <2>3. code \in RErrors \cup {ERR_auth_failed}
    OBVIOUS
  <2>4. /\ getStatus(Refusal(code)).code = code % 128
        /\ code = ERR_auth_failed =>
             getStatus(Refusal(code)) = [by |-> "Rserve", code |-> ERR_auth_failed]
        /\ code \in 0..63 => getStatus(Refusal(code)).by = "R"
    BY <2>3, RefusalStatus
  <2>5. ~Authorized => code = ERR_auth_failed
    OBVIOUS
  <2>6. Authorized => code \in RErrors /\ (code >= 0 => code \in 0..63)
    BY RErrorsAssumption
  <2>7. result'.value = NullObject
    BY <1>1, <1>3, ResultOfEval
  <2>. QED
    BY <2>2, <2>4, <2>5, <2>6, <2>7
<1>. QED
  BY <1>2, <1>3

\* What eval returns is the object that was assigned, or REXPNull when and only
\* when the questions about the last response say that it failed: for want of a
\* login, or with which code of R, of which seven bits are told when it is below 0.
THEOREM EvalsTellTruth == Spec => EvalTellsTruth
<1>1. TypeOK /\ CommandInv /\ AssignLasts /\ [Next]_vars =>
        [Responded /\ request.cmd = "CMD_eval" =>
           IF response_isSuccessful'
             THEN /\ result'.value = Decoded(workspace[request.expr])
                  /\ acknowledged[request.expr] \in {result'.value, Unset}
             ELSE LET told == response_errorStatus'
                  IN  /\ result'.value = NullObject
                      /\ ~Authorized => told = [by |-> "Rserve", code |-> ERR_auth_failed]
                      /\ Authorized =>
                           \E c \in RErrors : told.code = c % 128
                                                /\ (c >= 0 => told.by = "R")]_vars
  BY EvalStep
<1>. QED
  BY <1>1, TypeCorrect, CommandsStayInSession, AssignmentsLast, PTL
  DEF Spec, EvalTellsTruth

-----------------------------------------------------------------------------
(* The calls that RClient makes. *)

LEMMA CallStep ==
    ASSUME TypeOK, CommandInv, [Next]_vars
    PROVE  [m_NetMan!Next]_(m_NetMan!vars)
<1> USE DEF m_NetMan!vars
<1>1. CASE Consumer
  BY <1>1, ConsumerEffect
<1>2. CASE Ask \/ submit
  BY <1>2 DEF Ask, submit, m_NetMan!Next
<1>3. CASE Answered \/ Responded \/ NetworkErrorThrown
  BY <1>3 DEF Answered, Responded, NetworkErrorThrown, m_NetMan!Next
<1>4. ASSUME NEW id \in ServerIDs, Connected(id) PROVE m_NetMan!Next
  BY <1>4 DEF Connected, m_NetMan!Next
<1>5. CASE Server
  <2>1. \E r : m_NetMan!Execute(r)
    BY <1>5
    DEF Server, ServerLogsIn, ServerRefuses, ServerAssigns, ServerEvaluates,
        ServerShutsDown
  <2>2. reply' \in Replies
    BY <1>5, AnswerNext, ServerEffect DEF AnswerInv
  <2>3. \E r \in Replies : m_NetMan!Execute(r)
    BY <2>1, <2>2 DEF m_NetMan!Execute
  <2>. QED
    BY <2>3 DEF m_NetMan!Next
<1>6. CASE UNCHANGED vars
  BY <1>6 DEF vars, netManVars
<1>. QED
  BY <1>1, <1>2, <1>3, <1>4, <1>5, <1>6, Steps

\* RClient and its server use NetworkManager as RserveCall, which
\* NetworkManager implements, allows: one call at a time, an answer only to a
\* request that is under way, and never a second one.
THEOREM CallsAreRserveCalls == Spec => m_NetMan!Spec
<1>1. Init => m_NetMan!Init
  BY DEF Init
<1>. QED
  BY <1>1, CallStep, TypeCorrect, CommandsStayInSession, PTL
  DEF Spec, m_NetMan!Spec
=============================================================================
