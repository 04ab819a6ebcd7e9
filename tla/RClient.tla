------------------------------ MODULE RClient -------------------------------
(***************************************************************************)
(* RClient: the commands a consumer calls, built from the calls of         *)
(* NetworkManager, and the last response that it keeps for the consumer's  *)
(* questions.  NetworkManager is here what RserveCall says of it.  The     *)
(* Rserve at the other end executes the requests: each session has an R    *)
(* workspace of its own, empty at first, and may ask for a login.          *)
(*                                                                         *)
(* How an object becomes an entry and an entry an object is RPacketEntry's *)
(* matter and here two parameters, which instances take from there.        *)
(*                                                                         *)
(* login is the command with several steps: each of them is a call that    *)
(* connects when there is no session, so the answers on which the login    *)
(* information is built and the login itself could belong to different     *)
(* sessions.                                                               *)
(***************************************************************************)
EXTENDS RserveID, Integers

CONSTANTS
    ServerIDs,    \* the identification strings servers may send
    AnyVersion,   \* m_bAnyVersion
    Symbols,      \* the R symbols in use
    Values,       \* the objects assigned to them
    NullObject,   \* REXPNull
    Unset,        \* what is in place of the value of a symbol that has none
    Encoded(_),   \* the entry of an object, empty when its constructor throws
    Decoded(_),   \* toREXP: the object of an entry
    RErrors,      \* the codes with which R refuses: 0 to 0x3f and those below 0
    Passwords,    \* the passwords consumers try
    Password      \* the one that servers accept

ASSUME PasswordAssumption == Password \in Passwords
ASSUME RErrorsAssumption == RErrors \subseteq -128..63
ASSUME CodecAssumption ==
    \A v \in Values : Encoded(v) # <<>> => Decoded(Encoded(v)) = v

Entries == {Encoded(v) : v \in Values} \ {<<>>}

ASSUME UnsetAssumption == Unset \notin Values /\ Unset \notin Entries

\* A response has one entry or none.  The highest byte of its command word is
\* a code, of which the place above the low bits is all that matters here.
Reply(cmd, code, entries) == [cmd |-> cmd, code |-> code, entries |-> entries]

NoResponse == Reply(0, 0, <<>>)

RESP_OK == 65537
RESP_ERR == 65538

OK == Reply(RESP_OK, 0, <<>>)

Success(e) == Reply(RESP_OK, 0, <<e>>)

\* A code below 0 is sent as the byte that holds it.
Refusal(code) == Reply(RESP_ERR, code % 256, <<>>)

ERR_auth_failed == 65

Replies ==
    {OK} \cup {Refusal(c) : c \in RErrors \cup {ERR_auth_failed}}
         \cup {Success(e) : e \in Entries}

VARIABLES
    open, version, busy, done, reply, packet    \* m_NetMan, see RserveCall

VARIABLES
    at,                \* where the command in progress is, or "idle"
    request,           \* what it submits
    m_pLast_response,
    result             \* what the last command returned or that it threw

VARIABLES
    workspace,         \* the values of the symbols in the present session
    loggedIn           \* has the server accepted a login in it?

VARIABLES
    acknowledged,      \* what assign reported done, no call having thrown since
    welcome,           \* the same of login
    previous           \* how the last command sent to the server ended

netManVars == <<open, version, busy, done, reply, packet>>
serverVars == <<workspace, loggedIn>>
historyVars == <<acknowledged, welcome, previous>>

vars == <<netManVars, at, request, m_pLast_response, result, serverVars,
          historyVars>>

m_NetMan == INSTANCE RserveCall WITH Responses <- Replies, NoPacket <- NoResponse

Fresh == [s \in Symbols |-> Unset]

NoRequest == [cmd |-> "none"]

Init ==
    /\ m_NetMan!Init
    /\ at = "idle"
    /\ request = NoRequest
    /\ m_pLast_response = NoResponse
    /\ result = [kind |-> "none"]
    /\ workspace = Fresh
    /\ loggedIn = FALSE
    /\ acknowledged = Fresh
    /\ welcome = FALSE
    /\ previous = "none"

-----------------------------------------------------------------------------
(* The questions about the last response. *)

isOk(p) == p.cmd % 2 = 1

\* Who failed, and the code that is printed: the wording is left out.
getStatus(p) ==
    LET code == p.code % 128
    IN  IF isOk(p) THEN [by |-> "nobody", code |-> 0]
        ELSE [by |-> IF code <= 63 THEN "R" ELSE "Rserve", code |-> code]

\* An empty string.
NoStatus == [by |-> "unasked", code |-> 0]

response_isSuccessful ==
    m_pLast_response # NoResponse /\ isOk(m_pLast_response)

response_errorStatus ==
    IF m_pLast_response = NoResponse THEN NoStatus ELSE getStatus(m_pLast_response)

response_entryCount == Len(m_pLast_response.entries)

\* A mutant: where there is no entry a null pointer is returned.
response_REXPAtOrNull(p, pos) ==
    IF pos < Len(p.entries) THEN Decoded(p.entries[pos + 1]) ELSE Unset

\* eval returns the object of the first entry, or REXPNull when there is none.
response_REXPAt(p, pos) ==
    IF pos < Len(p.entries) THEN Decoded(p.entries[pos + 1]) ELSE NullObject

-----------------------------------------------------------------------------
(* The commands: each builds its request before the first call. *)

Command(place, r) ==
    /\ at = "idle"
    /\ at' = place
    /\ request' = r
    /\ UNCHANGED <<netManVars, m_pLast_response, result, serverVars, historyVars>>

login(pwd) ==
    Command("isAuthorizationRequired",
            [cmd |-> "CMD_login", pwd |-> pwd, salt |-> "none"])

shutdown == Command("submit", [cmd |-> "CMD_shutdown"])

assign(sym, expr) ==
    /\ Encoded(expr) # <<>>
    /\ Command("submit", [cmd |-> "CMD_setSEXP", sym |-> sym, expr |-> expr])

\* The constructor of the entry throws: no packet is made.
assignThrows(expr) ==
    /\ at = "idle"
    /\ Encoded(expr) = <<>>
    /\ result' = [kind |-> "threw", cmd |-> "CMD_setSEXP"]
    /\ UNCHANGED <<netManVars, at, request, m_pLast_response, serverVars, historyVars>>

eval(expr) == Command("submit", [cmd |-> "CMD_eval", expr |-> expr])

getRserveVersion == Command("getVersion", [cmd |-> "version"])

-----------------------------------------------------------------------------
(* The calls of NetworkManager. *)

Questions == {"isAuthorizationRequired", "uc", "pt", "getKey", "getVersion"}

Ask ==
    /\ at \in Questions
    /\ m_NetMan!Begin("query")
    /\ UNCHANGED <<at, request, m_pLast_response, result, serverVars, historyVars>>

submit ==
    /\ at = "submit"
    /\ m_NetMan!Begin("submit")
    /\ UNCHANGED <<at, request, m_pLast_response, result, serverVars, historyVars>>

Return(value) ==
    /\ at' = "idle"
    /\ request' = NoRequest
    /\ result' = [kind |-> "returned", cmd |-> request.cmd, value |-> value]

\* login: what to do with the answer to each question.
Step(place, r) == at' = place /\ request' = r /\ UNCHANGED <<result, welcome>>

\* A mutant: the key that the server sent is not asked for.
CryptedWithDefault == [request EXCEPT !.salt = DefaultKey]

Crypted == [request EXCEPT !.salt = getKey(version)]

LoginNotRequired ==
    /\ at = "isAuthorizationRequired"
    /\ ~isAuthorizationRequired(version)
    /\ Return(TRUE)
    /\ welcome' = TRUE

\* A mutant: not being able to log in is taken for not having to.
LoginTypeUnknownIgnored ==
    /\ at = "pt"
    /\ ~hasAuthorizationType(version, "pt")
    /\ Return(TRUE)
    /\ welcome' = TRUE

LoginTypeUnknown ==
    /\ at = "pt"
    /\ ~hasAuthorizationType(version, "pt")
    /\ Return(FALSE)
    /\ UNCHANGED welcome

LoginStep ==
    \/ /\ at = "isAuthorizationRequired"
       /\ isAuthorizationRequired(version)
       /\ Step("uc", request)
    \/ /\ at = "uc"
       /\ IF hasAuthorizationType(version, "uc")
            THEN Step("getKey", request) ELSE Step("pt", request)
    \/ /\ at = "getKey"
       /\ Step("submit", Crypted)
    \/ /\ at = "pt"
       /\ hasAuthorizationType(version, "pt")
       /\ Step("submit", [request EXCEPT !.salt = "plain"])

Answered ==
    /\ m_NetMan!ReturnVersion
    /\ \/ LoginNotRequired
       \/ LoginTypeUnknown
       \/ LoginStep
       \/ at = "getVersion" /\ Return(version) /\ UNCHANGED welcome
    /\ UNCHANGED <<m_pLast_response, serverVars, acknowledged, previous>>

\* A mutant: only the responses that report success are stored.
RespondedStoringSuccess ==
    /\ m_NetMan!ReturnPacket
    /\ m_pLast_response' = IF isOk(packet') THEN packet' ELSE m_pLast_response
    /\ Return(IF request.cmd = "CMD_eval" THEN response_REXPAt(packet', 0)
                                          ELSE isOk(packet'))
    /\ previous' = IF isOk(packet') THEN "succeeded" ELSE "failed"
    /\ UNCHANGED <<serverVars, acknowledged, welcome>>

\* The response is stored before the result is made from it.
Responded ==
    /\ m_NetMan!ReturnPacket
    /\ m_pLast_response' = packet'
    /\ Return(IF request.cmd = "CMD_eval" THEN response_REXPAt(packet', 0)
                                          ELSE isOk(packet'))
    /\ acknowledged' =
         IF request.cmd = "CMD_setSEXP" /\ isOk(packet')
           THEN [acknowledged EXCEPT ![request.sym] = request.expr]
           ELSE acknowledged
    /\ welcome' = (welcome \/ (request.cmd = "CMD_login" /\ isOk(packet')))
    /\ previous' = IF isOk(packet') THEN "succeeded" ELSE "failed"
    /\ UNCHANGED serverVars

\* A mutant: a command that failed to submit its request tries again.
NetworkErrorCaught ==
    /\ m_NetMan!Throw
    /\ UNCHANGED <<at, request, result, historyVars, m_pLast_response, serverVars>>

\* No command catches a NetworkError: it leaves RClient as it came.
NetworkErrorThrown ==
    /\ m_NetMan!Throw
    /\ at' = "idle"
    /\ request' = NoRequest
    /\ result' = [kind |-> "threw", cmd |-> request.cmd]
    /\ acknowledged' = Fresh
    /\ welcome' = FALSE
    /\ previous' = IF at = "submit" THEN "failed" ELSE previous
    /\ UNCHANGED <<m_pLast_response, serverVars>>

-----------------------------------------------------------------------------
(* The Rserve: not in the repository. *)

Connected(id) ==
    /\ m_NetMan!Open(id)
    /\ workspace' = Fresh
    /\ loggedIn' = FALSE
    /\ UNCHANGED <<at, request, m_pLast_response, result, historyVars>>

Authorized == loggedIn \/ ~isAuthorizationRequired(version)

\* Plain text is accepted where it was offered, and crypt's result when the
\* salt was the key of this session.
RightLogin ==
    /\ request.pwd = Password
    /\ \/ request.salt = "plain" /\ hasAuthorizationType(version, "pt")
       \/ request.salt = getKey(version) /\ hasAuthorizationType(version, "uc")

ServerLogsIn ==
    /\ request.cmd = "CMD_login"
    /\ m_NetMan!Execute(IF RightLogin THEN OK ELSE Refusal(ERR_auth_failed))
    /\ loggedIn' = (loggedIn \/ RightLogin)
    /\ UNCHANGED workspace

ServerRefuses ==
    /\ request.cmd # "CMD_login"
    /\ \E code \in IF Authorized THEN RErrors ELSE {ERR_auth_failed} :
         m_NetMan!Execute(Refusal(code))
    /\ UNCHANGED serverVars

ServerAssigns ==
    /\ request.cmd = "CMD_setSEXP"
    /\ Authorized
    /\ m_NetMan!Execute(OK)
    /\ workspace' = [workspace EXCEPT ![request.sym] = Encoded(request.expr)]
    /\ UNCHANGED loggedIn

ServerEvaluates ==
    /\ request.cmd = "CMD_eval"
    /\ Authorized
    /\ workspace[request.expr] # Unset
    /\ m_NetMan!Execute(Success(workspace[request.expr]))
    /\ UNCHANGED serverVars

ServerShutsDown ==
    /\ request.cmd = "CMD_shutdown"
    /\ Authorized
    /\ m_NetMan!Execute(OK)
    /\ UNCHANGED serverVars

Server ==
    /\ ServerLogsIn \/ ServerRefuses \/ ServerAssigns \/ ServerEvaluates
         \/ ServerShutsDown
    /\ UNCHANGED <<at, request, m_pLast_response, result, historyVars>>

-----------------------------------------------------------------------------
Consumer ==
    \/ \E pwd \in Passwords : login(pwd)
    \/ shutdown
    \/ \E sym \in Symbols, expr \in Values : assign(sym, expr)
    \/ \E expr \in Values : assignThrows(expr)
    \/ \E expr \in Symbols : eval(expr)
    \/ getRserveVersion

\* What happens while a command runs.
Running ==
    \/ Ask
    \/ submit
    \/ Answered
    \/ Responded
    \/ NetworkErrorThrown
    \/ \E id \in ServerIDs : Connected(id)
    \/ Server

Next == Consumer \/ Running

Spec == Init /\ [][Next]_vars

-----------------------------------------------------------------------------
(* Properties. *)

TypeOK ==
    /\ open \in BOOLEAN
    /\ version \in ServerIDs \cup {NoVersion}
    /\ busy \in {"no", "query", "submit"}
    /\ done \in BOOLEAN
    /\ reply \in Replies \cup {NoResponse}
    /\ packet \in Replies \cup {NoResponse}
    /\ at \in Questions \cup {"idle", "submit"}
    /\ m_pLast_response \in Replies \cup {NoResponse}
    /\ workspace \in [Symbols -> Entries \cup {Unset}]
    /\ loggedIn \in BOOLEAN
    /\ acknowledged \in [Symbols -> Values \cup {Unset}]
    /\ welcome \in BOOLEAN
    /\ previous \in {"none", "succeeded", "failed"}
    /\ result.kind \in {"none", "threw", "returned"}
    /\ result.kind = "returned" =>
         CASE result.cmd = "CMD_eval" -> result.value \in Values \cup {NullObject}
           [] result.cmd = "version" -> result.value \in ServerIDs
           [] OTHER -> result.value \in BOOLEAN

\* A login that reaches the server was made for the session it arrives in:
\* crypt's salt is the key of that session, and the password travels in plain
\* text only where crypt was not offered.  The server can refuse the right
\* password for no other reason (login, lines 36 to 68).
LoginFitsSession ==
    request.cmd = "CMD_login" /\ done =>
        /\ IF hasAuthorizationType(version, "uc")
             THEN request.salt = getKey(version)
             ELSE request.salt = "plain"
        /\ request.pwd = Password => isOk(reply)

\* Once login has returned true, the consumer is in a session that lets it in
\* until some call throws: no call moves it to another session unnoticed.
LoginLasts == welcome => open /\ Authorized

\* A value whose assignment was acknowledged is in the workspace of the
\* present session, in bytes that mean it, until some call throws or assigns
\* the symbol again.
AssignLasts ==
    \A sym \in Symbols : acknowledged[sym] # Unset =>
        /\ open
        /\ \/ workspace[sym] # Unset /\ Decoded(workspace[sym]) = acknowledged[sym]
           \/ busy = "submit" /\ done /\ request.cmd = "CMD_setSEXP"
                /\ request.sym = sym /\ isOk(reply)

\* What eval returns is the object that was assigned to the symbol, and it is
\* REXPNull when and only when response_isSuccessful says that the evaluation
\* failed.  response_errorStatus says then that the login is missing, if that is
\* the reason, and otherwise which code R refused with.  Only of a code below 0
\* (rpacket.h line 84) it says less: seven bits of it, and not by whom, as
\* getStatus masks the sign and takes -1 to -64 for codes of Rserve's own.
EvalTellsTruth ==
    [][Responded /\ request.cmd = "CMD_eval" =>
         IF response_isSuccessful'
           THEN /\ result'.value = Decoded(workspace[request.expr])
                /\ acknowledged[request.expr] \in {result'.value, Unset}
           ELSE LET told == response_errorStatus'
                IN  /\ result'.value = NullObject
                    /\ ~Authorized => told = [by |-> "Rserve", code |-> ERR_auth_failed]
                    /\ Authorized =>
                         \E c \in RErrors : told.code = c % 128
                                              /\ (c >= 0 => told.by = "R")]_vars

\* rclient.cpp line 168: response_isSuccessful tells whether the previous
\* server command was successful.
PreviousCommandReported ==
    at = "idle" /\ previous # "none" =>
        (response_isSuccessful <=> previous = "succeeded")

-----------------------------------------------------------------------------
(* The inductive invariant behind the properties. *)

LoginRequests ==
    [cmd : {"CMD_login"}, pwd : Passwords,
     salt : {"none", "plain"} \cup {getKey(id) : id \in ServerIDs}]

Assignments ==
    [cmd : {"CMD_setSEXP"}, sym : Symbols, expr : {v \in Values : Encoded(v) # <<>>}]

Evaluations == [cmd : {"CMD_eval"}, expr : Symbols]

Shutdown == [cmd |-> "CMD_shutdown"]

VersionQuery == [cmd |-> "version"]

\* What is submitted, where a command is in its calls, and what it is waiting for.
RequestInv ==
    /\ request = NoRequest <=> at = "idle"
    /\ request = VersionQuery <=> at = "getVersion"
    /\ at \in Questions \ {"getVersion"} => request \in LoginRequests
    /\ at = "submit" =>
         request \in LoginRequests \cup Assignments \cup Evaluations \cup {Shutdown}
    /\ busy = "query" => at \in Questions
    /\ busy = "submit" => at = "submit"
    /\ done => busy = "submit" /\ open
    /\ IF open THEN version \in ServerIDs ELSE version = NoVersion

\* The session that answered the questions of login is still the present one
\* when the login is submitted: none of the calls has to connect again.
LoginInv ==
    /\ at \in {"uc", "pt", "getKey"} => open /\ isAuthorizationRequired(version)
    /\ at = "getKey" => hasAuthorizationType(version, "uc")
    /\ at = "pt" => ~hasAuthorizationType(version, "uc")
    /\ at = "submit" /\ request.cmd = "CMD_login" =>
         /\ open
         /\ IF hasAuthorizationType(version, "uc")
              THEN request.salt = getKey(version)
              ELSE request.salt = "plain" /\ hasAuthorizationType(version, "pt")

\* What an answer on its way back says of the session that it comes from.
AnswerInv ==
    done =>
        /\ reply \in Replies
        /\ request.cmd = "CMD_login" =>
             /\ isOk(reply) => loggedIn
             /\ request.pwd = Password => isOk(reply)
        /\ request.cmd = "CMD_setSEXP" /\ isOk(reply) =>
             workspace[request.sym] = Encoded(request.expr)
        /\ request.cmd = "CMD_eval" =>
             \/ /\ workspace[request.expr] # Unset
                /\ reply = Success(workspace[request.expr])
             \/ \E code \in IF Authorized THEN RErrors ELSE {ERR_auth_failed} :
                   reply = Refusal(code)

\* Together: what a command submits was made for the session that it reaches,
\* and what it is answered is true of that session until it returns.
CommandInv == RequestInv /\ LoginInv /\ AnswerInv
=============================================================================
