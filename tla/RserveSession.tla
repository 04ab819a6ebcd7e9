---------------------------- MODULE RserveSession ----------------------------
(***************************************************************************)
(* What NetworkManager promises to its caller, without sockets, buffers or *)
(* partial reads.  Calls are made one at a time and are numbered.  A call  *)
(* is a query of the server's identification or the submission of a        *)
(* request; a session is identified by the call that opened it.            *)
(*                                                                         *)
(* A submitted request is executed at most once, and a call that returns a *)
(* packet returns the one the server produced for that very request.  A    *)
(* call that cannot do so throws, and then the session is over: nothing is *)
(* retried behind the caller's back, and a request that was on its way     *)
(* when the session ended may or may not be executed, even later.          *)
(***************************************************************************)
EXTENDS RserveID, Integers

CONSTANTS
    MaxCalls,     \* bound on the calls of one behaviour
    Responses,    \* the packets the server may answer with
    ServerIDs,    \* the identification strings servers may send
    AnyVersion,   \* m_bAnyVersion
    NoPacket      \* the place of an answer that was not given

Calls == 1..MaxCalls

NoSession == -1

\* What a caller gets of a packet: whose answer it is, its command word
\* (which holds the status) and its entries.
Content(c, p) == [from |-> c, cmd |-> p.cmd, entries |-> p.entries]

NoReturn == [from |-> 0, cmd |-> "none", entries |-> <<>>]

VARIABLES
    session,      \* the call that opened the session, or NoSession
    version,      \* the identification sent in this session
    calls,        \* number of calls made so far
    busy,         \* what the call in progress is: "no", "query", "submit"
    runs,         \* how many times the server has executed each request
    answer,       \* the packet the server produced for each request
    outcome,      \* how each call ended
    returned      \* what each call returned

vars == <<session, version, calls, busy, runs, answer, outcome, returned>>

Init ==
    /\ session = NoSession
    /\ version = NoVersion
    /\ calls = 0
    /\ busy = "no"
    /\ runs = [c \in Calls |-> 0]
    /\ answer = [c \in Calls |-> NoPacket]
    /\ outcome = [c \in Calls |-> "none"]
    /\ returned = [c \in Calls |-> NoReturn]

Begin(kind) ==
    /\ busy = "no"
    /\ calls < MaxCalls
    /\ calls' = calls + 1
    /\ busy' = kind
    /\ UNCHANGED <<session, version, runs, answer, outcome, returned>>

\* Only a call made without a session opens one, and it opens one only.
Open(id) ==
    /\ busy # "no"
    /\ session = NoSession
    /\ versionMatch(id, AnyVersion)
    /\ session' = calls
    /\ version' = id
    /\ UNCHANGED <<calls, busy, runs, answer, outcome, returned>>

Execute(r) ==
    /\ busy = "submit"
    /\ session # NoSession
    /\ runs[calls] = 0
    /\ runs' = [runs EXCEPT ![calls] = 1]
    /\ answer' = [answer EXCEPT ![calls] = r]
    /\ UNCHANGED <<session, version, calls, busy, outcome, returned>>

\* The request of a call that threw was on its way: the server still runs it.
ExecuteLate(c, r) ==
    /\ outcome[c] = "NetworkError"
    /\ runs[c] = 0
    /\ runs' = [runs EXCEPT ![c] = 1]
    /\ answer' = [answer EXCEPT ![c] = r]
    /\ UNCHANGED <<session, version, calls, busy, outcome, returned>>

ReturnVersion ==
    /\ busy = "query"
    /\ session # NoSession
    /\ busy' = "no"
    /\ outcome' = [outcome EXCEPT ![calls] = "version"]
    /\ UNCHANGED <<session, version, calls, runs, answer, returned>>

ReturnPacket ==
    /\ busy = "submit"
    /\ runs[calls] = 1
    /\ busy' = "no"
    /\ outcome' = [outcome EXCEPT ![calls] = "packet"]
    /\ returned' = [returned EXCEPT ![calls] = Content(calls, answer[calls])]
    /\ UNCHANGED <<session, version, calls, runs, answer>>

\* A query of an open session only reads m_sRserve_version: it cannot fail.
Throw ==
    /\ busy # "no"
    /\ busy = "query" => session = NoSession
    /\ busy' = "no"
    /\ outcome' = [outcome EXCEPT ![calls] = "NetworkError"]
    /\ session' = NoSession
    /\ version' = NoVersion
    /\ UNCHANGED <<calls, runs, answer, returned>>

Close ==
    /\ busy = "no"
    /\ session' = NoSession
    /\ version' = NoVersion
    /\ UNCHANGED <<calls, busy, runs, answer, outcome, returned>>

Next ==
    \/ \E kind \in {"query", "submit"} : Begin(kind)
    \/ \E id \in ServerIDs : Open(id)
    \/ \E r \in Responses : Execute(r)
    \/ \E c \in Calls, r \in Responses : ExecuteLate(c, r)
    \/ ReturnVersion
    \/ ReturnPacket
    \/ Throw
    \/ Close

Spec == Init /\ [][Next]_vars

-----------------------------------------------------------------------------
(* The view without history: the call in progress and what it returned.    *)

Bare(p) == [cmd |-> p.cmd, entries |-> p.entries]

Running == busy = "submit"

Call == INSTANCE RserveCall WITH
    Responses <- {Bare(r) : r \in Responses},
    NoPacket <- Bare(NoReturn),
    open <- session # NoSession,
    done <- Running /\ runs[calls] = 1,
    reply <- IF Running /\ runs[calls] = 1 THEN Bare(answer[calls])
             ELSE Bare(NoReturn),
    packet <- IF calls > 0 THEN Bare(returned[calls]) ELSE Bare(NoReturn)

\* Every behaviour of the sessions is, seen from the call in progress, one of
\* RserveCall: a request executed late cannot touch the present session.
ImplementsCall == Call!Spec
=============================================================================
