---------------------- MODULE NetworkManagerRefinement ----------------------
(***************************************************************************)
(* As long as no allocation fails NetworkManager implements RserveSession: *)
(* whatever its sockets, loops and partial reads do is, for the caller, a  *)
(* step of a session or nothing.  And because a session seen from the call *)
(* in progress is a RserveCall, NetworkManager implements that too.        *)
(***************************************************************************)
EXTENDS NetworkManagerProofs

\* Both modules name the same things the same way.
LEMMA SameNames ==
    /\ Session!NoVersion = NoVersion
    /\ \A id : Session!versionMatch(id, AnyVersion) = versionMatch(id, AnyVersion)
    /\ Session!Calls = Calls
    /\ Session!NoReturn = NoReturn
    /\ \A c, p : Session!Content(c, p) = Content(c, p)
    /\ Session!NoSession = NoSocket
BY Zenon
DEF NoVersion, Session!NoVersion, versionMatch, Session!versionMatch,
    Calls, Session!Calls, NoReturn, Session!NoReturn, Content, Session!Content,
    NoSocket, Session!NoSession

LEMMA SessionInit == Init => Session!Init
BY SameNames DEF Init, Session!Init, InSession, Idle

\* What the caller sees when nothing it can see changes.
LEMMA SessionStutters ==
    ASSUME UNCHANGED <<runs, answer, outcome, returned, calls>>,
           UNCHANGED op \/ pc' \in Idle,
           pc' \in Idle <=> pc \in Idle,
           \/ ~InSession /\ ~InSession'
           \/ UNCHANGED <<InSession, m_iSock, m_sRserve_version>>
    PROVE  UNCHANGED Session!vars
BY DEF Session!vars

\* An exception of throw_network_error is the abstract Throw.
LEMMA SessionThrow ==
    ASSUME TypeOK, SockInv, CallInv, throw_network_error, pc \notin Idle,
           pc # "query"
    PROVE  Session!Throw
<1>1. /\ m_iSock' = NoSocket /\ End("NetworkError") /\ UNCHANGED returned
  BY DEF throw_network_error, disconnect
<1>2. pc' = "idle" /\ UNCHANGED <<calls, op, runs, answer>>
      /\ outcome' = [outcome EXCEPT ![calls] = "NetworkError"]
  BY <1>1 DEF End, serverVars
<1>3. ~InSession'
  BY <1>1 DEF InSession
<1>4. InSession => op = "submit"
  BY DEF InSession, CallInv, SockInv, TypeOK, Phases, ConnectPhases,
         SendPhases, RecvPhases, Idle
<1>5. pc' \in Idle /\ op \in {"query", "submit"}
  BY <1>2 DEF Idle, TypeOK
<1>. QED
  BY <1>1, <1>2, <1>3, <1>4, <1>5, SameNames DEF Session!Throw

\* Every step is one of the session's or changes nothing that the caller sees.
LEMMA SessionStep ==
    ASSUME Inv, CallInv, StrandedInv, ~BadAlloc, [Next]_vars
    PROVE  [Session!Next]_(Session!vars)
<1> USE DEF objectVars, sendVars, recvVars, netVars, serverVars, callerVars
<1>0. TypeOK /\ SockInv /\ OnceInv /\ SendInv /\ StreamInv /\ ParseInv
  BY DEF Inv
<1>1. /\ pc \in Phases /\ op \in {"query", "submit"} /\ calls \in 0..MaxCalls
      /\ pc \notin Idle => calls \in Calls /\ outcome[calls] = "none"
  BY <1>0 DEF TypeOK, SockInv, CallInv
\* A call begins.
<1>2. ASSUME NEW kind \in {"query", "submit"}, NEW place \in {"query", "sendHeader"},
             Begin(kind, place)
      PROVE  Session!Begin(kind)
  <2>1. /\ pc = "idle" /\ calls < MaxCalls /\ calls' = calls + 1 /\ op' = kind
        /\ pc' = IF m_iSock = NoSocket THEN "socket" ELSE place
        /\ UNCHANGED <<m_iSock, m_sRserve_version, runs, answer, outcome, returned>>
    BY <1>2 DEF Begin
  <2>2. InSession' = InSession
    BY <2>1 DEF InSession, ConnectPhases
  <2>3. pc \in Idle /\ pc' \notin Idle
    BY <2>1 DEF Idle
  <2>. QED
    BY <2>1, <2>2, <2>3 DEF Session!Begin
<1>3. CASE Query
  BY <1>2, <1>3 DEF Query, Session!Next
<1>4. CASE \E p \in Requests : submit(p)
  BY <1>2, <1>4 DEF submit, Session!Next
\* The destructor ends the session.
<1>5. CASE Destroy
  <2>1. pc \in Idle /\ pc' \in Idle /\ m_iSock' = NoSocket
        /\ UNCHANGED <<op, calls, runs, answer, outcome, returned>>
    BY <1>5 DEF Destroy, disconnect, Idle
  <2>2. ~InSession'
    BY <2>1 DEF InSession
  <2>3. Session!Close
    BY <2>1, <2>2, SameNames DEF Session!Close
  <2>. QED
    BY <2>3 DEF Session!Next
\* Until the identification is accepted the caller has no session.
<1>6. CASE \/ GetSocket
           \/ ResolveHost
           \/ \E id \in ServerIDs : findConnection(id)
  <2>1. /\ UNCHANGED <<op, calls, runs, answer, outcome, returned>>
        /\ pc \in ConnectPhases /\ pc' \in ConnectPhases
    BY <1>6 DEF GetSocket, ResolveHost, findConnection, ConnectPhases
  <2>2. ~InSession /\ ~InSession' /\ pc \notin Idle /\ pc' \notin Idle
    BY <2>1 DEF InSession, ConnectPhases, Idle
  <2>. QED
    BY <2>1, <2>2, SessionStutters
<1>7. CASE ConnectFails \/ RejectVersion \/ SendFails \/ RecvFails
  <2>1. throw_network_error /\ pc \notin Idle /\ pc # "query"
    BY <1>7, ErrorsThrow
    DEF ConnectFails, RejectVersion, SendFails, RecvFails, ConnectFailing,
        Rejecting, SendFailing, RecvFailing, SendPhases, RecvPhases
  <2>2. Session!Throw
    BY <1>0, <2>1, SessionThrow
  <2>. QED
    BY <2>2 DEF Session!Next
<1>8. CASE AcceptVersion
  <2>1. /\ pc = "recvID" /\ pc' \in {"query", "sendHeader"}
        /\ versionMatch(serverID, AnyVersion)
        /\ m_sRserve_version' = serverID
        /\ UNCHANGED <<m_iSock, op, calls, runs, answer, outcome, returned>>
    BY <1>8 DEF AcceptVersion
  <2>2. m_iSock = calls /\ m_iSock # NoSocket
    BY <1>0, <2>1 DEF SockInv, ConnectPhases, Idle
  <2>3. serverID \in ServerIDs
    <3>1. ~versionMatch(NoVersion, AnyVersion)
      BY Zenon DEF versionMatch, NoVersion
    <3>. QED
      BY <1>0, <2>1, <3>1 DEF TypeOK
  <2>4. ~InSession /\ InSession' /\ pc \notin Idle /\ pc' \notin Idle
    BY <2>1, <2>2 DEF InSession, ConnectPhases, Idle
  <2>5. Session!Open(serverID)
    BY <1>1, <2>1, <2>2, <2>4, SameNames DEF Session!Open
  <2>. QED
    BY <2>3, <2>5 DEF Session!Next
\* Between a call's first byte and its last the caller waits.
<1>9. CASE \/ \E n \in 1..SendLen : pc \in SendPhases /\ Send(n)
           \/ NextSend
           \/ \E n \in 1..RecvLen : Recv(n)
           \/ ParseHeader
           \/ ParseEntryHeader
           \/ ParseLargeHeader
           \/ AppendEntry
  <2>1. /\ UNCHANGED <<m_iSock, m_sRserve_version, op, calls, runs, answer,
                       outcome, returned>>
        /\ \/ UNCHANGED pc
           \/ /\ pc \notin ConnectPhases \cup Idle
              /\ pc' \notin ConnectPhases \cup Idle
    BY <1>9
    DEF Send, NextSend, Recv, ParseHeader, ParseEntryHeader, ParseLargeHeader,
        AppendEntry, LoopHead, ConnectPhases, SendPhases, Idle
  <2>2. UNCHANGED InSession /\ (pc' \in Idle <=> pc \in Idle)
    BY <2>1 DEF InSession
  <2>. QED
    BY <2>1, <2>2, SessionStutters
<1>10. CASE ReturnVersion
  <2>1. /\ pc = "query" /\ pc' = "idle" /\ op = "query"
        /\ outcome' = [outcome EXCEPT ![calls] = "version"]
        /\ UNCHANGED <<m_iSock, m_sRserve_version, op, calls, runs, answer, returned>>
    BY <1>10 DEF ReturnVersion, End, CallInv
  <2>2. InSession /\ InSession' /\ m_iSock # NoSocket
    BY <1>0, <2>1 DEF InSession, SockInv, ConnectPhases, Idle
  <2>3. pc \notin Idle /\ pc' \in Idle
    BY <2>1 DEF Idle
  <2>4. Session!ReturnVersion
    BY <2>1, <2>2, <2>3, SameNames DEF Session!ReturnVersion
  <2>. QED
    BY <2>4 DEF Session!Next
<1>11. CASE ReturnPacket
  <2> DEFINE a == answer[calls]
  <2>1. /\ pc = "return" /\ pc' = "idle" /\ op = "submit"
        /\ outcome' = [outcome EXCEPT ![calls] = "packet"]
        /\ returned' = [returned EXCEPT ![calls] =
              [from |-> from, cmd |-> responseCmd, entries |-> entrylist]]
        /\ UNCHANGED <<m_iSock, m_sRserve_version, op, calls, runs, answer>>
    BY <1>11 DEF ReturnPacket, End, CallInv
  <2>2. InSession /\ InSession' /\ pc \notin Idle /\ pc' \in Idle
    BY <1>0, <2>1 DEF InSession, SockInv, ConnectPhases, Idle
  <2>3. /\ from = calls /\ runs[calls] = 1
        /\ responseCmd = a.cmd
        /\ Len(entrylist) = Len(a.entries)
        /\ \A j \in 1..Len(entrylist) : entrylist[j] = a.entries[j]
    BY <1>0, <2>1 DEF ParseInv
  <2>4. entrylist \in Seq(Entries) /\ a.entries \in Seq(Entries)
    BY <1>0, <1>1, <2>2, AnswerType DEF TypeOK, IsPacket
  <2>5. entrylist = a.entries
    BY <2>3, <2>4, SeqEqual
  <2>6. [from |-> from, cmd |-> responseCmd, entries |-> entrylist]
          = Content(calls, a)
    BY <2>3, <2>5 DEF Content
  <2>7. returned' = [returned EXCEPT ![calls] = Content(calls, a)]
    BY <2>1, <2>6
  <2>8. Session!ReturnPacket
    BY <2>1, <2>2, <2>3, <2>7, SameNames DEF Session!ReturnPacket
  <2>. QED
    BY <2>8 DEF Session!Next
\* The server executes the request of the call in progress.
<1>12. ASSUME NEW c \in Calls, NEW r \in Responses, Executes(c, r), runs[c] = 0,
              UNCHANGED <<m_iSock, m_sRserve_version, pc, op, calls, outcome, returned>>,
              \/ c = calls /\ pc \in SendPhases \cup {"recvHeader"}
              \/ outcome[c] = "NetworkError"
       PROVE  Session!Next
  <2>1. runs' = [runs EXCEPT ![c] = 1] /\ answer' = [answer EXCEPT ![c] = r]
    BY <1>0, <1>12 DEF Executes, TypeOK
  <2>2. UNCHANGED InSession /\ (pc' \in Idle <=> pc \in Idle)
    BY <1>12 DEF InSession
  <2>3. CASE c = calls /\ pc \in SendPhases \cup {"recvHeader"}
    <3>1. InSession /\ pc \notin Idle /\ op = "submit" /\ m_iSock # NoSocket
      BY <1>0, <2>3
      DEF InSession, SockInv, CallInv, ConnectPhases, SendPhases, RecvPhases, Idle
    <3>2. Session!Execute(r)
      BY <1>12, <2>1, <2>2, <2>3, <3>1, SameNames DEF Session!Execute
    <3>. QED
      BY <3>2 DEF Session!Next
  <2>4. CASE outcome[c] = "NetworkError"
    <3>1. Session!ExecuteLate(c, r)
      BY <1>12, <2>1, <2>2, <2>4 DEF Session!ExecuteLate
    <3>. QED
      BY <3>1, SameNames DEF Session!Next
  <2>. QED
    BY <1>12, <2>3, <2>4
<1>13. ASSUME NEW r \in Responses, ServerAnswers(r) PROVE Session!Next
  <2>1. /\ link = "up" /\ toServer.framed /\ toServer.got > 0
        /\ Executes(toServer.req, r)
        /\ UNCHANGED <<m_iSock, m_sRserve_version, pc, op, calls, outcome, returned>>
    BY <1>0, <1>13, NextAnswered DEF ServerAnswers, Answers, Complete, StreamInv
  <2>2. toServer # NoRequest
    BY <2>1 DEF NoRequest
  <2>3. pc \in SendPhases \cup {"recvHeader"} /\ toServer.req = calls
    BY <1>0, <1>1, <2>1, <2>2
    DEF StreamInv, Waiting, Answered, Phases, ConnectPhases, SendPhases,
        RecvPhases, EntryPhases
  <2>4. calls \in Calls /\ calls # Nobody
    BY <1>1, <2>3 DEF SendPhases, Idle, Calls, Nobody
  <2>5. runs[calls] = 0
    BY <1>0, <2>3, <2>4 DEF OnceInv
  <2>. QED
    BY <1>12, <2>1, <2>3, <2>4, <2>5
<1>14. ASSUME NEW r \in Responses, ServerMisreads(r) PROVE Session!Next
  <2>1. toServer # NoRequest /\ ~toServer.framed /\ link = "up"
    BY <1>14 DEF ServerMisreads, NoRequest
  <2>. QED
    BY <1>0, <1>1, <2>1
    DEF StreamInv, Waiting, Answered, Phases, ConnectPhases, SendPhases,
        RecvPhases, EntryPhases
\* It executes the request of a call that has thrown, or is about to.
<1>15. ASSUME NEW c \in stranded, NEW r \in Responses, StrandedExecutes(c, r)
       PROVE  Session!Next
  <2>1. /\ Executes(c, r)
        /\ UNCHANGED <<m_iSock, m_sRserve_version, pc, op, calls, outcome, returned>>
    BY <1>15 DEF StrandedExecutes
  <2>2. c \in Calls /\ runs[c] = 0
    BY <1>0 DEF OnceInv, TypeOK
  <2>3. \/ c = calls /\ pc \in SendPhases \cup {"recvHeader"}
        \/ outcome[c] = "NetworkError"
    BY DEF StrandedInv
  <2>. QED
    BY <1>12, <2>1, <2>2, <2>3
<1>16. CASE ConnectionBreaks \/ UNCHANGED vars
  <2>1. UNCHANGED <<m_iSock, m_sRserve_version, pc, op, calls, runs, answer,
                    outcome, returned>>
    BY <1>16 DEF ConnectionBreaks, vars
  <2>2. UNCHANGED InSession
    BY <2>1 DEF InSession
  <2>. QED
    BY <2>1, <2>2, SessionStutters
<1>. QED
  BY <1>3, <1>4, <1>5, <1>6, <1>7, <1>8, <1>9, <1>10, <1>11, <1>13, <1>14,
     <1>15, <1>16
  DEF Next, Consumer, Client, Server

\* Every behaviour without a failed allocation is, for the caller, one of the
\* abstract sessions: one call at a time, each answered by its own response or
\* ended by an exception that closes the session, nothing executed twice.
THEOREM ImplementsRserveSession ==
    AllocFailsAt = {} => (Spec => ImplementsSession)
<1> SUFFICES ASSUME AllocFailsAt = {} PROVE Spec => ImplementsSession
  OBVIOUS
<1>1. Spec => []SyncInv
  BY StaysSynchronized
<1>2. TypeOK /\ SyncInv /\ [Next]_vars => [Session!Next]_(Session!vars)
  <2>1. ~BadAlloc
    BY DEF BadAlloc, BadAllocConnected, BadAllocDisconnected
  <2>. QED
    BY <2>1, SessionStep DEF SyncInv, Inv
<1>. QED
  BY <1>1, <1>2, SessionInit, TypeCorrect, PTL
  DEF Spec, ImplementsSession, Session!Spec

-----------------------------------------------------------------------------
(* The call in progress. *)

SessionProofs == INSTANCE RserveSessionProofs WITH
    session <- IF InSession THEN m_iSock ELSE NoSocket,
    version <- IF InSession THEN m_sRserve_version ELSE NoVersion,
    busy <- IF pc \in Idle THEN "no" ELSE op

\* The theorems about RserveSession are about a second instance of it: both
\* have the same definitions, so what the one does the other does.
LEMMA SameSession ==
    /\ Session!NoVersion = SessionProofs!NoVersion
    /\ \A id, any : Session!versionMatch(id, any) = SessionProofs!versionMatch(id, any)
    /\ Session!Calls = SessionProofs!Calls
    /\ Session!NoSession = SessionProofs!NoSession
    /\ Session!NoReturn = SessionProofs!NoReturn
    /\ \A c, p : Session!Content(c, p) = SessionProofs!Content(c, p)
BY Zenon
DEF Session!NoVersion, SessionProofs!NoVersion, Session!versionMatch,
    SessionProofs!versionMatch, Session!Calls, SessionProofs!Calls,
    Session!NoSession, SessionProofs!NoSession, Session!NoReturn,
    SessionProofs!NoReturn, Session!Content, SessionProofs!Content

LEMMA SameSteps ==
    /\ Session!Init => SessionProofs!Init
    /\ [Session!Next]_(Session!vars) => [SessionProofs!Next]_(SessionProofs!vars)
<1>1. Session!Init => SessionProofs!Init
  BY SameSession DEF Session!Init, SessionProofs!Init
<1>2. Session!Next => SessionProofs!Next
  BY SameSession
  DEF Session!Next, SessionProofs!Next, Session!Begin, SessionProofs!Begin,
      Session!Open, SessionProofs!Open, Session!Execute, SessionProofs!Execute,
      Session!ExecuteLate, SessionProofs!ExecuteLate,
      Session!ReturnVersion, SessionProofs!ReturnVersion,
      Session!ReturnPacket, SessionProofs!ReturnPacket,
      Session!Throw, SessionProofs!Throw, Session!Close, SessionProofs!Close
<1>3. UNCHANGED Session!vars => UNCHANGED SessionProofs!vars
  BY DEF Session!vars, SessionProofs!vars
<1>. QED
  BY <1>1, <1>2, <1>3

LEMMA SameCall ==
    /\ Session!Call!NoVersion = SessionProofs!Call!NoVersion
    /\ \A id, any : Session!Call!versionMatch(id, any)
                       = SessionProofs!Call!versionMatch(id, any)
    /\ \A p : Session!Bare(p) = SessionProofs!Bare(p)
BY Zenon
DEF Session!Call!NoVersion, SessionProofs!Call!NoVersion,
    Session!Call!versionMatch, SessionProofs!Call!versionMatch,
    Session!Bare, SessionProofs!Bare

LEMMA SameCallSteps ==
    /\ SessionProofs!Call!Init => Session!Call!Init
    /\ [SessionProofs!Call!Next]_(SessionProofs!Call!vars)
         => [Session!Call!Next]_(Session!Call!vars)
<1> USE SameSession, SameCall DEF Session!Running, SessionProofs!Running
<1>1. SessionProofs!Call!Init => Session!Call!Init
  BY DEF Session!Call!Init, SessionProofs!Call!Init
<1>2. ASSUME NEW kind PROVE SessionProofs!Call!Begin(kind) => Session!Call!Begin(kind)
  BY DEF SessionProofs!Call!Begin, Session!Call!Begin
<1>3. ASSUME NEW id PROVE SessionProofs!Call!Open(id) => Session!Call!Open(id)
  BY DEF SessionProofs!Call!Open, Session!Call!Open
<1>4. ASSUME NEW r PROVE SessionProofs!Call!Execute(r) => Session!Call!Execute(r)
  BY DEF SessionProofs!Call!Execute, Session!Call!Execute
<1>5. SessionProofs!Call!Ends <=> Session!Call!Ends
  BY DEF SessionProofs!Call!Ends, Session!Call!Ends
<1>6. SessionProofs!Call!ReturnVersion => Session!Call!ReturnVersion
  BY <1>5 DEF SessionProofs!Call!ReturnVersion, Session!Call!ReturnVersion
<1>7. SessionProofs!Call!ReturnPacket => Session!Call!ReturnPacket
  BY <1>5 DEF SessionProofs!Call!ReturnPacket, Session!Call!ReturnPacket
<1>8. SessionProofs!Call!Throw => Session!Call!Throw
  BY <1>5 DEF SessionProofs!Call!Throw, Session!Call!Throw
<1>9. SessionProofs!Call!Close => Session!Call!Close
  BY DEF SessionProofs!Call!Close, Session!Call!Close
<1>10. SessionProofs!Call!Next => Session!Call!Next
  BY <1>2, <1>3, <1>4, <1>6, <1>7, <1>8, <1>9
  DEF SessionProofs!Call!Next, Session!Call!Next
<1>11. UNCHANGED SessionProofs!Call!vars => UNCHANGED Session!Call!vars
  BY DEF Session!Call!vars, SessionProofs!Call!vars
<1>. QED
  BY <1>1, <1>10, <1>11

\* RClient may take NetworkManager for a RserveCall: whatever is behind it, the
\* call in progress meets one server, once, and returns its answer or throws.
THEOREM ImplementsRserveCall ==
    AllocFailsAt = {} => (Spec => ImplementsCall)
<1> SUFFICES ASSUME AllocFailsAt = {} PROVE Spec => ImplementsCall
  OBVIOUS
<1>1. Spec => Session!Spec
  BY ImplementsRserveSession DEF ImplementsSession
<1>2. Session!Spec => SessionProofs!Spec
  BY SameSteps, PTL DEF Session!Spec, SessionProofs!Spec
<1>3. SessionProofs!Spec => SessionProofs!Call!Spec
  BY MaxCallsAssumption, SessionProofs!SessionImplementsCall
  DEF SessionProofs!ImplementsCall
<1>4. SessionProofs!Call!Spec => ImplementsCall
  BY SameCallSteps, PTL
  DEF SessionProofs!Call!Spec, Session!Call!Spec, ImplementsCall,
      Session!ImplementsCall
<1>. QED
  BY <1>1, <1>2, <1>3, <1>4
=============================================================================
