--------------------------- MODULE NetworkManager ---------------------------
(***************************************************************************)
(* NetworkManager: the socket to an Rserve, the loops that send a request  *)
(* and receive its response, and what happens to both when a system call   *)
(* fails, the peer goes away or memory runs out.  The program is one       *)
(* thread: pc names the place in connect_to_rserve or submit where it is   *)
(* blocked or about to move on.  The server and the network act between    *)
(* any two of its steps.                                                   *)
(*                                                                         *)
(* Byte streams are counted, not spelled out.  toServer counts the bytes   *)
(* the server holds of the request that arrives; backlog are the complete  *)
(* ones before it, answered in their order; toClient is a sequence of      *)
(* frames (the identification, or the response to a call) of which a first *)
(* part has been read.  The client cannot see where a frame begins: it     *)
(* interprets whatever comes next.  from says whose response the bytes of  *)
(* the current receive really are, Nobody when they are not the ones that  *)
(* the place in the loop stands for; then what they seem to say is         *)
(* arbitrary.                                                              *)
(*                                                                         *)
(* A system call interrupted by a signal (EINTR) is repeated with the same *)
(* arguments: in the model it is a stuttering step.                        *)
(***************************************************************************)
EXTENDS RPacket, RserveID, Integers

CONSTANTS
    MaxCalls,       \* bound on the calls of one behaviour
    Requests,       \* the packets the consumer may submit
    Responses,      \* the packets the server may answer with
    ServerIDs,      \* the identification strings servers may send
    AnyVersion,     \* m_bAnyVersion
    IDLength,       \* RserveIDLength, in units
    AllocFailsAt    \* places where operator new may throw (see AllocSite)

ASSUME MaxCallsAssumption == MaxCalls \in Nat
ASSUME RequestsAssumption == \A p \in Requests : IsRequest(p)
ASSUME ResponsesAssumption == \A p \in Responses : IsResponse(p)
ASSUME IDLengthAssumption == IDLength \in Nat \ {0}
ASSUME AnyVersionAssumption == AnyVersion \in BOOLEAN

Calls == 1..MaxCalls

\* A socket is named by the call that obtained it: no call obtains two.
NoSocket == -1
Nobody == 0

VARIABLES
    m_iSock,             \* the socket, or NoSocket
    m_sRserve_version,   \* the identification read last
    pc,                  \* where the program is
    op,                  \* the call in progress: "query" or "submit"
    packet,              \* the request being submitted
    sent,                \* entries of packet sent, the current one included
    i,                   \* units moved by the current send or receive loop
    bytesRead,           \* units of the response read after its header
    responseLength,      \* units the response's header announced
    responseCmd,         \* its command word
    entry,               \* the header of the entry being received
    entrylist            \* the entries received

VARIABLES
    link,                \* what became of the connection behind m_iSock
    serverID,            \* the identification its server sent
    toServer,            \* the request that arrives at its server
    backlog,             \* the calls whose complete requests wait before it
    toClient,            \* the frames not yet read by the client
    stranded             \* requests complete on connections that are gone

VARIABLES
    from,                \* whose response is being read (see above)
    calls,               \* number of calls made
    runs,                \* how many times each request was executed
    answer,              \* the response the server produced for each request
    outcome,             \* how each call ended
    returned             \* the packet each call returned

objectVars == <<m_iSock, m_sRserve_version>>
sendVars == <<packet, sent>>
recvVars == <<bytesRead, responseLength, responseCmd, entry, entrylist>>
netVars == <<link, serverID, toServer, backlog, toClient, stranded>>
serverVars == <<runs, answer>>
callerVars == <<calls, op, outcome, returned>>

vars == <<objectVars, pc, sendVars, i, recvVars, netVars, from, serverVars,
          callerVars>>

-----------------------------------------------------------------------------
(* Places, and what the loop at each of them is after. *)

ConnectPhases == {"socket", "getaddrinfo", "findConnection", "recvID"}
SendPhases == {"sendHeader", "sendEntry"}
RecvPhases == {"recvID", "recvHeader", "recvEntryHeader", "recvLargeHeader",
               "recvData"}
EntryPhases == {"recvEntryHeader", "recvLargeHeader", "recvData"}
Idle == {"idle", "destroyed"}
Phases == ConnectPhases \cup SendPhases \cup RecvPhases \cup Idle
            \cup {"query", "return"}

\* The len argument of send_to_rserve and of recv_from_rserve.
SendLen ==
    IF pc = "sendHeader" THEN HeaderLen ELSE getLength(packet.entries[sent])

RecvLen ==
    CASE pc = "recvID" -> IDLength
      [] pc = "recvHeader" -> HeaderLen
      [] pc = "recvData" -> entry.len
      [] OTHER -> WordLen

\* Units of the identification or of the response that the client believes
\* it has read before the next one.
Position ==
    IF pc \in {"recvID", "recvHeader"} THEN i ELSE HeaderLen + bytesRead + i

NoRequest == [req |-> Nobody, got |-> 0, need |-> 0, framed |-> TRUE]

NoEntry == [large |-> FALSE, len |-> 0]

Frame(c, size) == [from |-> c, size |-> size, off |-> 0]

\* The server has all of the request, and no byte of another in it.
Complete ==
    toServer.framed /\ toServer.got > 0 /\ toServer.got = toServer.need

\* A request that is complete may be executed by a server that does not know
\* its client is gone.
Stranding ==
    {backlog[k] : k \in DOMAIN backlog}
      \cup (IF Complete THEN {toServer.req} ELSE {})

Content(c, p) == [from |-> c, cmd |-> p.cmd, entries |-> p.entries]

NoReturn == [from |-> 0, cmd |-> "none", entries |-> <<>>]

-----------------------------------------------------------------------------
Init ==
    /\ m_iSock = NoSocket
    /\ m_sRserve_version = NoVersion
    /\ pc = "idle"
    /\ op = "query"
    /\ packet = NoPacket
    /\ sent = 0
    /\ i = 0
    /\ bytesRead = 0
    /\ responseLength = 0
    /\ responseCmd = "none"
    /\ entry = NoEntry
    /\ entrylist = <<>>
    /\ link = "none"
    /\ serverID = NoVersion
    /\ toServer = NoRequest
    /\ backlog = <<>>
    /\ toClient = <<>>
    /\ stranded = {}
    /\ from = Nobody
    /\ calls = 0
    /\ runs = [c \in Calls |-> 0]
    /\ answer = [c \in Calls |-> NoPacket]
    /\ outcome = [c \in Calls |-> "none"]
    /\ returned = [c \in Calls |-> NoReturn]

-----------------------------------------------------------------------------
(* The consumer. *)

\* Every operation starts by connecting when there is no socket.
Begin(kind, place) ==
    /\ pc = "idle"
    /\ calls < MaxCalls
    /\ calls' = calls + 1
    /\ op' = kind
    /\ pc' = IF m_iSock = NoSocket THEN "socket" ELSE place
    /\ i' = 0
    /\ sent' = 0
    /\ UNCHANGED <<objectVars, recvVars, netVars, from, serverVars, outcome,
                   returned>>

\* getVersion, isAuthorizationRequired, hasAuthorizationType, getKey
Query == Begin("query", "query") /\ UNCHANGED packet

submit(p) == Begin("submit", "sendHeader") /\ packet' = p

-----------------------------------------------------------------------------
(* What goes wrong in a call: the conditions under which the code calls    *)
(* throw_network_error.                                                    *)

\* socket(), getaddrinfo() or every connect() fails.
ConnectFailing == pc \in {"socket", "getaddrinfo", "findConnection"}

Rejecting ==
    pc = "recvID" /\ i = RecvLen /\ ~versionMatch(serverID, AnyVersion)

SendFailing ==
    pc \in SendPhases /\ i < SendLen /\ link \in {"fin", "rst", "fresh"}

RecvFailing ==
    /\ pc \in RecvPhases
    /\ i < RecvLen
    /\ \/ link \in {"rst", "fresh"}
       \/ link = "fin" /\ toClient = <<>>

ErrorHere == ConnectFailing \/ Rejecting \/ SendFailing \/ RecvFailing

-----------------------------------------------------------------------------
(* Ways a call ends. *)

\* A mutant: the descriptor is cleared to 0, which names another open file.
disconnectToZero ==
    /\ m_iSock' = 0
    /\ link' = "none"
    /\ toServer' = NoRequest
    /\ backlog' = <<>>
    /\ toClient' = <<>>
    /\ stranded' = stranded \cup Stranding
    /\ UNCHANGED serverID

disconnect ==
    /\ m_iSock' = NoSocket
    /\ link' = "none"
    /\ toServer' = NoRequest
    /\ backlog' = <<>>
    /\ toClient' = <<>>
    /\ stranded' = stranded \cup Stranding
    /\ UNCHANGED serverID

End(result) ==
    /\ pc' = "idle"
    /\ outcome' = [outcome EXCEPT ![calls] = result]
    /\ UNCHANGED <<calls, op, serverVars>>

\* A mutant: the exception leaves the socket open.
throwStaysConnected ==
    /\ End("NetworkError")
    /\ UNCHANGED <<m_iSock, sendVars, i, recvVars, netVars, from, returned>>

throw_network_error ==
    /\ disconnect
    /\ End("NetworkError")
    /\ UNCHANGED <<sendVars, i, recvVars, from, returned>>

ReturnVersion ==
    /\ pc = "query"
    /\ End("version")
    /\ UNCHANGED <<objectVars, sendVars, i, recvVars, netVars, from, returned>>

ReturnPacket ==
    /\ pc = "return"
    /\ End("packet")
    /\ returned' = [returned EXCEPT ![calls] =
          [from |-> from, cmd |-> responseCmd, entries |-> entrylist]]
    /\ UNCHANGED <<objectVars, sendVars, i, recvVars, netVars, from>>

\* Where operator new may throw with the socket as it was: buffers, copies of
\* entries, the strings returned and those that describe what is sent or
\* received, and, where something has gone wrong, the description that is made
\* before throw_network_error is entered.
AllocSite ==
    \/ pc \in {"getaddrinfo", "findConnection", "query", "return"}
    \/ pc \in SendPhases /\ i = 0
    \/ pc \in RecvPhases /\ i \in {0, RecvLen}
    \/ ErrorHere

\* Once the identification is read the version may have been stored already.
BadAllocConnected ==
    /\ pc \in AllocFailsAt
    /\ AllocSite
    /\ End("bad_alloc")
    /\ \/ UNCHANGED m_sRserve_version
       \/ pc = "recvID" /\ i = RecvLen /\ m_sRserve_version' = serverID
    /\ UNCHANGED <<m_iSock, sendVars, i, recvVars, netVars, from, returned>>

\* throw_network_error has disconnected, and the NetworkError cannot be made.
BadAllocDisconnected ==
    /\ pc \in AllocFailsAt
    /\ ErrorHere
    /\ disconnect
    /\ End("bad_alloc")
    /\ m_sRserve_version' = IF Rejecting THEN serverID ELSE m_sRserve_version
    /\ UNCHANGED <<sendVars, i, recvVars, from, returned>>

BadAlloc == BadAllocConnected \/ BadAllocDisconnected

-----------------------------------------------------------------------------
(* connect_to_rserve *)

GetSocket ==
    /\ pc = "socket"
    /\ m_iSock' = calls
    /\ link' = "fresh"
    /\ pc' = "getaddrinfo"
    /\ UNCHANGED <<m_sRserve_version, sendVars, i, recvVars, serverID,
                   toServer, backlog, toClient, stranded, from, serverVars,
                   callerVars>>

ResolveHost ==
    /\ pc = "getaddrinfo"
    /\ pc' = "findConnection"
    /\ UNCHANGED <<objectVars, sendVars, i, recvVars, netVars, from,
                   serverVars, callerVars>>

\* One of the addresses accepts; the server sends its identification at once.
findConnection(id) ==
    /\ pc = "findConnection"
    /\ link' = "up"
    /\ serverID' = id
    /\ toClient' = <<Frame(Nobody, IDLength)>>
    /\ pc' = "recvID"
    /\ i' = 0
    /\ UNCHANGED <<objectVars, sendVars, recvVars, toServer, backlog,
                   stranded, from, serverVars, callerVars>>

ConnectFails ==
    /\ ConnectFailing
    /\ throw_network_error
    /\ UNCHANGED m_sRserve_version

\* A mutant: the version of the first connection is kept.
AcceptFirstVersion ==
    /\ pc = "recvID"
    /\ i = RecvLen
    /\ versionMatch(serverID, AnyVersion)
    /\ m_sRserve_version' =
         IF m_sRserve_version = NoVersion THEN serverID ELSE m_sRserve_version
    /\ pc' = IF op = "query" THEN "query" ELSE "sendHeader"
    /\ i' = 0
    /\ UNCHANGED <<m_iSock, sendVars, recvVars, netVars, from, serverVars,
                   callerVars>>

\* The version is stored first and compared afterwards.
AcceptVersion ==
    /\ pc = "recvID"
    /\ i = RecvLen
    /\ versionMatch(serverID, AnyVersion)
    /\ m_sRserve_version' = serverID
    /\ pc' = IF op = "query" THEN "query" ELSE "sendHeader"
    /\ i' = 0
    /\ UNCHANGED <<m_iSock, sendVars, recvVars, netVars, from, serverVars,
                   callerVars>>

\* A mutant: the exception is thrown without throw_network_error.
RejectStaysConnected ==
    /\ Rejecting
    /\ m_sRserve_version' = serverID
    /\ throwStaysConnected

RejectVersion ==
    /\ Rejecting
    /\ m_sRserve_version' = serverID
    /\ throw_network_error

-----------------------------------------------------------------------------
(* submit: send_to_rserve *)

\* The first bytes of a header begin a request when the server waits for one,
\* or stand behind a complete one that it has not answered yet.  Anything else
\* is taken as more of the request that arrives.
Begins == pc = "sendHeader" /\ i = 0 /\ (toServer.got = 0 \/ Complete)

Receives(n) ==
    /\ toServer' =
         IF Begins
           THEN [req |-> calls, got |-> n, need |-> WireLength(packet),
                 framed |-> TRUE]
           ELSE [toServer EXCEPT !.got = @ + n,
                                 !.framed = @ /\ toServer.req = calls]
    /\ backlog' = IF Begins /\ Complete THEN Append(backlog, toServer.req)
                  ELSE backlog

\* One call of send() takes n units.  Once the peer has closed, what the
\* kernel still takes is lost.
Send(n) ==
    /\ pc \in SendPhases
    /\ n <= SendLen - i
    /\ \/ link = "up" /\ Receives(n)
       \/ link = "fin" /\ UNCHANGED <<toServer, backlog>>
    /\ i' = i + n
    /\ UNCHANGED <<objectVars, pc, sendVars, recvVars, link, serverID,
                   toClient, stranded, from, serverVars, callerVars>>

SendFails ==
    /\ SendFailing
    /\ throw_network_error
    /\ UNCHANGED m_sRserve_version

\* The loop over the packet's entries.
NextSend ==
    /\ pc \in SendPhases
    /\ i = SendLen
    /\ \/ /\ sent < Len(packet.entries)
          /\ sent' = sent + 1
          /\ pc' = "sendEntry"
       \/ /\ sent = Len(packet.entries)
          /\ sent' = sent
          /\ pc' = "recvHeader"
    /\ i' = 0
    /\ UNCHANGED <<objectVars, packet, recvVars, netVars, from, serverVars,
                   callerVars>>

-----------------------------------------------------------------------------
(* submit: recv_from_rserve and the parsing of the response *)

\* One call of recv() returns n units of the frame at the head.
Recv(n) ==
    /\ pc \in RecvPhases
    /\ n <= RecvLen - i
    /\ link \in {"up", "fin"}
    /\ toClient # <<>>
    /\ LET f == Head(toClient) IN
         /\ n <= f.size - f.off
         /\ i' = i + n
         /\ from' = IF f.off = Position /\ (Position = 0 \/ from = f.from)
                      THEN f.from ELSE Nobody
         /\ toClient' = IF f.off + n = f.size
                          THEN Tail(toClient)
                          ELSE <<[f EXCEPT !.off = @ + n]>> \o Tail(toClient)
    /\ UNCHANGED <<objectVars, pc, sendVars, recvVars, link, serverID,
                   toServer, backlog, stranded, serverVars, callerVars>>

\* A mutant: the request is repeated on a new connection.
RecvFailsRetries ==
    /\ RecvFailing
    /\ disconnect
    /\ pc' = "socket"
    /\ sent' = 0
    /\ i' = 0
    /\ UNCHANGED <<m_sRserve_version, packet, recvVars, from, serverVars,
                   callerVars>>

RecvFails ==
    /\ RecvFailing
    /\ throw_network_error
    /\ UNCHANGED m_sRserve_version

\* Mutants: one entry header too many, and a last empty entry left unread.
LoopHeadOnceMore(read, length) ==
    IF read <= length THEN "recvEntryHeader" ELSE "return"

LoopHeadStopsShort(read, length) ==
    IF read + WordLen < length THEN "recvEntryHeader" ELSE "return"

\* while (bytesRead < responseLength)
LoopHead(read, length) == IF read < length THEN "recvEntryHeader" ELSE "return"

HeadersHere == IF from # Nobody THEN {answer[from]} ELSE Responses

\* A mutant: the entries of the previous response are not cleared.
ParseHeaderKeepsEntries ==
    /\ pc = "recvHeader"
    /\ i = RecvLen
    /\ \E p \in HeadersHere :
         /\ responseLength' = PacketLength(p)
         /\ responseCmd' = p.cmd
         /\ pc' = LoopHead(0, PacketLength(p))
    /\ bytesRead' = 0
    /\ i' = 0
    /\ UNCHANGED <<objectVars, sendVars, entry, entrylist, netVars, from,
                   serverVars, callerVars>>

ParseHeader ==
    /\ pc = "recvHeader"
    /\ i = RecvLen
    /\ \E p \in HeadersHere :
         /\ responseLength' = PacketLength(p)
         /\ responseCmd' = p.cmd
         /\ pc' = LoopHead(0, PacketLength(p))
    /\ bytesRead' = 0
    /\ entrylist' = <<>>
    /\ i' = 0
    /\ UNCHANGED <<objectVars, sendVars, entry, netVars, from, serverVars,
                   callerVars>>

\* The entry header that the word just received holds, or seems to hold.
EntriesHere ==
    LET k == Len(entrylist) + 1
    IN  IF from # Nobody /\ k \in DOMAIN answer[from].entries
          THEN {answer[from].entries[k]}
          ELSE UNION {{p.entries[j] : j \in DOMAIN p.entries} : p \in Responses}

ParseEntryHeader ==
    /\ pc = "recvEntryHeader"
    /\ i = RecvLen
    /\ \E e \in EntriesHere :
         /\ entry' = e
         /\ pc' = IF e.large THEN "recvLargeHeader" ELSE "recvData"
    /\ bytesRead' = bytesRead + i
    /\ i' = 0
    /\ UNCHANGED <<objectVars, sendVars, responseLength, responseCmd, entrylist,
                   netVars, from, serverVars, callerVars>>

\* A mutant: the second word of the header is not counted.
ParseLargeHeaderUncounted ==
    /\ pc = "recvLargeHeader"
    /\ i = RecvLen
    /\ pc' = "recvData"
    /\ i' = 0
    /\ UNCHANGED <<objectVars, sendVars, bytesRead, responseLength, responseCmd,
                   entry, entrylist, netVars, from, serverVars, callerVars>>

ParseLargeHeader ==
    /\ pc = "recvLargeHeader"
    /\ i = RecvLen
    /\ pc' = "recvData"
    /\ bytesRead' = bytesRead + i
    /\ i' = 0
    /\ UNCHANGED <<objectVars, sendVars, responseLength, responseCmd, entry,
                   entrylist, netVars, from, serverVars, callerVars>>

AppendEntry ==
    /\ pc = "recvData"
    /\ i = RecvLen
    /\ entrylist' = Append(entrylist, entry)
    /\ bytesRead' = bytesRead + i
    /\ pc' = LoopHead(bytesRead + i, responseLength)
    /\ i' = 0
    /\ UNCHANGED <<objectVars, sendVars, responseLength, responseCmd, entry,
                   netVars, from, serverVars, callerVars>>

\* The destructor.
Destroy ==
    /\ pc = "idle"
    /\ disconnect
    /\ pc' = "destroyed"
    /\ UNCHANGED <<m_sRserve_version, sendVars, i, recvVars, from, serverVars,
                   callerVars>>

-----------------------------------------------------------------------------
(* The server and the network: not in the repository. *)

Executes(c, r) ==
    /\ runs' = [runs EXCEPT ![c] = @ + 1]
    /\ answer' = [answer EXCEPT ![c] = r]

Answers(c, r) ==
    /\ Executes(c, r)
    /\ toClient' = Append(toClient, Frame(c, WireLength(r)))

\* The oldest complete request is answered first.
ServerAnswers(r) ==
    /\ link = "up"
    /\ \/ /\ backlog # <<>>
          /\ Answers(Head(backlog), r)
          /\ backlog' = Tail(backlog)
          /\ UNCHANGED toServer
       \/ /\ backlog = <<>>
          /\ Complete
          /\ Answers(toServer.req, r)
          /\ toServer' = NoRequest
          /\ UNCHANGED backlog
    /\ UNCHANGED <<objectVars, pc, sendVars, i, recvVars, link, serverID,
                   stranded, from, callerVars>>

\* Bytes of two requests: the server takes them for something and answers it.
ServerMisreads(r) ==
    /\ link = "up"
    /\ backlog = <<>>
    /\ ~toServer.framed
    /\ toServer.got >= HeaderLen
    /\ toClient' = Append(toClient, Frame(Nobody, WireLength(r)))
    /\ toServer' = NoRequest
    /\ UNCHANGED <<objectVars, pc, sendVars, i, recvVars, link, serverID,
                   backlog, stranded, from, serverVars, callerVars>>

StrandedExecutes(c, r) ==
    /\ c \in stranded
    /\ Executes(c, r)
    /\ stranded' = stranded \ {c}
    /\ UNCHANGED <<objectVars, pc, sendVars, i, recvVars, link, serverID,
                   toServer, backlog, toClient, from, callerVars>>

\* The peer closes (what it sent can still be read) or the connection is
\* reset (it cannot).  The client notices at its next system call.
ConnectionBreaks ==
    /\ link = "up"
    /\ \/ link' = "fin" /\ UNCHANGED toClient
       \/ link' = "rst" /\ toClient' = <<>>
    /\ toServer' = NoRequest
    /\ backlog' = <<>>
    /\ stranded' = stranded \cup Stranding
    /\ UNCHANGED <<objectVars, pc, sendVars, i, recvVars, serverID, from,
                   serverVars, callerVars>>

-----------------------------------------------------------------------------
Consumer == Query \/ (\E p \in Requests : submit(p)) \/ Destroy

Client ==
    \/ GetSocket
    \/ ResolveHost
    \/ \E id \in ServerIDs : findConnection(id)
    \/ ConnectFails
    \/ AcceptVersion
    \/ RejectVersion
    \/ pc \in SendPhases /\ \E n \in 1..SendLen : Send(n)
    \/ SendFails
    \/ NextSend
    \/ \E n \in 1..RecvLen : Recv(n)
    \/ RecvFails
    \/ ParseHeader
    \/ ParseEntryHeader
    \/ ParseLargeHeader
    \/ AppendEntry
    \/ ReturnVersion
    \/ ReturnPacket

Server ==
    \/ \E r \in Responses : ServerAnswers(r)
    \/ \E r \in Responses : ServerMisreads(r)
    \/ \E c \in stranded, r \in Responses : StrandedExecutes(c, r)

Next == Consumer \/ Client \/ BadAlloc \/ Server \/ ConnectionBreaks

Spec == Init /\ [][Next]_vars

\* The program runs whenever it is not blocked, and an Rserve that holds a
\* complete request finishes it (or the connection breaks).  Nothing obliges
\* the consumer to call, an allocation to fail (which would end a call that
\* waits), the network to break or the server to run a request whose client is
\* gone.
Fairness ==
    /\ WF_vars(Client)
    /\ WF_vars(\E r \in Responses : ServerAnswers(r))

FairSpec == Spec /\ Fairness

-----------------------------------------------------------------------------
(* Properties. *)

TypeOK ==
    /\ m_iSock \in Calls \cup {NoSocket}
    /\ m_sRserve_version \in ServerIDs \cup {NoVersion}
    /\ pc \in Phases
    /\ op \in {"query", "submit"}
    /\ packet \in Requests \cup {NoPacket}
    /\ sent \in Nat
    /\ i \in Nat
    /\ bytesRead \in Nat
    /\ responseLength \in Nat
    /\ entry \in Entries
    /\ entrylist \in Seq(Entries)
    /\ link \in {"none", "fresh", "up", "fin", "rst"}
    /\ serverID \in ServerIDs \cup {NoVersion}
    /\ toServer \in [req : Calls \cup {Nobody}, got : Nat, need : Nat,
                     framed : BOOLEAN]
    /\ backlog \in Seq(Calls)
    /\ toClient \in Seq([from : Calls \cup {Nobody}, size : Nat, off : Nat])
    /\ stranded \in SUBSET Calls
    /\ from \in Calls \cup {Nobody}
    /\ calls \in 0..MaxCalls
    /\ runs \in [Calls -> Nat]
    /\ answer \in [Calls -> Responses \cup {NoPacket}]
    /\ outcome \in [Calls -> {"none", "version", "packet", "NetworkError",
                              "bad_alloc"}]

\* A packet that submit returns is, header and every entry, the response the
\* server produced for the request of that same call: not the rest of an
\* earlier one, nor one put together from two (submit, lines 359 to 422).
OwnResponse ==
    \A c \in Calls : outcome[c] = "packet" =>
        runs[c] > 0 /\ returned[c] = Content(c, answer[c])

\* No request is executed twice: a failure is reported, never retried, even
\* when the request reached the server before the connection failed.
AtMostOnce == \A c \in Calls : runs[c] <= 1

\* The server never assembles a request out of the bytes of two calls.
WholeRequests == toServer.framed

\* Between calls a session in which no allocation failed owes nothing in
\* either direction, so the next response begins at the next byte.
InStep ==
    (/\ pc = "idle"
     /\ m_iSock # NoSocket
     /\ \A c \in m_iSock..calls : outcome[c] # "bad_alloc")
    => toServer = NoRequest /\ backlog = <<>> /\ toClient = <<>>

\* Whenever a call uses an established connection, m_sRserve_version is what
\* the server of that very connection sent, and it was accepted: never that of
\* an earlier connection, although the string outlives the socket.
VersionCurrent ==
    m_iSock # NoSocket /\ pc \notin ConnectPhases =>
        m_sRserve_version = serverID /\ versionMatch(serverID, AnyVersion)

\* README.md line 61: after a network error the connection is closed, so the
\* next call finds no socket and connects anew.
ErrorEndsSession ==
    pc = "idle" /\ calls > 0 =>
        (outcome[calls] = "NetworkError" => m_iSock = NoSocket /\ link = "none")

\* An exception of operator new leaves the connection as it was, in the middle
\* of a request or of a response.  The damage lasts until a call fails on it.
RepairedBefore(c) ==
    \A d \in Calls : d < c /\ outcome[d] = "bad_alloc" =>
        \E e \in Calls : d < e /\ e < c /\ outcome[e] = "NetworkError"

\* OwnResponse when allocations fail: once a NetworkError has closed the
\* connection that was left in the middle, responses are whole again.
OwnResponseOnceRepaired ==
    \A c \in Calls : outcome[c] = "packet" /\ RepairedBefore(c) =>
        runs[c] > 0 /\ returned[c] = Content(c, answer[c])

\* Nor does anything else of the broken connection reach the next one: its
\* identification, bytes of its requests or of its responses.
RepairedInStep ==
    RepairedBefore(calls + 1) =>
        /\ toServer.framed
        /\ pc = "idle" =>
             toServer = NoRequest /\ backlog = <<>> /\ toClient = <<>>
        /\ m_iSock # NoSocket /\ pc \notin ConnectPhases =>
             m_sRserve_version = serverID /\ versionMatch(serverID, AnyVersion)

\* Every call comes back, with a result or an exception, unless an earlier
\* exception left its connection in the middle: then the client may wait for
\* bytes that were already read, or the server for bytes never sent.
CallReturns == pc \notin Idle /\ RepairedBefore(calls) ~> pc = "idle"

\* What a call still has before it, the most important part first: stages,
\* what the loop of its stage has left, words of the entry being read, units.
StagesAhead ==
    CASE pc = "socket" -> 7
      [] pc = "getaddrinfo" -> 6
      [] pc = "findConnection" -> 5
      [] pc = "recvID" -> 4
      [] pc \in SendPhases -> 3
      [] pc = "recvHeader" -> 2
      [] pc \in EntryPhases -> 1
      [] OTHER -> 0

LoopAhead ==
    CASE pc \in SendPhases -> Len(packet.entries) - sent
      [] pc \in EntryPhases /\ bytesRead < responseLength ->
           responseLength - bytesRead
      [] OTHER -> 0

WordsAhead ==
    CASE pc = "recvLargeHeader" -> 2 [] pc = "recvData" -> 1 [] OTHER -> 0

UnitsAhead ==
    CASE pc \in SendPhases -> SendLen - i
      [] pc \in RecvPhases -> RecvLen - i
      [] OTHER -> 0

Ahead == <<StagesAhead, LoopAhead, WordsAhead, UnitsAhead>>

Closer ==
    \E k \in DOMAIN Ahead :
        /\ 0 <= Ahead'[k] /\ Ahead'[k] < Ahead[k]
        /\ \A j \in 1..k - 1 : Ahead'[j] = Ahead[j]

\* A call can be kept waiting but never kept busy: each of its steps brings it
\* closer to its end, whatever lengths the bytes announce, also those read out
\* of step after a bad_alloc, and nobody else takes it back.  No loop of
\* submit or of connect_to_rserve goes around for nothing.
Advances ==
    [][pc \notin Idle =>
         pc' = "idle" \/ Closer \/ (~Client /\ UNCHANGED Ahead)]_vars

\* The session that the caller sees: the connection once its version has been
\* accepted.  NetworkManager implements RserveSession.
InSession == m_iSock # NoSocket /\ pc \notin ConnectPhases

Session == INSTANCE RserveSession WITH
    session <- IF InSession THEN m_iSock ELSE NoSocket,
    version <- IF InSession THEN m_sRserve_version ELSE NoVersion,
    busy <- IF pc \in Idle THEN "no" ELSE op

ImplementsSession == Session!Spec

\* RClient relies on the view of a session without its history: RserveCall.
ImplementsCall == Session!ImplementsCall

-----------------------------------------------------------------------------
(* The inductive invariant behind the safety properties. *)

SockInv ==
    /\ pc \notin Idle => calls \in Calls
    /\ m_iSock # NoSocket => m_iSock <= calls
    /\ m_iSock = NoSocket <=> link = "none"
    /\ pc \in {"socket", "destroyed"} => m_iSock = NoSocket
    /\ pc \notin Idle \cup {"socket"} => m_iSock # NoSocket
    /\ pc \in ConnectPhases \ {"socket"} => m_iSock = calls
    /\ link # "up" => toServer = NoRequest /\ backlog = <<>>
    /\ link \notin {"up", "fin"} => toClient = <<>>

\* Why nothing runs twice: a request that can still be executed is in one
\* place only, has not been executed, and is not the one about to be sent.
OnceInv ==
    /\ \A c \in Calls :
         /\ runs[c] <= 1
         /\ c > calls => runs[c] = 0 /\ outcome[c] = "none"
    /\ \A c \in stranded : runs[c] = 0 /\ c <= calls /\ c # toServer.req
    /\ \A k \in DOMAIN backlog :
         /\ runs[backlog[k]] = 0
         /\ backlog[k] <= calls
         /\ backlog[k] # toServer.req
         /\ backlog[k] \notin stranded
         /\ \A j \in DOMAIN backlog : j # k => backlog[j] # backlog[k]
    /\ toServer.req # Nobody =>
         runs[toServer.req] = 0 /\ toServer.req <= calls
    /\ toServer.framed /\ toServer.got > 0 => toServer.req # Nobody
    /\ pc \in ConnectPhases \/ (pc = "sendHeader" /\ i = 0) =>
         /\ runs[calls] = 0
         /\ calls \notin stranded
         /\ toServer.req # calls
         /\ \A k \in DOMAIN backlog : backlog[k] # calls

\* Units of the current request that have been handed to the kernel.
SentUnits ==
    CASE pc = "sendHeader" -> i
      [] pc = "sendEntry" -> HeaderLen + packet.start[sent] + i
      [] OTHER -> WireLength(packet)

\* Units of the current response that have been read.
ReadUnits == IF pc \in SendPhases THEN 0 ELSE Position

SendInv ==
    /\ pc \in SendPhases => i <= SendLen
    /\ pc \in ConnectPhases \cup {"sendHeader"} => sent = 0
    /\ pc = "sendEntry" => sent \in 1..Len(packet.entries)
    /\ pc \in RecvPhases => i <= RecvLen
    /\ pc = "recvEntryHeader" => bytesRead < responseLength

\* The server has not answered; what it holds is what has been sent.
Waiting ==
    /\ toClient = <<>>
    /\ ReadUnits = 0
    /\ link = "up" =>
         toServer = IF SentUnits = 0 THEN NoRequest
                    ELSE [req |-> calls, got |-> SentUnits,
                          need |-> WireLength(packet), framed |-> TRUE]

\* The server has answered; what has not been read is the rest of the answer.
Answered ==
    /\ SentUnits = WireLength(packet)
    /\ toServer = NoRequest
    /\ runs[calls] = 1
    /\ ReadUnits > 0 => from = calls
    /\ link \in {"up", "fin"} =>
         toClient = IF ReadUnits = WireLength(answer[calls]) THEN <<>>
                    ELSE <<[from |-> calls, size |-> WireLength(answer[calls]),
                            off |-> ReadUnits]>>

StreamInv ==
    /\ backlog = <<>>
    /\ pc \in Idle \cup {"query", "return"} \cup ConnectPhases =>
         toServer = NoRequest
    /\ pc \in Idle \cup {"query", "return"} => toClient = <<>>
    /\ pc \in {"getaddrinfo", "findConnection"} <=> link = "fresh"
    /\ pc = "recvID" /\ link \in {"up", "fin"} =>
         toClient = IF i = IDLength THEN <<>>
                    ELSE <<[from |-> Nobody, size |-> IDLength, off |-> i]>>
    /\ pc \in SendPhases \cup {"recvHeader"} => Waiting \/ Answered
    /\ pc \in EntryPhases => Answered

\* What the loop has taken from the bytes it has read is what they said.
ParseInv ==
    pc \in EntryPhases \cup {"return"} =>
      LET a == answer[calls]
          k == Len(entrylist)
      IN  /\ from = calls
          /\ runs[calls] = 1
          /\ responseLength = PacketLength(a)
          /\ responseCmd = a.cmd
          /\ k <= Len(a.entries)
          /\ \A j \in 1..k : entrylist[j] = a.entries[j]
          /\ pc = "return" => k = Len(a.entries)
          /\ pc = "recvEntryHeader" => bytesRead = a.start[k + 1]
          /\ pc = "recvLargeHeader" => bytesRead = a.start[k + 1] + WordLen
          /\ pc = "recvData" =>
               bytesRead = a.start[k + 1] + EntryHeaderLength(entry)
          /\ pc \in EntryPhases => k < Len(a.entries)
          /\ pc \in {"recvLargeHeader", "recvData"} => entry = a.entries[k + 1]
          /\ pc = "recvLargeHeader" => entry.large

\* The call in progress has not ended, and is at a place of its own loop.
CallInv ==
    /\ pc = "query" => op = "query"
    /\ pc \in SendPhases \cup (RecvPhases \ {"recvID"}) \cup {"return"} =>
         op = "submit"
    /\ pc \notin Idle => outcome[calls] = "none"

\* A request that outlives its connection is one whose call threw or, until
\* the client notices, the one in progress.
StrandedInv ==
    \A c \in stranded :
        \/ outcome[c] = "NetworkError"
        \/ c = calls /\ pc \in SendPhases \cup {"recvHeader"}

SyncInv ==
    /\ SockInv /\ OnceInv /\ SendInv /\ CallInv
    /\ StreamInv /\ ParseInv /\ StrandedInv

\* No exception of operator new has left the connection in use in the middle.
Intact ==
    m_iSock = NoSocket \/ \A c \in m_iSock..calls : outcome[c] # "bad_alloc"

\* What makes RepairedBefore enough: a NetworkError ends the connection it is
\* met on, so it comes after a failed allocation only on another one.
RepairInv ==
    m_iSock # NoSocket => \A c \in m_iSock..calls : outcome[c] # "NetworkError"

\* What remains of the above when allocations may fail: how the bytes are read
\* only while the connection in use has not been left in the middle.
FaultInv ==
    /\ SockInv /\ OnceInv /\ SendInv /\ CallInv /\ RepairInv
    /\ Intact => StreamInv /\ ParseInv /\ VersionCurrent

\* OwnResponseOnceRepaired, with what keeps it: a request whose packet was
\* returned has been executed, so its answer cannot change any more.
ReturnInv ==
    /\ DOMAIN returned = Calls
    /\ \A c \in Calls : outcome[c] = "packet" /\ RepairedBefore(c) =>
         runs[c] = 1 /\ returned[c] = Content(c, answer[c])
=============================================================================
