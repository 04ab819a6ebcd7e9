------------------------ MODULE NetworkManagerProofs ------------------------
(***************************************************************************)
(* Theorems about NetworkManager, for every bound on the calls, every set  *)
(* of requests, responses and identifications and every unit of length.    *)
(***************************************************************************)
EXTENDS NetworkManager, SequenceTheorems, WellFoundedInduction, TLAPS

-----------------------------------------------------------------------------
(* Packets. *)

\* An entry is at least one word long (makeEntryHeader never writes less); the
\* length it gives for itself may be less.
LEMMA EntryLengthType ==
    ASSUME NEW e \in Entries
    PROVE  /\ EntryHeaderLength(e) \in Nat
           /\ EntryLength(e) \in Nat
           /\ EntryLength(e) > 0
           /\ EntryLength(e) = EntryHeaderLength(e) + e.len
           /\ getLength(e) \in Nat
<1>1. /\ EntryHeaderLength(e) \in Nat
      /\ EntryLength(e) \in Nat
      /\ EntryLength(e) > 0
      /\ EntryLength(e) = EntryHeaderLength(e) + e.len
  BY WordLenAssumption DEF Entries, EntryLength, EntryHeaderLength
<1>. QED
  BY <1>1, LengthLimitAssumption DEF getLength

\* The shape of a packet.
LEMMA PacketType ==
    ASSUME NEW p, IsPacket(p)
    PROVE  /\ Len(p.entries) \in Nat
           /\ DOMAIN p.entries = 1..Len(p.entries)
           /\ \A k \in 1..Len(p.entries) : p.entries[k] \in Entries
           /\ \A k \in 1..Len(p.entries) + 1 : p.start[k] \in Nat
           /\ PacketLength(p) \in Nat
           /\ WireLength(p) \in Nat
           /\ WireLength(p) > 0
           /\ WireLength(p) = HeaderLen + p.start[Len(p.entries) + 1]
           /\ p.start[1] = 0
<1>1. p.entries \in Seq(Entries) /\ p.start \in [1..Len(p.entries) + 1 -> Nat]
  BY DEF IsPacket
<1>2. Len(p.entries) \in Nat /\ DOMAIN p.entries = 1..Len(p.entries)
  BY <1>1
<1>3. PacketLength(p) \in Nat
  BY <1>1, <1>2 DEF PacketLength
<1>4. p.start[1] = 0
  BY DEF IsPacket
<1>5. \A k \in 1..Len(p.entries) : p.entries[k] \in Entries
  BY <1>1
<1>6. \A k \in 1..Len(p.entries) + 1 : p.start[k] \in Nat
  BY <1>1
<1>7. /\ WireLength(p) \in Nat
      /\ WireLength(p) > 0
      /\ WireLength(p) = HeaderLen + p.start[Len(p.entries) + 1]
  BY <1>3, HeaderLenAssumption DEF WireLength, PacketLength
<1>. QED
  BY <1>2, <1>3, <1>4, <1>5, <1>6, <1>7

\* A running total that no entry diminishes is never above the total.
LEMMA StartNeverFalls ==
    ASSUME NEW p, IsPacket(p), NEW j \in 1..Len(p.entries),
           \A k \in 1..Len(p.entries) : p.start[k] <= p.start[k + 1]
    PROVE  p.start[j + 1] <= p.start[Len(p.entries) + 1]
<1> DEFINE n == Len(p.entries)
           T == {k \in Nat : j < k /\ k <= n + 1 /\ ~(p.start[j + 1] <= p.start[k])}
<1>1. /\ n \in Nat
      /\ \A k \in 1..n + 1 : p.start[k] \in Nat
  BY PacketType
<1>2. SUFFICES ASSUME n + 1 \in T
               PROVE  FALSE
  BY <1>1
<1>3. PICK x \in T : \A y \in T : x <= y
  <2> DEFINE Less == {ss \in Nat \X Nat : ss[1] < ss[2]}
  <2>1. IsWellFoundedOn(Less, Nat)
    BY NatLessThanWellFounded DEF OpToRel
  <2>2. T \in SUBSET Nat
    OBVIOUS
  <2>3. PICK x \in T : \A y \in T : ~(<<y, x>> \in Less)
    BY <1>2, <2>1, <2>2, WFMin
  <2>4. \A y \in T : ~(y < x) /\ x \in Nat /\ y \in Nat
    BY <2>2, <2>3
  <2>. QED
    BY <2>4, SMTT(30)
<1>4. x \in Nat /\ j < x /\ x <= n + 1 /\ ~(p.start[j + 1] <= p.start[x])
  OBVIOUS
<1> HIDE DEF T
<1>5. CASE x = j + 1
  BY <1>1, <1>4, <1>5
<1>6. CASE x # j + 1
  <2>1. x - 1 \in Nat /\ j < x - 1 /\ x - 1 <= n + 1 /\ x - 1 \in 1..n
    BY <1>1, <1>4, <1>6
  <2>2. x - 1 \notin T
    BY <1>3, <1>4, <2>1
  <2>3. p.start[j + 1] <= p.start[x - 1]
    BY <2>1, <2>2 DEF T
  <2>4. p.start[x - 1] <= p.start[x]
    BY <1>4, <2>1
  <2>5. j + 1 \in 1..n + 1 /\ x - 1 \in 1..n + 1 /\ x \in 1..n + 1
    BY <1>1, <1>4, <2>1
  <2>6. p.start[j + 1] \in Nat /\ p.start[x - 1] \in Nat /\ p.start[x] \in Nat
    BY <1>1, <2>5
  <2>. QED
    BY <1>4, <2>3, <2>4, <2>6
<1>. QED
  BY <1>5, <1>6

\* What submit has sent of a request never exceeds what the header announced.
LEMMA RequestStarts ==
    ASSUME NEW p, IsRequest(p), NEW j \in 1..Len(p.entries)
    PROVE  /\ p.start[j + 1] = p.start[j] + getLength(p.entries[j])
           /\ p.start[j + 1] <= p.start[Len(p.entries) + 1]
<1>1. IsPacket(p)
  BY DEF IsRequest
<1>2. \A k \in 1..Len(p.entries) : p.start[k] <= p.start[k + 1]
  <2>1. TAKE k \in 1..Len(p.entries)
  <2>2. getLength(p.entries[k]) \in Nat /\ p.start[k] \in Nat
    BY <1>1, PacketType, EntryLengthType
  <2>. QED
    BY <2>2 DEF IsRequest
<1>. QED
  BY <1>1, <1>2, StartNeverFalls DEF IsRequest

\* The running total of a response grows with every entry, so it is below the
\* total until the last entry has been added: the loop over the entries and
\* the announced length agree on where the packet ends.
LEMMA StartGrows ==
    ASSUME NEW p, IsResponse(p), NEW j \in 1..Len(p.entries)
    PROVE  /\ p.start[j + 1] = p.start[j] + EntryLength(p.entries[j])
           /\ p.start[j] < p.start[Len(p.entries) + 1]
<1>1. IsPacket(p)
  BY DEF IsResponse
<1>2. \A k \in 1..Len(p.entries) :
        /\ p.start[k] \in Nat
        /\ EntryLength(p.entries[k]) \in Nat
        /\ EntryLength(p.entries[k]) > 0
        /\ p.start[k + 1] = p.start[k] + EntryLength(p.entries[k])
  BY <1>1, PacketType, EntryLengthType DEF IsResponse
<1>3. \A k \in 1..Len(p.entries) : p.start[k] <= p.start[k + 1]
  BY <1>2
<1>4. p.start[j + 1] <= p.start[Len(p.entries) + 1]
  BY <1>1, <1>3, StartNeverFalls
<1>5. p.start[j] < p.start[j + 1] /\ p.start[j] \in Nat /\ p.start[j + 1] \in Nat
  BY <1>2
<1>6. p.start[Len(p.entries) + 1] \in Nat
  BY <1>1, PacketType
<1>. QED
  BY <1>2, <1>4, <1>5, <1>6

\* Every packet in the model has the shape RPacket or a server gives it.
LEMMA AllPackets ==
    /\ \A p \in Requests \cup {NoPacket} : IsRequest(p)
    /\ \A p \in Responses \cup {NoPacket} : IsResponse(p)
    /\ \A p \in Requests \cup Responses \cup {NoPacket} : IsPacket(p)
<1>1. NoPacket.entries = <<>> /\ NoPacket.start = <<0>>
  BY DEF NoPacket
<1>2. Len(NoPacket.entries) = 0 /\ NoPacket.entries \in Seq(Entries)
  BY <1>1
<1>3. NoPacket.start \in [1..1 -> Nat] /\ NoPacket.start[1] = 0
  BY <1>1
<1>4. IsPacket(NoPacket)
  BY <1>2, <1>3 DEF IsPacket
<1>5. IsRequest(NoPacket) /\ IsResponse(NoPacket)
  BY <1>2, <1>4 DEF IsRequest, IsResponse
<1>. QED
  BY <1>4, <1>5, RequestsAssumption, ResponsesAssumption
  DEF IsRequest, IsResponse

\* Before any call is made the invariants hold.
LEMMA TypeInit == Init => TypeOK
BY MaxCallsAssumption
DEF Init, TypeOK, Calls, NoSocket, Nobody, Phases, ConnectPhases, SendPhases,
    RecvPhases, Idle, NoEntry, NoRequest, Entries

LEMMA StrandingType ==
    ASSUME TypeOK, OnceInv
    PROVE  Stranding \in SUBSET Calls
<1>1. \A k \in DOMAIN backlog : backlog[k] \in Calls
  BY DEF TypeOK
<1>2. Complete => toServer.req \in Calls
  BY DEF TypeOK, OnceInv, Complete
<1>. QED
  BY <1>1, <1>2 DEF Stranding

\* The request that is answered next has not been executed.
LEMMA NextAnswered ==
    ASSUME TypeOK, OnceInv, NEW r, ServerAnswers(r)
    PROVE  \E c \in Calls :
             /\ Answers(c, r) /\ runs[c] = 0 /\ c <= calls
             /\ \/ /\ backlog # <<>> /\ c = Head(backlog)
                   /\ backlog' = Tail(backlog) /\ UNCHANGED toServer
                \/ /\ backlog = <<>> /\ Complete /\ c = toServer.req
                   /\ toServer' = NoRequest /\ UNCHANGED backlog
<1>1. CASE backlog # <<>>
  <2>1. /\ 1 \in DOMAIN backlog /\ Head(backlog) = backlog[1]
        /\ Head(backlog) \in Calls
    BY <1>1 DEF TypeOK
  <2>2. runs[Head(backlog)] = 0 /\ Head(backlog) <= calls
    BY <2>1 DEF OnceInv
  <2>. QED
    BY <1>1, <2>1, <2>2 DEF ServerAnswers
<1>2. CASE backlog = <<>>
  <2>1. /\ Complete /\ Answers(toServer.req, r)
        /\ toServer' = NoRequest /\ UNCHANGED backlog
    BY <1>2 DEF ServerAnswers
  <2>2. /\ toServer.req \in Calls
        /\ runs[toServer.req] = 0 /\ toServer.req <= calls
    BY <2>1 DEF TypeOK, OnceInv, Complete
  <2>. QED
    BY <1>2, <2>1, <2>2
<1>. QED
  BY <1>1, <1>2

LEMMA NoRequestType ==
    NoRequest \in [req : Calls \cup {Nobody}, got : Nat, need : Nat,
                   framed : BOOLEAN]
BY DEF NoRequest, Nobody

LEMMA AnswerType ==
    ASSUME TypeOK, NEW c \in Calls
    PROVE  IsPacket(answer[c]) /\ IsResponse(answer[c])
BY AllPackets DEF TypeOK

\* Only a call in progress meets an error, or fails to allocate.
LEMMA ErrorsThrow ==
    ASSUME ConnectFails \/ RejectVersion \/ SendFails \/ RecvFails
    PROVE  /\ throw_network_error /\ pc \notin Idle
           /\ m_sRserve_version' \in {m_sRserve_version, serverID}
BY DEF ConnectFails, RejectVersion, SendFails, RecvFails, ConnectFailing,
       Rejecting, SendFailing, RecvFailing, SendPhases, RecvPhases, Idle

LEMMA FailsInCall ==
    ASSUME BadAlloc
    PROVE  pc \notin Idle /\ End("bad_alloc")
BY DEF BadAlloc, BadAllocConnected, BadAllocDisconnected, AllocSite, ErrorHere,
       ConnectFailing, Rejecting, SendFailing, RecvFailing, SendPhases,
       RecvPhases, Idle

\* Every step keeps every variable in its type.
LEMMA TypeNext ==
    ASSUME TypeOK, SockInv, OnceInv, [Next]_vars
    PROVE  TypeOK'
<1> DEFINE Inboxes == [req : Calls \cup {Nobody}, got : Nat, need : Nat,
                       framed : BOOLEAN]
           Frames == [from : Calls \cup {Nobody}, size : Nat, off : Nat]
<1>a. Stranding \in SUBSET Calls
  BY StrandingType
<1>b. stranded \cup Stranding \in SUBSET Calls
  BY <1>a DEF TypeOK
<1>c. NoRequest \in Inboxes
  BY NoRequestType
<1>d. \A c \in Calls : IsPacket(answer[c])
  BY AnswerType
<1> USE DEF TypeOK, Calls, NoSocket, Nobody, Phases, ConnectPhases, SendPhases,
            RecvPhases, Idle, objectVars, sendVars, recvVars, netVars,
            serverVars, callerVars
<1> USE MaxCallsAssumption
<1>1. CASE Query
  BY <1>1 DEF Query, Begin
<1>2. ASSUME NEW p \in Requests, submit(p) PROVE TypeOK'
  BY <1>2 DEF submit, Begin
<1>3. ASSUME throw_network_error, pc \notin Idle,
             m_sRserve_version' \in ServerIDs \cup {NoVersion}
      PROVE TypeOK'
  BY <1>3, <1>b, <1>c, SMTT(90)
  DEF throw_network_error, disconnect, End, SockInv
<1>4. CASE Destroy
  BY <1>4, <1>b, <1>c DEF Destroy, disconnect
<1>5. CASE GetSocket
  BY <1>5 DEF GetSocket, SockInv
<1>6. CASE ResolveHost
  BY <1>6 DEF ResolveHost
<1>7. ASSUME NEW id \in ServerIDs, findConnection(id) PROVE TypeOK'
  BY <1>7, IDLengthAssumption DEF findConnection, Frame
<1>8. CASE ConnectFails
  BY <1>8, <1>3, ErrorsThrow
<1>9. CASE AcceptVersion
  BY <1>9 DEF AcceptVersion
<1>10. CASE RejectVersion
  BY <1>10, <1>3, ErrorsThrow
<1>11. ASSUME NEW n \in 1..SendLen, pc \in SendPhases, Send(n) PROVE TypeOK'
  <2>1. IsPacket(packet)
    BY AllPackets
  <2>2. WireLength(packet) \in Nat
    BY <2>1, PacketType
  <2>3. n \in Nat
    BY <1>11 DEF Send
  <2>4. toServer \in Inboxes /\ calls \in Calls
    BY <1>11 DEF SockInv
  <2>5. Receives(n) => toServer' \in Inboxes
    <3> HIDE DEF TypeOK
    <3>1. toServer.got + n \in Nat /\ (toServer.req = calls) \in BOOLEAN
      BY <2>3, <2>4
    <3>2. Receives(n) /\ Begins => toServer' \in Inboxes
      BY <2>2, <2>3, <2>4 DEF Receives
    <3>3. Receives(n) /\ ~Begins => toServer' \in Inboxes
      BY <2>4, <3>1 DEF Receives
    <3>. QED
      BY <3>2, <3>3
  <2>6. toServer' \in Inboxes
    BY <1>11, <2>4, <2>5 DEF Send
  <2>7. backlog' \in Seq(Calls)
    <3>1. Complete => toServer.req \in Calls
      BY DEF Complete, OnceInv
    <3>2. backlog' = backlog \/ (Complete /\ backlog' = Append(backlog, toServer.req))
      BY <1>11 DEF Send, Receives
    <3>3. backlog \in Seq(Calls)
      OBVIOUS
    <3> HIDE DEF TypeOK, Calls
    <3>. QED
      BY <3>1, <3>2, <3>3
  <2>. QED
    BY <1>11, <2>3, <2>6, <2>7 DEF Send
<1>12. CASE SendFails
  BY <1>12, <1>3, ErrorsThrow
<1>13. CASE NextSend
  BY <1>13, SMTT(30) DEF NextSend
<1>14. ASSUME NEW n \in 1..RecvLen, Recv(n) PROVE TypeOK'
  <2> DEFINE f == Head(toClient)
             g == [f EXCEPT !.off = @ + n]
  <2>1. f \in Frames /\ Tail(toClient) \in Seq(Frames)
    BY <1>14, HeadTailProperties DEF Recv
  <2>2. n \in Nat
    OBVIOUS
  <2>3. g \in Frames
    <3> HIDE DEF TypeOK
    <3>1. n \in Nat /\ f.off + n \in Nat
      BY <2>1, <2>2
    <3> HIDE DEF f
    <3>. QED
      BY <2>1, <3>1
  <2>4. <<g>> \o Tail(toClient) \in Seq(Frames)
    <3> HIDE DEF TypeOK, f, g, Frames
    <3>1. <<g>> \in Seq(Frames)
      BY <2>3
    <3>. QED
      BY <2>1, <3>1, ConcatProperties
  <2>5. toClient' \in Seq(Frames)
    BY <1>14, <2>1, <2>4 DEF Recv
  <2>6. from' \in Calls \cup {Nobody} /\ i' \in Nat
    BY <1>14, <2>1, <2>2, SMTT(30) DEF Recv
  <2>. QED
    BY SMTT(90), <1>14, <2>5, <2>6 DEF Recv
<1>15. CASE RecvFails
  BY <1>15, <1>3, ErrorsThrow
<1>16. CASE ParseHeader
  <2>1. \A p \in HeadersHere : PacketLength(p) \in Nat
    BY <1>d, AllPackets, PacketType DEF HeadersHere
  <2>. QED
    BY <1>16, <2>1 DEF ParseHeader, LoopHead
<1>17. CASE ParseEntryHeader
  <2>1. ASSUME NEW p, IsPacket(p), NEW j \in DOMAIN p.entries
        PROVE  p.entries[j] \in Entries
    BY <2>1, PacketType
  <2>2. EntriesHere \subseteq Entries
    <3> HIDE DEF TypeOK
    <3>1. CASE from # Nobody /\ Len(entrylist) + 1 \in DOMAIN answer[from].entries
      <4>1. from \in Calls
        BY <3>1 DEF TypeOK
      <4>2. IsPacket(answer[from])
        BY <4>1, AnswerType
      <4>3. answer[from].entries[Len(entrylist) + 1] \in Entries
        BY <2>1, <3>1, <4>2
      <4>. QED
        BY <3>1, <4>3 DEF EntriesHere
    <3>2. CASE ~(from # Nobody /\ Len(entrylist) + 1 \in DOMAIN answer[from].entries)
      BY <2>1, <3>2, AllPackets DEF EntriesHere
    <3>. QED
      BY <3>1, <3>2
  <2>. QED
    BY <1>17, <2>2 DEF ParseEntryHeader
<1>18. CASE ParseLargeHeader
  BY <1>18 DEF ParseLargeHeader
<1>19. CASE AppendEntry
  BY <1>19 DEF AppendEntry, LoopHead
<1>20. CASE ReturnVersion
  BY <1>20, SMTT(60) DEF ReturnVersion, End, SockInv
<1>21. CASE ReturnPacket
  BY <1>21, SMTT(60) DEF ReturnPacket, End, SockInv
<1>22. CASE BadAlloc
  <2>1. pc \notin Idle
    BY <1>22, FailsInCall
  <2>2. CASE BadAllocConnected
    BY <2>1, <2>2, SMTT(30) DEF BadAllocConnected, End, SockInv
  <2>3. CASE BadAllocDisconnected
    BY <2>1, <2>3, <1>b, <1>c, SMTT(90)
    DEF BadAllocDisconnected, disconnect, End, SockInv
  <2>. QED
    BY <1>22, <2>2, <2>3 DEF BadAlloc
<1>23. ASSUME NEW r \in Responses, ServerAnswers(r) PROVE TypeOK'
  <2>1. WireLength(r) \in Nat
    BY AllPackets, PacketType
  <2>2. PICK c \in Calls :
          /\ Answers(c, r)
          /\ \/ backlog # <<>> /\ backlog' = Tail(backlog) /\ UNCHANGED toServer
             \/ toServer' = NoRequest /\ UNCHANGED backlog
    BY <1>23, NextAnswered
  <2>3. Frame(c, WireLength(r)) \in Frames
    BY <2>1 DEF Frame
  <2>4. toClient' \in Seq(Frames)
    BY <2>2, <2>3 DEF Answers
  <2>5. runs' \in [Calls -> Nat] /\ answer' \in [Calls -> Responses \cup {NoPacket}]
    BY SMTT(30), <2>2 DEF Answers, Executes
  <2>6. toServer' \in Inboxes /\ backlog' \in Seq(Calls)
    <3>1. backlog # <<>> => Tail(backlog) \in Seq(Calls)
      BY HeadTailProperties
    <3>. QED
      BY <1>c, <2>2, <3>1
  <2>7. UNCHANGED <<objectVars, pc, sendVars, i, recvVars, link, serverID, stranded, from, callerVars>>
    BY <1>23 DEF ServerAnswers
  <2>. QED
    BY <2>4, <2>5, <2>6, <2>7
<1>24. ASSUME NEW r \in Responses, ServerMisreads(r) PROVE TypeOK'
  <2>1. WireLength(r) \in Nat
    BY AllPackets, PacketType
  <2>. QED
    BY <1>24, <2>1, <1>c DEF ServerMisreads, Frame
<1>25. ASSUME NEW c \in stranded, NEW r \in Responses, StrandedExecutes(c, r)
       PROVE TypeOK'
  BY <1>25 DEF StrandedExecutes, Executes
<1>26. CASE ConnectionBreaks
  <2>1. toClient' \in Seq(Frames)
    <3>1. toClient' = toClient \/ toClient' = <<>>
      BY <1>26 DEF ConnectionBreaks
    <3>2. toClient \in Seq(Frames) /\ <<>> \in Seq(Frames)
      OBVIOUS
    <3>. QED
      BY <3>1, <3>2
  <2>2. link' \in {"fin", "rst"}
    BY <1>26 DEF ConnectionBreaks
  <2>3. /\ UNCHANGED <<objectVars, pc, sendVars, i, recvVars, serverID, from,
                       serverVars, callerVars>>
        /\ toServer' = NoRequest /\ backlog' = <<>>
        /\ stranded' = stranded \cup Stranding
    BY <1>26 DEF ConnectionBreaks
  <2>. QED
    BY SMTT(30), <1>b, <1>c, <2>1, <2>2, <2>3
<1>27. CASE UNCHANGED vars
  BY <1>27 DEF vars
<1>. QED
  BY <1>1, <1>2, <1>4, <1>5, <1>6, <1>7, <1>8, <1>9, <1>10, <1>11, <1>12,
     <1>13, <1>14, <1>15, <1>16, <1>17, <1>18, <1>19, <1>20, <1>21, <1>22,
     <1>23, <1>24, <1>25, <1>26, <1>27
  DEF Next, Consumer, Client, Server

-----------------------------------------------------------------------------
\* The socket, the connection and the place in the program stay consistent.
LEMMA SockInit == Init => SockInv
BY MaxCallsAssumption DEF Init, SockInv, Idle, ConnectPhases, NoSocket

LEMMA SockNext ==
    ASSUME TypeOK, SockInv, [Next]_vars
    PROVE  SockInv'
<1> USE DEF SockInv, Calls, NoSocket, ConnectPhases, SendPhases, RecvPhases,
            Idle, objectVars, sendVars, recvVars, netVars, serverVars,
            callerVars
<1> USE MaxCallsAssumption
<1>0. /\ calls \in 0..MaxCalls
      /\ m_iSock \in Calls \cup {NoSocket}
      /\ pc \in Phases
  BY DEF TypeOK
<1>1. ASSUME NEW kind, NEW place \in {"query", "sendHeader"}, Begin(kind, place)
      PROVE  SockInv'
  BY <1>0, <1>1 DEF Begin
<1>2. ASSUME throw_network_error PROVE SockInv'
  BY <1>0, <1>2 DEF throw_network_error, disconnect, End
<1>3. CASE Query
  BY <1>1, <1>3 DEF Query
<1>4. ASSUME NEW p \in Requests, submit(p) PROVE SockInv'
  BY <1>1, <1>4 DEF submit
<1>5. CASE Destroy
  BY <1>0, <1>5 DEF Destroy, disconnect
<1>6. CASE GetSocket
  BY <1>0, <1>6 DEF GetSocket
<1>7. CASE ResolveHost
  BY <1>0, <1>7 DEF ResolveHost
<1>8. ASSUME NEW id \in ServerIDs, findConnection(id) PROVE SockInv'
  BY <1>0, <1>8 DEF findConnection
<1>9. CASE ConnectFails \/ RejectVersion \/ SendFails \/ RecvFails
  BY <1>2, <1>9 DEF ConnectFails, RejectVersion, SendFails, RecvFails
<1>10. CASE AcceptVersion
  BY <1>0, <1>10 DEF AcceptVersion
<1>11. ASSUME NEW n \in 1..SendLen, Send(n) PROVE SockInv'
  BY <1>0, <1>11 DEF Send
<1>12. CASE NextSend
  BY <1>0, <1>12 DEF NextSend
<1>13. ASSUME NEW n \in 1..RecvLen, Recv(n) PROVE SockInv'
  BY <1>0, <1>13 DEF Recv
<1>14. CASE ParseHeader
  BY <1>0, <1>14 DEF ParseHeader, LoopHead
<1>15. CASE ParseEntryHeader
  BY <1>0, <1>15 DEF ParseEntryHeader
<1>16. CASE ParseLargeHeader
  BY <1>0, <1>16 DEF ParseLargeHeader
<1>17. CASE AppendEntry
  BY <1>0, <1>17 DEF AppendEntry, LoopHead
<1>18. CASE ReturnVersion \/ ReturnPacket \/ BadAlloc
  BY <1>0, <1>18
  DEF ReturnVersion, ReturnPacket, BadAlloc, BadAllocConnected,
      BadAllocDisconnected, disconnect, End
<1>19. ASSUME NEW r \in Responses, ServerAnswers(r) \/ ServerMisreads(r)
       PROVE  SockInv'
  BY <1>0, <1>19 DEF ServerAnswers, ServerMisreads
<1>20. ASSUME NEW c \in stranded, NEW r \in Responses, StrandedExecutes(c, r)
       PROVE  SockInv'
  BY <1>0, <1>20 DEF StrandedExecutes
<1>21. CASE ConnectionBreaks
  BY <1>0, <1>21 DEF ConnectionBreaks
<1>22. CASE UNCHANGED vars
  BY <1>22 DEF vars
<1>. QED
  BY <1>3, <1>4, <1>5, <1>6, <1>7, <1>8, <1>9, <1>10, <1>11, <1>12, <1>13,
     <1>14, <1>15, <1>16, <1>17, <1>18, <1>19, <1>20, <1>21, <1>22
  DEF Next, Consumer, Client, Server

-----------------------------------------------------------------------------
\* A request that can still be executed has not been executed.
LEMMA OnceInit == Init => OnceInv
BY MaxCallsAssumption DEF Init, OnceInv, Calls, NoRequest, Nobody,
   ConnectPhases

LEMMA OnceNext ==
    ASSUME TypeOK, SockInv, OnceInv, [Next]_vars
    PROVE  OnceInv'
<1> USE DEF OnceInv, Calls, Nobody, ConnectPhases, SendPhases, RecvPhases,
            Idle, objectVars, sendVars, recvVars, netVars, serverVars,
            callerVars
<1> USE MaxCallsAssumption
<1>0. /\ calls \in 0..MaxCalls
      /\ pc \notin Idle => calls \in Calls
      /\ stranded \in SUBSET Calls
      /\ backlog \in Seq(Calls)
      /\ \A k \in DOMAIN backlog : backlog[k] \in Calls
      /\ toServer.req \in Calls \cup {Nobody}
      /\ toServer.framed \in BOOLEAN
      /\ toServer.got \in Nat
      /\ runs \in [Calls -> Nat]
      /\ DOMAIN outcome = Calls
      /\ i \in Nat
  <2>1. \A k \in DOMAIN backlog : backlog[k] \in Calls
    BY SMTT(30) DEF TypeOK
  <2>. QED
    BY <2>1, SMTT(30) DEF TypeOK, SockInv
\* The steps that only move the client within its call.
<1>1. ASSUME UNCHANGED <<calls, runs, outcome, stranded, toServer, backlog>>,
             pc' \in ConnectPhases => pc \in ConnectPhases,
             pc' = "sendHeader" /\ i' = 0 =>
                \/ pc \in ConnectPhases
                \/ pc = "sendHeader" /\ i = 0
      PROVE  OnceInv'
  BY <1>0, <1>1
\* A new call has a number that nothing in the system mentions yet.
<1>2. ASSUME NEW kind, NEW place \in {"query", "sendHeader"}, Begin(kind, place)
      PROVE  OnceInv'
  <2>1. /\ pc = "idle" /\ calls < MaxCalls /\ calls' = calls + 1
        /\ UNCHANGED <<runs, outcome, stranded, toServer, backlog>>
    BY <1>2 DEF Begin
  <2>2. calls' \in Calls /\ calls' > calls
    BY <1>0, <2>1
  <2>3. \A c \in Calls : runs'[c] <= 1 /\ (c > calls' => runs'[c] = 0 /\ outcome'[c] = "none")
    BY <1>0, <2>1
  <2>. QED
    BY <1>0, <2>1, <2>2, <2>3
\* A connection that goes leaves at most its complete requests behind.
<1>3. ASSUME stranded' = stranded \cup Stranding, toServer' = NoRequest,
             backlog' = <<>>, UNCHANGED <<calls, runs>>,
             \A c \in Calls : c > calls => outcome'[c] = outcome[c],
             \/ pc' \notin ConnectPhases \cup SendPhases
             \/ pc' = pc /\ i' = i
      PROVE  OnceInv'
  <2>1. \A c \in Stranding :
          /\ c \in Calls /\ runs[c] = 0 /\ c <= calls
          /\ pc \in ConnectPhases \/ (pc = "sendHeader" /\ i = 0) => c # calls
    <3>1. \A k \in DOMAIN backlog :
            /\ backlog[k] \in Calls /\ runs[backlog[k]] = 0
            /\ backlog[k] <= calls
            /\ pc \in ConnectPhases \/ (pc = "sendHeader" /\ i = 0)
                 => backlog[k] # calls
      BY <1>0
    <3>2. Complete => /\ toServer.req \in Calls /\ runs[toServer.req] = 0
                      /\ toServer.req <= calls
                      /\ pc \in ConnectPhases \/ (pc = "sendHeader" /\ i = 0)
                           => toServer.req # calls
      BY <1>0 DEF Complete
    <3>. QED
      BY <3>1, <3>2 DEF Stranding
  <2>2. \A c \in stranded' : c \in Calls /\ runs'[c] = 0 /\ c <= calls'
    BY <1>0, <1>3, <2>1
  <2>3. NoRequest.req = Nobody /\ NoRequest.got = 0
    BY DEF NoRequest
  <2>4. \A c \in stranded' : c # toServer'.req
    BY <1>0, <1>3, <2>2, <2>3
  <2>5. pc' \in ConnectPhases \/ (pc' = "sendHeader" /\ i' = 0) =>
          runs'[calls'] = 0 /\ calls' \notin stranded' /\ toServer'.req # calls'
    <3> SUFFICES ASSUME pc' \in ConnectPhases \/ (pc' = "sendHeader" /\ i' = 0)
                 PROVE  /\ runs'[calls'] = 0
                        /\ calls' \notin stranded' /\ toServer'.req # calls'
      OBVIOUS
    <3>1. pc' = pc /\ i' = i /\ calls \in Calls
      BY <1>0, <1>3
    <3>. QED
      BY <1>3, <2>1, <2>3, <3>1
  <2>. QED
    BY <1>0, <1>3, <2>2, <2>3, <2>4, <2>5
<1>4. ASSUME End("NetworkError") \/ End("version") \/ End("packet") \/ End("bad_alloc")
      PROVE  /\ UNCHANGED <<calls, runs>>
             /\ \A c \in Calls : c > calls => outcome'[c] = outcome[c]
             /\ pc' = "idle"
  BY <1>0, <1>4, SMTT(30) DEF End
<1>5. CASE throw_network_error
  BY <1>3, <1>4, <1>5 DEF throw_network_error, disconnect
<1>6. CASE Query
  BY <1>2, <1>6 DEF Query
<1>7. ASSUME NEW p \in Requests, submit(p) PROVE OnceInv'
  BY <1>2, <1>7 DEF submit
<1>8. CASE Destroy
  BY <1>3, <1>8 DEF Destroy, disconnect
<1>9. CASE GetSocket
  BY <1>1, <1>9 DEF GetSocket
<1>10. CASE ResolveHost
  BY <1>1, <1>10 DEF ResolveHost
<1>11. ASSUME NEW id \in ServerIDs, findConnection(id) PROVE OnceInv'
  BY <1>1, <1>11 DEF findConnection
<1>12. CASE ConnectFails \/ RejectVersion \/ SendFails \/ RecvFails
  BY <1>5, <1>12 DEF ConnectFails, RejectVersion, SendFails, RecvFails
<1>13. CASE AcceptVersion
  BY <1>1, <1>13 DEF AcceptVersion
<1>14. ASSUME NEW n \in 1..SendLen, Send(n), pc \in SendPhases PROVE OnceInv'
  <2>1. n \in Nat /\ n > 0
    BY <1>14 DEF Send
  <2>2. /\ UNCHANGED <<pc, calls, runs, outcome, stranded>>
        /\ i' = i + n /\ i' > 0
        /\ UNCHANGED <<toServer, backlog>> \/ Receives(n)
    BY <1>0, <1>14, <2>1 DEF Send
  <2>3. CASE UNCHANGED <<toServer, backlog>>
    BY <1>1, <2>2, <2>3
  <2>4. CASE Receives(n) /\ Begins
    <3>1. /\ toServer'.req = calls /\ calls \in Calls
          /\ pc = "sendHeader" /\ i = 0
      BY <1>0, <1>14, <2>4 DEF Receives, Begins
    <3>2. /\ runs[calls] = 0 /\ calls \notin stranded
          /\ \A k \in DOMAIN backlog : backlog[k] # calls
      BY <3>1
    <3>3. CASE ~Complete
      <4>1. backlog' = backlog
        BY <2>4, <3>3 DEF Receives
      <4>. QED
        BY <1>0, <2>2, <3>1, <3>2, <4>1
    <3>4. CASE Complete
      <4>1. backlog' = Append(backlog, toServer.req)
        BY <2>4, <3>4 DEF Receives
      <4>2. /\ toServer.req \in Calls /\ toServer.req # calls
            /\ runs[toServer.req] = 0 /\ toServer.req <= calls
            /\ toServer.req \notin stranded
            /\ \A k \in DOMAIN backlog : backlog[k] # toServer.req
        BY <1>0, <3>1, <3>4 DEF Complete
      <4>3. /\ DOMAIN backlog = 1..Len(backlog) /\ Len(backlog) \in Nat
            /\ DOMAIN backlog' = 1..Len(backlog) + 1
            /\ \A k \in 1..Len(backlog) : backlog'[k] = backlog[k]
            /\ backlog'[Len(backlog) + 1] = toServer.req
        BY <1>0, <4>1, <4>2
      <4>4. \A k \in DOMAIN backlog' :
              k \in DOMAIN backlog \/ k = Len(backlog) + 1
        BY <4>3
      <4>5. \A k \in DOMAIN backlog' :
              /\ runs'[backlog'[k]] = 0
              /\ backlog'[k] <= calls'
              /\ backlog'[k] # calls
              /\ backlog'[k] \notin stranded'
        BY <2>2, <3>2, <4>2, <4>3, <4>4
      <4>6. \A j, k \in DOMAIN backlog' : j # k => backlog'[j] # backlog'[k]
        BY <4>2, <4>3, <4>4
      <4>. QED
        BY <1>0, <2>2, <3>1, <3>2, <4>5, <4>6
    <3>. QED
      BY <3>3, <3>4
  <2>5. CASE Receives(n) /\ ~Begins
    <3>1. toServer'.req = toServer.req /\ backlog' = backlog
      BY <2>5, <1>0 DEF Receives, TypeOK
    <3>2. toServer'.framed => toServer.req = calls
      BY <2>5, <1>0 DEF Receives, TypeOK
    <3>. QED
      BY <1>0, <1>14, <2>2, <3>1, <3>2
  <2>. QED
    BY <2>2, <2>3, <2>4, <2>5
<1>15. CASE NextSend
  BY <1>1, <1>15 DEF NextSend
<1>16. ASSUME NEW n \in 1..RecvLen, Recv(n) PROVE OnceInv'
  BY <1>1, <1>16 DEF Recv
<1>17. CASE ParseHeader
  BY <1>1, <1>17 DEF ParseHeader, LoopHead
<1>18. CASE ParseEntryHeader
  BY <1>1, <1>18 DEF ParseEntryHeader
<1>19. CASE ParseLargeHeader
  BY <1>1, <1>19 DEF ParseLargeHeader
<1>20. CASE AppendEntry
  BY <1>1, <1>20 DEF AppendEntry, LoopHead
<1>21. CASE ReturnVersion \/ ReturnPacket \/ BadAlloc
  <2>1. \/ UNCHANGED <<stranded, toServer, backlog>>
        \/ disconnect
    BY <1>21
    DEF ReturnVersion, ReturnPacket, BadAlloc, BadAllocConnected,
        BadAllocDisconnected
  <2>2. /\ UNCHANGED <<calls, runs>>
        /\ \A c \in Calls : c > calls => outcome'[c] = outcome[c]
        /\ pc' = "idle"
    BY <1>4, <1>21, FailsInCall DEF ReturnVersion, ReturnPacket
  <2>3. CASE UNCHANGED <<stranded, toServer, backlog>>
    BY <1>0, <2>2, <2>3
  <2>4. CASE disconnect
    BY <1>3, <2>2, <2>4 DEF disconnect
  <2>. QED
    BY <2>1, <2>3, <2>4
\* An execution consumes the only copy of its request.
<1>22. ASSUME NEW c \in Calls, NEW r, Executes(c, r), runs[c] = 0, c <= calls,
              UNCHANGED <<pc, i, calls, outcome>>,
              \/ /\ toServer' = NoRequest /\ c = toServer.req
                 /\ UNCHANGED <<stranded, backlog>>
              \/ /\ backlog # <<>> /\ c = Head(backlog)
                 /\ backlog' = Tail(backlog) /\ UNCHANGED <<stranded, toServer>>
              \/ /\ c \in stranded /\ stranded' = stranded \ {c}
                 /\ UNCHANGED <<toServer, backlog>>
       PROVE  OnceInv'
  <2>1. \A d \in Calls : runs'[d] = IF d = c THEN 1 ELSE runs[d]
    BY <1>0, <1>22 DEF Executes
  <2>2. NoRequest.req = Nobody /\ NoRequest.got = 0
    BY DEF NoRequest
  \* What is left of the backlog was in it, at another place than c.
  <2>3. \A k \in DOMAIN backlog' :
          \E j \in DOMAIN backlog :
            /\ backlog'[k] = backlog[j] /\ backlog[j] # c
            /\ backlog' = backlog => j = k
            /\ backlog' # backlog => j = k + 1
    <3>1. CASE backlog' = backlog
      BY <1>22, <3>1
    <3>2. CASE backlog # <<>> /\ c = Head(backlog) /\ backlog' = Tail(backlog)
      <4>1. /\ Len(backlog) \in Nat /\ Len(backlog) > 0
            /\ DOMAIN backlog = 1..Len(backlog)
            /\ DOMAIN backlog' = 1..Len(backlog) - 1
            /\ c = backlog[1]
            /\ \A k \in 1..Len(backlog) - 1 : backlog'[k] = backlog[k + 1]
            /\ backlog' # backlog
        <5> HIDE DEF Calls
        <5>1. /\ Len(backlog') = Len(backlog) - 1
              /\ Len(backlog) \in Nat /\ Len(backlog) > 0
              /\ DOMAIN backlog = 1..Len(backlog)
          BY <1>0, <3>2
        <5>2. DOMAIN backlog' = 1..Len(backlog) - 1
          BY <1>0, <3>2
        <5>3. \A k \in 1..Len(backlog) - 1 : backlog'[k] = backlog[k + 1]
          BY <1>0, <3>2
        <5>4. c = backlog[1]
          BY <1>0, <3>2
        <5>5. backlog' # backlog
          BY <5>1
        <5>. QED
          BY <5>1, <5>2, <5>3, <5>4, <5>5
      <4>2. \A k \in 1..Len(backlog) - 1 :
              k + 1 \in DOMAIN backlog /\ 1 \in DOMAIN backlog /\ k + 1 # 1
        BY <4>1
      <4>. QED
        BY <4>1, <4>2
    <3>. QED
      BY <1>22, <3>1, <3>2
  <2>4. \A j, k \in DOMAIN backlog' : j # k => backlog'[j] # backlog'[k]
    <3> TAKE j, k \in DOMAIN backlog'
    <3> HAVE j # k
    <3>1. PICK jj \in DOMAIN backlog :
            /\ backlog'[j] = backlog[jj]
            /\ backlog' = backlog => jj = j
            /\ backlog' # backlog => jj = j + 1
      BY <2>3
    <3>2. PICK kk \in DOMAIN backlog :
            /\ backlog'[k] = backlog[kk]
            /\ backlog' = backlog => kk = k
            /\ backlog' # backlog => kk = k + 1
      BY <2>3
    <3>3. j \in Int /\ k \in Int
      <4> HIDE DEF Calls
      <4>1. backlog' \in Seq(Calls)
        <5>1. backlog # <<>> => Tail(backlog) \in Seq(Calls)
          BY <1>0, HeadTailProperties
        <5>. QED
          BY <1>0, <1>22, <5>1
      <4>. QED
        BY <4>1
    <3>4. jj # kk
      BY <3>1, <3>2, <3>3
    <3>. QED
      BY <3>1, <3>2, <3>4
  <2>5. /\ stranded' \subseteq stranded
        /\ toServer' = toServer \/ toServer' = NoRequest
    BY <1>22
  <2>6. c \notin stranded' /\ c # toServer'.req
    BY <1>0, <1>22, <2>2
  <2>7. \A k \in DOMAIN backlog' :
          /\ runs'[backlog'[k]] = 0
          /\ backlog'[k] <= calls'
          /\ backlog'[k] # toServer'.req
          /\ backlog'[k] \notin stranded'
    <3>1. ASSUME NEW j \in DOMAIN backlog, backlog[j] # c
          PROVE  /\ runs'[backlog[j]] = 0
                 /\ backlog[j] <= calls'
                 /\ backlog[j] # toServer'.req
                 /\ backlog[j] \notin stranded'
      <4>1. /\ backlog[j] \in Calls /\ runs[backlog[j]] = 0
            /\ backlog[j] <= calls /\ backlog[j] # toServer.req
            /\ backlog[j] \notin stranded /\ backlog[j] # Nobody
        BY <1>0
      <4>. QED
        BY <1>22, <2>1, <2>2, <2>5, <3>1, <4>1
    <3>. QED
      BY <2>3, <3>1
  <2>8. pc \in ConnectPhases \/ (pc = "sendHeader" /\ i = 0) =>
          /\ runs'[calls] = 0 /\ calls \notin stranded'
          /\ toServer'.req # calls
          /\ \A k \in DOMAIN backlog' : backlog'[k] # calls
    <3> SUFFICES ASSUME pc \in ConnectPhases \/ (pc = "sendHeader" /\ i = 0)
                 PROVE  /\ runs'[calls] = 0 /\ calls \notin stranded'
                        /\ toServer'.req # calls
                        /\ \A k \in DOMAIN backlog' : backlog'[k] # calls
      OBVIOUS
    <3>1. calls \in Calls
      BY <1>0
    <3>2. /\ runs[calls] = 0 /\ calls \notin stranded /\ toServer.req # calls
          /\ \A k \in DOMAIN backlog : backlog[k] # calls
      OBVIOUS
    <3>3. c # calls
      <4>1. CASE backlog # <<>> /\ c = Head(backlog)
        <5>1. 1 \in DOMAIN backlog /\ c = backlog[1]
          BY <1>0, <4>1
        <5>. QED
          BY <3>2, <5>1
      <4>. QED
        BY <1>22, <3>2, <4>1
    <3>. QED
      BY <2>1, <2>2, <2>3, <2>5, <3>1, <3>2, <3>3
  <2>9. \A d \in stranded' : runs'[d] = 0 /\ d <= calls' /\ d # toServer'.req
    BY <1>0, <1>22, <2>1, <2>2, <2>5, <2>6, SMTT(30)
  <2>10. toServer'.req # Nobody => runs'[toServer'.req] = 0 /\ toServer'.req <= calls'
    BY <1>0, <1>22, <2>1, <2>2, <2>5, <2>6, SMTT(30)
  <2>11. toServer'.framed /\ toServer'.got > 0 => toServer'.req # Nobody
    BY <1>0, <2>2, <2>5
  <2>12. \A d \in Calls :
           /\ runs'[d] <= 1
           /\ d > calls' => runs'[d] = 0 /\ outcome'[d] = "none"
    <3> TAKE d \in Calls
    <3>1. runs[d] <= 1 /\ (d > calls => runs[d] = 0 /\ outcome[d] = "none")
      OBVIOUS
    <3>2. calls' = calls /\ outcome' = outcome /\ (d > calls => d # c)
      BY <1>0, <1>22
    <3>. QED
      BY <2>1, <3>1, <3>2
  <2>13. UNCHANGED <<pc, i, calls>>
    BY <1>22
  <2>14. \A k \in DOMAIN backlog' :
           /\ runs'[backlog'[k]] = 0
           /\ backlog'[k] <= calls'
           /\ backlog'[k] # toServer'.req
           /\ backlog'[k] \notin stranded'
           /\ \A j \in DOMAIN backlog' : j # k => backlog'[j] # backlog'[k]
    BY <2>4, <2>7
  <2>15. pc' \in ConnectPhases \/ (pc' = "sendHeader" /\ i' = 0) =>
           /\ runs'[calls'] = 0 /\ calls' \notin stranded'
           /\ toServer'.req # calls'
           /\ \A k \in DOMAIN backlog' : backlog'[k] # calls'
    BY <2>8, <2>13, Zenon
  <2>. QED
    BY <2>9, <2>10, <2>11, <2>12, <2>14, <2>15, ZenonT(30)
<1>23. ASSUME NEW r \in Responses, ServerAnswers(r) PROVE OnceInv'
  <2>1. PICK c \in Calls :
          /\ Answers(c, r) /\ runs[c] = 0 /\ c <= calls
          /\ \/ /\ backlog # <<>> /\ c = Head(backlog)
                /\ backlog' = Tail(backlog) /\ UNCHANGED toServer
             \/ /\ c = toServer.req /\ toServer' = NoRequest
                /\ UNCHANGED backlog
    BY <1>23, NextAnswered
  <2>2. UNCHANGED <<pc, i, calls, outcome, stranded>>
    BY <1>23 DEF ServerAnswers
  <2>. QED
    BY <1>22, <2>1, <2>2 DEF Answers
<1>24. ASSUME NEW r \in Responses, ServerMisreads(r) PROVE OnceInv'
  <2>1. NoRequest.req = Nobody /\ NoRequest.got = 0
    BY DEF NoRequest
  <2>. QED
    BY <1>0, <1>24, <2>1 DEF ServerMisreads
<1>25. ASSUME NEW c \in stranded, NEW r \in Responses, StrandedExecutes(c, r)
       PROVE  OnceInv'
  BY <1>0, <1>22, <1>25 DEF StrandedExecutes
<1>26. CASE ConnectionBreaks
  BY <1>3, <1>26 DEF ConnectionBreaks
<1>27. CASE UNCHANGED vars
  BY <1>1, <1>27 DEF vars
<1>. QED
  BY <1>6, <1>7, <1>8, <1>9, <1>10, <1>11, <1>12, <1>13, <1>14, <1>15, <1>16,
     <1>17, <1>18, <1>19, <1>20, <1>21, <1>23, <1>24, <1>25, <1>26, <1>27
  DEF Next, Consumer, Client, Server

\* The variables stay in their types.
THEOREM TypeCorrect == Spec => []TypeOK
<1>1. Init => TypeOK /\ SockInv /\ OnceInv
  BY TypeInit, SockInit, OnceInit
<1>2. TypeOK /\ SockInv /\ OnceInv /\ [Next]_vars
        => TypeOK' /\ SockInv' /\ OnceInv'
  BY TypeNext, SockNext, OnceNext
<1>. QED
  BY <1>1, <1>2, PTL DEF Spec

\* No request is executed twice, whatever fails and wherever memory runs out.
THEOREM ExecutedAtMostOnce == Spec => []AtMostOnce
<1>1. Init => TypeOK /\ SockInv /\ OnceInv
  BY TypeInit, SockInit, OnceInit
<1>2. TypeOK /\ SockInv /\ OnceInv /\ [Next]_vars
        => TypeOK' /\ SockInv' /\ OnceInv'
  BY TypeNext, SockNext, OnceNext
<1>3. OnceInv => AtMostOnce
  BY DEF OnceInv, AtMostOnce
<1>. QED
  BY <1>1, <1>2, <1>3, PTL DEF Spec

-----------------------------------------------------------------------------
(* The client and the server stay in step as long as the connection in use  *)
(* is not left in the middle: every step but BadAlloc keeps them so.        *)

Inv ==
    /\ TypeOK /\ SockInv /\ OnceInv /\ SendInv
    /\ StreamInv /\ ParseInv

\* What has been sent is less than the whole request until the last loop of
\* the last send is done.
LEMMA SentUnitsBound ==
    ASSUME TypeOK, SendInv, pc \in SendPhases
    PROVE  /\ SendLen \in Nat
           /\ SentUnits \in Nat
           /\ SentUnits = 0 <=> pc = "sendHeader" /\ i = 0
           /\ i < SendLen => SentUnits < WireLength(packet)
           /\ i = SendLen /\ sent = Len(packet.entries)
                => SentUnits = WireLength(packet)
           /\ i = SendLen /\ sent < Len(packet.entries)
                => /\ sent + 1 \in 1..Len(packet.entries)
                   /\ SentUnits = HeaderLen + packet.start[sent + 1]
<1> DEFINE n == Len(packet.entries)
<1>1. IsPacket(packet) /\ IsRequest(packet)
  BY AllPackets DEF TypeOK
<1>2. /\ n \in Nat
      /\ \A k \in 1..n : packet.entries[k] \in Entries
      /\ \A k \in 1..n + 1 : packet.start[k] \in Nat
      /\ WireLength(packet) \in Nat
      /\ WireLength(packet) = HeaderLen + packet.start[n + 1]
      /\ packet.start[1] = 0
  BY <1>1, PacketType
<1>3. \A k \in 1..n :
        /\ packet.start[k + 1] = packet.start[k] + getLength(packet.entries[k])
        /\ packet.start[k + 1] <= packet.start[n + 1]
  BY <1>1, RequestStarts
<1>4. i \in Nat /\ sent \in Nat /\ HeaderLen \in Nat /\ HeaderLen > 0
  BY HeaderLenAssumption DEF TypeOK
<1> HIDE DEF n
<1>5. CASE pc = "sendHeader"
  <2>1. sent = 0 /\ SendLen = HeaderLen /\ SentUnits = i
    BY <1>5 DEF SendInv, SendLen, SentUnits
  <2>2. packet.start[n + 1] \in Nat
    BY <1>2
  <2>. QED
    BY <1>2, <1>4, <1>5, <2>1, <2>2 DEF n
<1>6. CASE pc = "sendEntry"
  <2>1. /\ sent \in 1..n
        /\ SendLen = getLength(packet.entries[sent])
        /\ SentUnits = HeaderLen + packet.start[sent] + i
    BY <1>6 DEF SendInv, SendLen, SentUnits, n
  <2>2. /\ packet.start[sent] \in Nat
        /\ packet.start[sent + 1] \in Nat
        /\ packet.start[n + 1] \in Nat
        /\ packet.start[sent + 1] = packet.start[sent] + SendLen
    BY <1>2, <1>3, <2>1
  <2>3. SendLen \in Nat
    BY <1>2, <2>1, EntryLengthType
  <2>4. packet.start[sent + 1] <= packet.start[n + 1]
    BY <1>3, <2>1
  <2>5. SentUnits \in Nat /\ SentUnits > 0 /\ pc # "sendHeader"
    BY <1>4, <1>6, <2>1, <2>2
  <2>6. i < SendLen => SentUnits < WireLength(packet)
    BY <1>2, <1>4, <2>1, <2>2, <2>3, <2>4
  <2>7. i = SendLen => SentUnits = HeaderLen + packet.start[sent + 1]
    BY <1>4, <2>1, <2>2, <2>3
  <2>8. sent < n => sent + 1 \in 1..n
    BY <1>2, <2>1
  <2>9. i = SendLen /\ sent = n => SentUnits = WireLength(packet)
    BY <1>2, <2>7
  <2>. QED
    BY <2>3, <2>5, <2>6, <2>7, <2>8, <2>9 DEF n
<1>. QED
  BY <1>5, <1>6 DEF SendPhases

\* The entry headers and the lengths say the same about where a response ends.
LEMMA AnswerFacts ==
    ASSUME TypeOK, NEW c \in Calls
    PROVE  LET a == answer[c]
           IN  /\ Len(a.entries) \in Nat
               /\ DOMAIN a.entries = 1..Len(a.entries)
               /\ \A k \in 1..Len(a.entries) : a.entries[k] \in Entries
               /\ \A k \in 1..Len(a.entries) + 1 : a.start[k] \in Nat
               /\ a.start[1] = 0
               /\ \A k \in 1..Len(a.entries) :
                    a.start[k + 1] = a.start[k] + EntryLength(a.entries[k])
               /\ \A k \in 1..Len(a.entries) :
                    a.start[k] < a.start[Len(a.entries) + 1]
               /\ PacketLength(a) = a.start[Len(a.entries) + 1]
               /\ PacketLength(a) \in Nat
               /\ WireLength(a) = HeaderLen + PacketLength(a)
               /\ WireLength(a) \in Nat
               /\ WireLength(a) > 0
<1> DEFINE a == answer[c]
<1>1. IsPacket(a) /\ IsResponse(a)
  BY AnswerType
<1> HIDE DEF a
<1>2. \A k \in 1..Len(a.entries) :
        /\ a.start[k + 1] = a.start[k] + EntryLength(a.entries[k])
        /\ a.start[k] < a.start[Len(a.entries) + 1]
  BY <1>1, StartGrows
<1>3. PacketLength(a) = a.start[Len(a.entries) + 1]
  BY DEF PacketLength
<1>4. WireLength(a) = HeaderLen + PacketLength(a)
  BY DEF WireLength
<1>. QED
  BY <1>1, <1>2, <1>3, <1>4, PacketType DEF a

\* A loop of send or receive stops at the length it was given.
LEMMA SendInvNext ==
    ASSUME TypeOK, SockInv, OnceInv, SendInv, [Next]_vars
    PROVE  SendInv'
<1> USE DEF SendInv, ConnectPhases, SendPhases, RecvPhases, Idle, SendLen,
            RecvLen, objectVars, sendVars, recvVars, netVars, serverVars,
            callerVars
<1>0. TypeOK /\ SendInv
  OBVIOUS
<1>1. /\ i \in Nat /\ sent \in Nat /\ pc \in Phases
      /\ HeaderLen \in Nat /\ WordLen \in Nat /\ IDLength \in Nat
      /\ entry.len \in Nat
  BY <1>0, HeaderLenAssumption, WordLenAssumption, IDLengthAssumption
  DEF TypeOK, Entries
<1>2. ASSUME NEW kind, NEW place \in {"query", "sendHeader"}, Begin(kind, place)
      PROVE  SendInv'
  BY <1>1, <1>2 DEF Begin
<1>3. CASE throw_network_error
  BY <1>3 DEF throw_network_error, End
<1>4. CASE Query
  BY <1>2, <1>4 DEF Query
<1>5. ASSUME NEW p \in Requests, submit(p) PROVE SendInv'
  BY <1>2, <1>5 DEF submit
<1>6. CASE Destroy
  BY <1>6 DEF Destroy
<1>7. CASE GetSocket
  BY <1>0, <1>7 DEF GetSocket
<1>8. CASE ResolveHost
  BY <1>0, <1>8 DEF ResolveHost
<1>9. ASSUME NEW id \in ServerIDs, findConnection(id) PROVE SendInv'
  BY <1>0, <1>1, <1>9 DEF findConnection
<1>10. CASE ConnectFails \/ RejectVersion \/ SendFails \/ RecvFails
  BY <1>3, <1>10, ErrorsThrow
<1>11. CASE AcceptVersion
  BY <1>0, <1>1, <1>11 DEF AcceptVersion
<1>12. ASSUME NEW n \in 1..SendLen, pc \in SendPhases, Send(n) PROVE SendInv'
  <2>1. SendLen \in Nat
    BY <1>0, <1>12, SentUnitsBound
  <2>2. UNCHANGED <<pc, packet, sent>> /\ i' = i + n /\ n <= SendLen - i
    BY <1>12 DEF Send
  <2>3. UNCHANGED SendLen
    BY <2>2
  <2>4. i' <= SendLen'
    <3> HIDE DEF SendLen
    <3>. QED
      BY <1>1, <2>1, <2>2, <2>3
  <2>. QED
    BY <1>0, <1>12, <2>2, <2>4
<1>13. CASE NextSend
  <2>1. IsPacket(packet)
    BY <1>0, AllPackets DEF TypeOK
  <2>2. /\ Len(packet.entries) \in Nat
        /\ \A k \in 1..Len(packet.entries) :
             getLength(packet.entries[k]) \in Nat
    BY <2>1, PacketType, EntryLengthType
  <2>3. CASE sent < Len(packet.entries) /\ sent' = sent + 1 /\ pc' = "sendEntry"
    <3>1. sent' \in 1..Len(packet.entries) /\ packet' = packet /\ i' = 0
      BY <1>1, <1>13, <2>2, <2>3 DEF NextSend
    <3>. QED
      BY <2>2, <2>3, <3>1
  <2>4. CASE pc' = "recvHeader"
    BY <1>1, <1>13, <2>4 DEF NextSend
  <2>. QED
    BY <1>13, <2>3, <2>4 DEF NextSend
<1>14. ASSUME NEW n \in 1..RecvLen, Recv(n) PROVE SendInv'
  <2>1. UNCHANGED <<pc, entry, sent, bytesRead, responseLength>>
        /\ i' = i + n /\ n <= RecvLen - i
        /\ pc \in RecvPhases
    BY <1>14 DEF Recv
  <2>2. UNCHANGED RecvLen /\ RecvLen \in Nat
    BY <1>1, <2>1
  <2>3. i' <= RecvLen'
    <3> HIDE DEF RecvLen
    <3>. QED
      BY <1>1, <2>1, <2>2
  <2>. QED
    BY <1>0, <2>1, <2>3
<1>15. CASE ParseHeader
  BY <1>1, <1>15 DEF ParseHeader, LoopHead
<1>16. CASE ParseEntryHeader
  <2>1. entry' \in Entries
    BY <1>16, <1>0, TypeNext DEF TypeOK
  <2>. QED
    BY <1>1, <1>16, <2>1 DEF ParseEntryHeader, Entries
<1>17. CASE ParseLargeHeader
  BY <1>1, <1>17 DEF ParseLargeHeader
<1>18. CASE AppendEntry
  BY <1>1, <1>18 DEF AppendEntry, LoopHead
<1>19. CASE ReturnVersion \/ ReturnPacket \/ BadAlloc
  BY <1>19, FailsInCall DEF ReturnVersion, ReturnPacket, End
<1>20. ASSUME NEW r \in Responses, ServerAnswers(r) \/ ServerMisreads(r)
       PROVE  SendInv'
  BY <1>0, <1>20 DEF ServerAnswers, ServerMisreads
<1>21. ASSUME NEW c \in stranded, NEW r \in Responses, StrandedExecutes(c, r)
       PROVE  SendInv'
  BY <1>0, <1>21 DEF StrandedExecutes
<1>22. CASE ConnectionBreaks
  BY <1>0, <1>22 DEF ConnectionBreaks
<1>23. CASE UNCHANGED vars
  BY <1>0, <1>23 DEF vars
<1>. QED
  BY <1>4, <1>5, <1>6, <1>7, <1>8, <1>9, <1>10, <1>11, <1>12, <1>13, <1>14,
     <1>15, <1>16, <1>17, <1>18, <1>19, <1>20, <1>21, <1>22, <1>23
  DEF Next, Consumer, Client, Server

\* While a request is on its way or a response is being read, the two streams
\* hold exactly what the client has not sent and not read of them.
LEMMA StreamNext ==
    ASSUME Inv, ~BadAlloc, [Next]_vars
    PROVE  StreamInv'
<1> USE DEF StreamInv, ConnectPhases, SendPhases, RecvPhases, EntryPhases, Idle,
            objectVars, sendVars, recvVars, netVars, serverVars, callerVars
<1>0. TypeOK /\ SockInv /\ OnceInv /\ SendInv /\ StreamInv /\ ParseInv
  BY DEF Inv
<1>1. /\ i \in Nat /\ sent \in Nat /\ pc \in Phases /\ bytesRead \in Nat
      /\ HeaderLen \in Nat \ {0} /\ WordLen \in Nat \ {0}
      /\ IDLength \in Nat \ {0}
      /\ calls \in 0..MaxCalls
      /\ pc \notin Idle => calls \in Calls
      /\ link \in {"none", "fresh", "up", "fin", "rst"}
  BY <1>0, HeaderLenAssumption, WordLenAssumption, IDLengthAssumption
  DEF TypeOK, SockInv
<1>2. ASSUME NEW kind, NEW place \in {"query", "sendHeader"}, Begin(kind, place)
      PROVE  StreamInv'
  BY <1>0, <1>1, <1>2
  DEF Begin, Waiting, ReadUnits, SentUnits, SockInv, NoSocket
<1>3. CASE throw_network_error
  BY <1>3 DEF throw_network_error, disconnect, End
<1>4. CASE Query
  BY <1>2, <1>4 DEF Query
<1>5. ASSUME NEW p \in Requests, submit(p) PROVE StreamInv'
  BY <1>2, <1>5 DEF submit
<1>6. CASE Destroy
  BY <1>6 DEF Destroy, disconnect
<1>7. CASE GetSocket
  BY <1>0, <1>7 DEF GetSocket, SockInv, NoSocket
<1>8. CASE ResolveHost
  BY <1>0, <1>8 DEF ResolveHost
<1>9. ASSUME NEW id \in ServerIDs, findConnection(id) PROVE StreamInv'
  BY <1>0, <1>1, <1>9 DEF findConnection, Frame
<1>10. CASE ConnectFails \/ RejectVersion \/ SendFails \/ RecvFails
  BY <1>3, <1>10, ErrorsThrow
<1>11. CASE AcceptVersion
  <2>1. toClient = <<>> /\ toServer = NoRequest /\ link # "fresh"
    BY <1>0, <1>1, <1>11 DEF AcceptVersion, RecvLen, SockInv
  <2>2. UNCHANGED <<toClient, toServer, backlog, link>> /\ i' = 0
        /\ pc' \in {"query", "sendHeader"}
    BY <1>11 DEF AcceptVersion
  <2>. QED
    BY <1>0, <2>1, <2>2 DEF Waiting, ReadUnits, SentUnits
<1>12. ASSUME NEW n \in 1..SendLen, pc \in SendPhases, Send(n) PROVE StreamInv'
  <2>1. /\ UNCHANGED <<pc, packet, sent, calls, toClient, link, runs, answer, from>>
        /\ i' = i + n
        /\ n <= SendLen - i
        /\ \/ link = "up" /\ Receives(n)
           \/ link = "fin" /\ UNCHANGED <<toServer, backlog>>
    BY <1>12 DEF Send
  <2>2. SendLen \in Nat /\ n \in Nat /\ n > 0 /\ i < SendLen
    BY <1>0, <1>1, <1>12, <2>1, SentUnitsBound
  <2>3. SentUnits < WireLength(packet) /\ SentUnits \in Nat
        /\ (SentUnits = 0 <=> pc = "sendHeader" /\ i = 0)
    BY <1>0, <1>12, <2>2, SentUnitsBound
  <2>4. WireLength(packet) \in Nat
    BY <1>0, AllPackets, PacketType DEF TypeOK
  <2>5. Waiting
    BY <1>0, <1>12, <2>3, <2>4 DEF Answered
  <2>6. SentUnits' = SentUnits + n
    <3>1. CASE pc = "sendHeader"
      BY <2>1, <3>1 DEF SentUnits
    <3>2. CASE pc = "sendEntry"
      <4>1. packet.start[sent] \in Nat
        BY SMTT(30), <1>0, <3>2, AllPackets, PacketType DEF SendInv, TypeOK
      <4>. QED
        BY <1>1, <2>1, <2>2, <3>2, <4>1 DEF SentUnits
    <3>. QED
      BY <1>12, <3>1, <3>2
  <2>7. toClient' = <<>> /\ ReadUnits' = 0
    BY <1>12, <2>1, <2>5 DEF Waiting, ReadUnits
  <2>8. CASE link = "fin"
    BY <1>0, <1>12, <2>1, <2>7, <2>8 DEF Waiting
  <2>9. CASE link = "up" /\ SentUnits = 0
    <3>1. toServer = NoRequest /\ Receives(n)
      BY <2>1, <2>5, <2>9 DEF Waiting
    <3>2. /\ toServer' = [req |-> calls, got |-> n, need |-> WireLength(packet),
                          framed |-> TRUE]
          /\ backlog' = <<>>
      BY <1>0, <2>3, <2>9, <3>1 DEF Receives, Begins, Complete, NoRequest
    <3>3. SentUnits' = n /\ n # 0
      BY <2>2, <2>6, <2>9
    <3>4. Waiting'
      BY <2>1, <2>7, <3>2, <3>3 DEF Waiting
    <3>. QED
      BY <1>0, <1>12, <2>1, <2>7, <2>9, <3>2, <3>4
  <2>10. CASE link = "up" /\ SentUnits # 0
    <3>1. /\ toServer = [req |-> calls, got |-> SentUnits,
                         need |-> WireLength(packet), framed |-> TRUE]
          /\ Receives(n)
      BY <2>1, <2>5, <2>10 DEF Waiting
    <3>2. /\ toServer' = [toServer EXCEPT !.got = @ + n,
                                          !.framed = @ /\ toServer.req = calls]
          /\ backlog' = <<>>
      BY <1>0, <2>3, <2>10, <3>1 DEF Receives, Begins
    <3>3. toServer' = [req |-> calls, got |-> SentUnits + n,
                       need |-> WireLength(packet), framed |-> TRUE]
      BY <3>1, <3>2
    <3>4. SentUnits' # 0
      BY <2>2, <2>3, <2>6
    <3>5. Waiting'
      BY <2>1, <2>6, <2>7, <3>3, <3>4 DEF Waiting
    <3>. QED
      BY <1>0, <1>12, <2>1, <2>7, <2>10, <3>2, <3>5
  <2>. QED
    BY <2>1, <2>8, <2>9, <2>10
<1>13. CASE NextSend
  <2>1. /\ UNCHANGED <<packet, calls, toClient, toServer, backlog, link, runs,
                       answer, from, bytesRead>>
        /\ i' = 0 /\ i = SendLen
        /\ pc \in SendPhases
        /\ \/ sent < Len(packet.entries) /\ sent' = sent + 1 /\ pc' = "sendEntry"
           \/ sent = Len(packet.entries) /\ pc' = "recvHeader"
    BY <1>13 DEF NextSend
  <2>2. SentUnits' = SentUnits
    <3>1. CASE sent < Len(packet.entries) /\ sent' = sent + 1 /\ pc' = "sendEntry"
      <4>1. /\ sent + 1 \in 1..Len(packet.entries)
            /\ SentUnits = HeaderLen + packet.start[sent + 1]
        BY <1>0, <2>1, <3>1, SentUnitsBound
      <4>a. IsPacket(packet)
        BY <1>0, AllPackets DEF TypeOK
      <4>b. /\ Len(packet.entries) \in Nat
            /\ \A k \in 1..Len(packet.entries) + 1 : packet.start[k] \in Nat
        BY <4>a, PacketType
      <4>2. packet.start[sent + 1] \in Nat
        BY <4>1, <4>b
      <4>3. SentUnits' = HeaderLen + packet.start[sent + 1] + 0
        BY <2>1, <3>1 DEF SentUnits
      <4>. QED
        BY <1>1, <4>1, <4>2, <4>3
    <3>2. CASE sent = Len(packet.entries) /\ pc' = "recvHeader"
      <4>1. SentUnits = WireLength(packet)
        BY <1>0, <2>1, <3>2, SentUnitsBound
      <4>. QED
        BY <2>1, <3>2, <4>1 DEF SentUnits
    <3>. QED
      BY <2>1, <3>1, <3>2
  <2>3. ReadUnits' = 0 /\ ReadUnits = 0
    BY <2>1 DEF ReadUnits, Position
  <2>4. Waiting => Waiting'
    BY <2>1, <2>2, <2>3 DEF Waiting
  <2>5. Answered => Answered'
    BY <2>1, <2>2, <2>3 DEF Answered
  <2>. QED
    BY <1>0, <2>1, <2>4, <2>5
<1>14. ASSUME NEW n \in 1..RecvLen, Recv(n) PROVE StreamInv'
  <2> DEFINE f == Head(toClient)
  <2>1. /\ UNCHANGED <<pc, packet, sent, calls, toServer, backlog, link, runs,
                       answer, bytesRead>>
        /\ i' = i + n /\ n \in Nat /\ n > 0
        /\ link \in {"up", "fin"} /\ toClient # <<>>
        /\ pc \in RecvPhases
        /\ n <= f.size - f.off
        /\ from' = IF f.off = Position /\ (Position = 0 \/ from = f.from)
                     THEN f.from ELSE Nobody
        /\ toClient' = IF f.off + n = f.size
                         THEN Tail(toClient)
                         ELSE <<[f EXCEPT !.off = @ + n]>> \o Tail(toClient)
    BY <1>14 DEF Recv
  \* A stream of one frame: the head loses n units, or the frame is gone.
  <2>2. ASSUME NEW g, NEW size \in Nat, NEW off \in Nat,
               toClient = <<[from |-> g, size |-> size, off |-> off]>>
        PROVE  /\ f.from = g /\ f.off = off /\ f.size = size
               /\ toClient' = IF off + n = size THEN <<>>
                              ELSE <<[from |-> g, size |-> size, off |-> off + n]>>
    <3>1. f = [from |-> g, size |-> size, off |-> off] /\ Tail(toClient) = <<>>
      BY <2>2
    <3> HIDE DEF f
    <3>2. [f EXCEPT !.off = @ + n] = [from |-> g, size |-> size, off |-> off + n]
      BY <3>1
    <3>3. \A x : <<x>> \o <<>> = <<x>>
      <4>1. \A x : <<x>> \in Seq({x})
        OBVIOUS
      <4>. QED
        BY <4>1, ConcatEmptySeq
    <3>4. f.from = g /\ f.off = off /\ f.size = size
      BY <3>1
    <3>5. toClient' = IF off + n = size THEN <<>> ELSE <<[f EXCEPT !.off = @ + n]>> \o <<>>
      BY <2>1, <3>1, <3>4
    <3>. QED
      BY <3>2, <3>3, <3>4, <3>5
  <2>3. CASE pc = "recvID"
    <3>1. toClient = <<[from |-> Nobody, size |-> IDLength, off |-> i]>>
      BY <1>0, <2>1, <2>3
    <3>2. toClient' = IF i + n = IDLength THEN <<>>
                      ELSE <<[from |-> Nobody, size |-> IDLength, off |-> i + n]>>
      BY <1>1, <2>2, <3>1
    <3>. QED
      BY <1>0, <2>1, <2>3, <3>2
  <2>4. CASE pc # "recvID"
    <3>1. Answered
      BY <1>0, <2>1, <2>4 DEF Waiting
    <3>2. ReadUnits = Position /\ Position \in Nat
          /\ ReadUnits' = Position + n
      BY <1>1, <2>1, <2>4 DEF ReadUnits, Position
    <3>3. WireLength(answer[calls]) \in Nat
      BY <1>0, <1>1, <2>1, AnswerFacts
    <3>4. toClient = <<[from |-> calls, size |-> WireLength(answer[calls]),
                        off |-> ReadUnits]>>
      BY <2>1, <3>1 DEF Answered
    <3>5. /\ f.from = calls /\ f.off = Position
          /\ toClient' = IF Position + n = WireLength(answer[calls]) THEN <<>>
                         ELSE <<[from |-> calls, size |-> WireLength(answer[calls]),
                                 off |-> Position + n]>>
      BY <2>2, <3>2, <3>3, <3>4
    <3>6. from' = calls
      BY <2>1, <3>1, <3>2, <3>5 DEF Answered
    <3>7. UNCHANGED SentUnits
      BY <2>1, <2>4 DEF SentUnits
    <3>8. Answered'
      BY <2>1, <3>1, <3>2, <3>5, <3>6, <3>7 DEF Answered
    <3>. QED
      BY <1>0, <2>1, <2>4, <3>8
  <2>. QED
    BY <2>3, <2>4
<1>15. CASE ParseHeader
  <2>1. /\ pc = "recvHeader" /\ i = HeaderLen /\ i' = 0 /\ bytesRead' = 0
        /\ UNCHANGED <<packet, calls, toClient, toServer, backlog, link, runs,
                       answer, from>>
        /\ pc' \in {"recvEntryHeader", "return"}
    BY <1>15 DEF ParseHeader, LoopHead, RecvLen
  <2>2. ReadUnits = HeaderLen
    BY <2>1 DEF ReadUnits, Position
  <2>3. Answered /\ from = calls /\ calls \in Calls /\ from # Nobody
    BY <1>0, <1>1, <2>1, <2>2 DEF Waiting, Answered, Calls, Nobody
  <2>4. pc' = LoopHead(0, PacketLength(answer[calls]))
    BY <1>15, <2>3 DEF ParseHeader, HeadersHere
  <2>5. ReadUnits' = IF pc' = "return" THEN HeaderLen + 0 + 0 ELSE HeaderLen
    BY <1>1, <2>1 DEF ReadUnits, Position
  <2>6. SentUnits = WireLength(packet) /\ SentUnits' = WireLength(packet)
    BY <2>1 DEF SentUnits
  <2>7. Answered'
    BY <1>1, <2>1, <2>2, <2>3, <2>5, <2>6 DEF Answered
  <2>8. pc' = "return" => WireLength(answer[calls]) = HeaderLen
    BY <1>0, <1>1, <2>3, <2>4, AnswerFacts DEF LoopHead
  <2>9. pc' = "return" => toServer' = NoRequest /\ toClient' = <<>>
    BY <1>0, <2>1, <2>2, <2>3, <2>8 DEF Answered, SockInv
  <2>. QED
    BY <1>0, <2>1, <2>7, <2>9
<1>16. CASE ParseEntryHeader \/ ParseLargeHeader
  <2>1. /\ pc \in EntryPhases /\ pc' \in EntryPhases
        /\ i' = 0 /\ bytesRead' = bytesRead + i
        /\ UNCHANGED <<packet, calls, toClient, toServer, backlog, link, runs,
                       answer, from>>
    BY <1>16 DEF ParseEntryHeader, ParseLargeHeader
  <2>2. UNCHANGED <<SentUnits, ReadUnits>>
    BY <1>1, <2>1 DEF SentUnits, ReadUnits, Position
  <2>3. Answered'
    BY <1>0, <2>1, <2>2 DEF Answered
  <2>. QED
    BY <1>0, <2>1, <2>3
<1>17. CASE AppendEntry
  <2> DEFINE a == answer[calls]
             k == Len(entrylist)
  <2>1. /\ pc = "recvData" /\ i = entry.len
        /\ i' = 0 /\ bytesRead' = bytesRead + i
        /\ pc' = LoopHead(bytesRead + i, responseLength)
        /\ UNCHANGED <<packet, calls, toClient, toServer, backlog, link, runs,
                       answer, from>>
    BY <1>17 DEF AppendEntry, RecvLen
  <2>2. pc' \in {"recvEntryHeader", "return"}
    BY <2>1 DEF LoopHead
  <2>3. UNCHANGED <<SentUnits, ReadUnits>>
    BY <1>1, <2>1, <2>2 DEF SentUnits, ReadUnits, Position
  <2>4. Answered'
    BY <1>0, <2>1, <2>3 DEF Answered
  <2>5. pc' = "return" => toServer' = NoRequest /\ toClient' = <<>>
    <3> SUFFICES ASSUME pc' = "return"
                 PROVE  toServer' = NoRequest /\ toClient' = <<>>
      OBVIOUS
    <3>1. ~(bytesRead + i < responseLength)
      BY <2>1 DEF LoopHead
    <3>2. /\ responseLength = PacketLength(a)
          /\ bytesRead = a.start[k + 1] + EntryHeaderLength(a.entries[k + 1])
          /\ k < Len(a.entries)
          /\ entry = a.entries[k + 1]
          /\ k \in Nat
      <4>1. k \in Nat
        BY <1>0 DEF TypeOK
      <4>. QED
        BY <1>0, <2>1, <4>1 DEF ParseInv
    <3>3. calls \in Calls
      BY <1>1, <2>1
    <3>4. bytesRead + i = a.start[k + 2]
      <4> HIDE DEF a, k
      <4>1. k + 1 \in 1..Len(a.entries) /\ k + 1 + 1 = k + 2
        BY <1>0, <3>2, <3>3, AnswerFacts DEF a
      <4>2. /\ entry \in Entries
            /\ a.start[k + 1] \in Nat
            /\ a.start[k + 2] = a.start[k + 1] + EntryLength(entry)
        BY <1>0, <3>2, <3>3, <4>1, AnswerFacts DEF a
      <4>3. /\ EntryLength(entry) = EntryHeaderLength(entry) + entry.len
            /\ EntryHeaderLength(entry) \in Nat
            /\ entry.len \in Nat
        BY <4>2, EntryLengthType DEF Entries
      <4>. QED
        BY <2>1, <3>2, <4>2, <4>3, SMTT(30)
    <3>5. bytesRead + i = PacketLength(a)
      BY <1>0, <3>1, <3>2, <3>3, <3>4, AnswerFacts, SMTT(30)
    <3>6. ReadUnits = WireLength(a)
      BY SMTT(30), <1>0, <1>1, <2>1, <3>3, <3>5, AnswerFacts DEF ReadUnits, Position
    <3>. QED
      BY <1>0, <2>1, <3>6 DEF Answered, SockInv
  <2>. QED
    BY <1>0, <2>1, <2>2, <2>4, <2>5
<1>18. CASE ReturnVersion \/ ReturnPacket
  BY <1>0, <1>18 DEF ReturnVersion, ReturnPacket, End
<1>19. CASE BadAlloc
  BY <1>19
<1>20. ASSUME NEW r \in Responses, ServerAnswers(r) PROVE StreamInv'
  <2>1. /\ link = "up" /\ toServer.got > 0 /\ toServer.got = toServer.need
        /\ UNCHANGED <<pc, i, packet, sent, calls, link, from, bytesRead>>
        /\ toServer' = NoRequest /\ backlog' = <<>>
        /\ toClient' = Append(toClient, Frame(toServer.req, WireLength(r)))
        /\ Executes(toServer.req, r)
        /\ runs[toServer.req] = 0
        /\ toServer.framed
    BY <1>0, <1>20, NextAnswered DEF ServerAnswers, Answers, Complete
  <2>2. toServer # NoRequest
    BY <2>1 DEF NoRequest
  <2>3. pc \in SendPhases \cup {"recvHeader"} /\ Waiting /\ calls \in Calls
    BY <1>0, <1>1, <2>1, <2>2 DEF Answered, Phases
  <2>4. /\ toServer = [req |-> calls, got |-> SentUnits,
                       need |-> WireLength(packet), framed |-> TRUE]
        /\ toClient = <<>> /\ ReadUnits = 0
    BY <2>1, <2>2, <2>3 DEF Waiting
  <2>5. SentUnits = WireLength(packet) /\ toServer.req = calls
    BY <2>1, <2>4
  <2>6. runs'[calls] = 1 /\ answer'[calls] = r
    BY <1>0, <2>1, <2>3, <2>5 DEF Executes, TypeOK
  <2>7. WireLength(r) \in Nat /\ WireLength(r) > 0
    BY AllPackets, PacketType
  <2>8. toClient' = <<[from |-> calls, size |-> WireLength(r), off |-> 0]>>
    BY <2>1, <2>4, <2>5 DEF Frame
  <2>9. UNCHANGED <<SentUnits, ReadUnits>>
    BY <2>1 DEF SentUnits, ReadUnits, Position
  <2>10. Answered'
    BY <2>1, <2>4, <2>5, <2>6, <2>7, <2>8, <2>9 DEF Answered
  <2>. QED
    BY <1>0, <2>1, <2>3, <2>10
<1>21. ASSUME NEW r \in Responses, ServerMisreads(r) PROVE StreamInv'
  <2>1. link = "up" /\ ~toServer.framed
    BY <1>21 DEF ServerMisreads
  <2>2. NoRequest.framed
    BY DEF NoRequest
  <2>3. toServer.framed
    BY <1>0, <1>1, <2>1, <2>2 DEF Waiting, Answered, Phases
  <2>. QED
    BY <2>1, <2>3
<1>22. ASSUME NEW c \in stranded, NEW r \in Responses, StrandedExecutes(c, r)
       PROVE  StreamInv'
  <2>1. /\ runs[c] = 0 /\ Executes(c, r)
        /\ UNCHANGED <<pc, i, packet, sent, calls, toServer, backlog, toClient,
                       link, from, bytesRead>>
    BY <1>0, <1>22 DEF StrandedExecutes, OnceInv
  <2>2. UNCHANGED <<SentUnits, ReadUnits>>
    BY <2>1 DEF SentUnits, ReadUnits, Position
  <2>3. runs[calls] = 1 /\ calls \in Calls
          => runs'[calls] = 1 /\ answer'[calls] = answer[calls]
    BY <1>0, <2>1 DEF Executes, TypeOK
  <2>4. Waiting => Waiting'
    BY <2>1, <2>2 DEF Waiting
  <2>5. Answered /\ calls \in Calls => Answered'
    BY <2>1, <2>2, <2>3 DEF Answered
  <2>. QED
    BY <1>0, <1>1, <2>1, <2>4, <2>5
<1>23. CASE ConnectionBreaks
  <2>1. /\ UNCHANGED <<pc, i, packet, sent, calls, from, bytesRead, runs, answer>>
        /\ toServer' = NoRequest /\ backlog' = <<>>
        /\ link = "up" /\ link' \in {"fin", "rst"}
        /\ toClient' = IF link' = "fin" THEN toClient ELSE <<>>
    BY <1>23 DEF ConnectionBreaks
  <2>2. UNCHANGED <<SentUnits, ReadUnits>>
    BY <2>1 DEF SentUnits, ReadUnits, Position
  <2>3. Waiting => Waiting'
    BY <2>1, <2>2 DEF Waiting
  <2>4. Answered => Answered'
    BY <2>1, <2>2 DEF Answered
  <2>. QED
    BY <1>0, <2>1, <2>3, <2>4
<1>24. CASE UNCHANGED vars
  <2>1. UNCHANGED <<pc, i, packet, sent, calls, from, bytesRead, runs, answer,
                    toServer, backlog, toClient, link>>
    BY <1>24 DEF vars
  <2>2. UNCHANGED <<SentUnits, ReadUnits>>
    BY <2>1 DEF SentUnits, ReadUnits, Position
  <2>3. (Waiting => Waiting') /\ (Answered => Answered')
    BY <2>1, <2>2 DEF Waiting, Answered
  <2>. QED
    BY <1>0, <2>1, <2>3
<1>. QED
  BY <1>4, <1>5, <1>6, <1>7, <1>8, <1>9, <1>10, <1>11, <1>12, <1>13, <1>14,
     <1>15, <1>16, <1>17, <1>18, <1>19, <1>20, <1>21, <1>22, <1>23, <1>24
  DEF Next, Consumer, Client, Server

\* What the loop has parsed is the response to the call in progress.
LEMMA ParseNext ==
    ASSUME Inv, ~BadAlloc, [Next]_vars
    PROVE  ParseInv'
<1> USE DEF ConnectPhases, SendPhases, RecvPhases, EntryPhases, Idle, objectVars,
            sendVars, recvVars, netVars, serverVars, callerVars
<1> DEFINE Parsed == <<pc, calls, from, responseLength, responseCmd, entrylist,
                       bytesRead, entry>>
           Elsewhere == pc' \notin EntryPhases \cup {"return"}
<1>0. TypeOK /\ SockInv /\ OnceInv /\ SendInv /\ StreamInv /\ ParseInv
  BY DEF Inv
<1>1. /\ i \in Nat /\ bytesRead \in Nat /\ HeaderLen \in Nat \ {0}
      /\ WordLen \in Nat \ {0}
      /\ pc \notin Idle => calls \in Calls
      /\ Len(entrylist) \in Nat
  BY <1>0, HeaderLenAssumption, WordLenAssumption DEF TypeOK, SockInv
<1>2. Elsewhere => ParseInv'
  BY DEF ParseInv
<1>3. ASSUME UNCHANGED Parsed,
             pc \in EntryPhases \cup {"return"} =>
               runs'[calls] = runs[calls] /\ answer'[calls] = answer[calls]
      PROVE  ParseInv'
  <2>. CASE pc \in EntryPhases \cup {"return"}
    BY <1>0, <1>3 DEF ParseInv
  <2>. QED
    BY <1>2, <1>3
<1>4. CASE \/ Query
           \/ \E p \in Requests : submit(p)
           \/ Destroy
  BY <1>2, <1>4 DEF Query, submit, Begin, Destroy
<1>5. CASE \/ GetSocket
           \/ ResolveHost
           \/ \E id \in ServerIDs : findConnection(id)
           \/ ConnectFails
           \/ AcceptVersion
           \/ RejectVersion
           \/ SendFails
           \/ RecvFails
           \/ NextSend
           \/ ReturnVersion
           \/ ReturnPacket
  BY <1>2, <1>5, ErrorsThrow
  DEF GetSocket, ResolveHost, findConnection, AcceptVersion, NextSend,
      ReturnVersion, ReturnPacket, throw_network_error, End
<1>6. ASSUME NEW n \in 1..SendLen, pc \in SendPhases, Send(n) PROVE ParseInv'
  BY <1>2, <1>6 DEF Send
<1>7. ASSUME NEW n \in 1..RecvLen, Recv(n) PROVE ParseInv'
  <2>1. UNCHANGED <<pc, calls, responseLength, responseCmd, entrylist,
                    bytesRead, entry, runs, answer, link>>
        /\ i' = i + n /\ n \in Nat /\ n > 0
    BY <1>7 DEF Recv
  <2>2. CASE pc \in EntryPhases
    <3>1. Answered'
      BY StreamNext, <2>1, <2>2 DEF StreamInv
    <3>2. ReadUnits' > 0
      BY <1>1, <2>1, <2>2 DEF ReadUnits, Position
    <3>3. from' = calls /\ from = calls
      BY <1>0, <2>1, <2>2, <3>1, <3>2 DEF Answered, ParseInv
    <3>. QED
      BY <1>3, <2>1, <3>3
  <2>3. CASE pc \notin EntryPhases
    BY <1>2, <1>7, <2>1, <2>3 DEF Recv
  <2>. QED
    BY <2>2, <2>3
<1>8. CASE ParseHeader
  <2> DEFINE a == answer[calls]
  <2>1. /\ pc = "recvHeader" /\ i = HeaderLen /\ bytesRead' = 0
        /\ entrylist' = <<>>
        /\ UNCHANGED <<calls, runs, answer, from>>
    BY <1>8 DEF ParseHeader, RecvLen
  <2>2. ReadUnits = HeaderLen
    BY <2>1 DEF ReadUnits, Position
  <2>3. Answered /\ from = calls /\ calls \in Calls /\ from # Nobody
    BY <1>0, <1>1, <2>1, <2>2 DEF StreamInv, Waiting, Answered, Calls, Nobody
  <2>4. /\ responseLength' = PacketLength(a)
        /\ responseCmd' = a.cmd
        /\ pc' = LoopHead(0, PacketLength(a))
    BY <1>8, <2>3 DEF ParseHeader, HeadersHere
  <2>5. Len(entrylist') = 0
    BY <2>1
  <2>6. /\ Len(a.entries) \in Nat
        /\ PacketLength(a) = a.start[Len(a.entries) + 1]
        /\ PacketLength(a) \in Nat
        /\ a.start[1] = 0
        /\ \A k \in 1..Len(a.entries) : a.start[k] < a.start[Len(a.entries) + 1]
    BY <1>0, <2>3, AnswerFacts
  <2> HIDE DEF a
  <2>7. pc' = "return" <=> Len(a.entries) = 0
    <3>1. CASE Len(a.entries) = 0
      BY <2>4, <2>6, <3>1 DEF LoopHead
    <3>2. CASE Len(a.entries) # 0
      <4>1. 1 \in 1..Len(a.entries)
        BY <2>6, <3>2
      <4>2. 0 < PacketLength(a)
        BY <2>6, <4>1
      <4>. QED
        BY <2>4, <3>2, <4>2 DEF LoopHead
    <3>. QED
      BY <3>1, <3>2
  <2>8. pc' \in {"recvEntryHeader", "return"}
    BY <2>4 DEF LoopHead
  <2>9. runs[calls] = 1
    BY <2>3 DEF Answered
  <2>. QED
    BY <2>1, <2>3, <2>4, <2>5, <2>6, <2>7, <2>8, <2>9 DEF ParseInv, a
<1>9. CASE ParseEntryHeader
  <2> DEFINE a == answer[calls]
             k == Len(entrylist)
  <2>1. /\ pc = "recvEntryHeader" /\ i = WordLen
        /\ bytesRead' = bytesRead + WordLen
        /\ UNCHANGED <<calls, runs, answer, from, responseLength, responseCmd,
                       entrylist>>
        /\ pc' = IF entry'.large THEN "recvLargeHeader" ELSE "recvData"
    BY <1>9 DEF ParseEntryHeader, RecvLen
  <2>2. /\ from = calls /\ runs[calls] = 1 /\ calls \in Calls
        /\ k < Len(a.entries) /\ bytesRead = a.start[k + 1]
    BY <1>0, <1>1, <2>1 DEF ParseInv
  <2>3. from # Nobody /\ k + 1 \in DOMAIN a.entries
    BY <1>0, <1>1, <2>2, AnswerFacts DEF Calls, Nobody
  <2>4. entry' = a.entries[k + 1]
    BY <1>9, <2>2, <2>3 DEF ParseEntryHeader, EntriesHere
  <2>. QED
    BY <1>0, <2>1, <2>2, <2>4 DEF ParseInv, EntryHeaderLength
<1>10. CASE ParseLargeHeader
  <2> DEFINE a == answer[calls]
             k == Len(entrylist)
  <2>1. /\ pc = "recvLargeHeader" /\ i = WordLen /\ pc' = "recvData"
        /\ bytesRead' = bytesRead + WordLen
        /\ UNCHANGED <<calls, runs, answer, from, responseLength, responseCmd,
                       entrylist, entry>>
    BY <1>10 DEF ParseLargeHeader, RecvLen
  <2>2. /\ calls \in Calls /\ k < Len(a.entries) /\ k \in Nat
        /\ bytesRead = a.start[k + 1] + WordLen /\ entry.large
    BY <1>0, <1>1, <2>1 DEF ParseInv
  <2>3. k + 1 \in 1..Len(a.entries) + 1
    BY <1>0, <2>2, AnswerFacts
  <2>4. a.start[k + 1] \in Nat
    BY <1>0, <2>2, <2>3, AnswerFacts
  <2>5. bytesRead' = a.start[k + 1] + EntryHeaderLength(entry)
    BY <1>1, <2>1, <2>2, <2>4, SMTT(30) DEF EntryHeaderLength
  <2>. QED
    BY <1>0, <2>1, <2>5 DEF ParseInv
<1>11. CASE AppendEntry
  <2> DEFINE a == answer[calls]
             k == Len(entrylist)
             n == Len(a.entries)
  <2>1. /\ pc = "recvData" /\ i = entry.len
        /\ bytesRead' = bytesRead + i
        /\ entrylist' = Append(entrylist, entry)
        /\ pc' = LoopHead(bytesRead + i, responseLength)
        /\ UNCHANGED <<calls, runs, answer, from, responseLength, responseCmd>>
    BY <1>11 DEF AppendEntry, RecvLen
  <2>2. /\ calls \in Calls /\ k \in Nat
        /\ from = calls /\ runs[calls] = 1
        /\ responseLength = PacketLength(a)
        /\ responseCmd = a.cmd
        /\ k < n
        /\ \A j \in 1..k : entrylist[j] = a.entries[j]
        /\ bytesRead = a.start[k + 1] + EntryHeaderLength(entry)
        /\ entry = a.entries[k + 1]
    BY <1>0, <1>1, <2>1 DEF ParseInv
  <2>3. /\ n \in Nat
        /\ \A j \in 1..n : a.entries[j] \in Entries
        /\ \A j \in 1..n + 1 : a.start[j] \in Nat
        /\ \A j \in 1..n : a.start[j + 1] = a.start[j] + EntryLength(a.entries[j])
        /\ \A j \in 1..n : a.start[j] < a.start[n + 1]
        /\ PacketLength(a) = a.start[n + 1]
    BY <1>0, <2>2, AnswerFacts
  <2>4. /\ entrylist \in Seq(Entries)
        /\ Len(entrylist') = k + 1
        /\ \A j \in 1..k : entrylist'[j] = entrylist[j]
        /\ entrylist'[k + 1] = entry
    BY <1>0, <2>1 DEF TypeOK
  <2> HIDE DEF a, k, n
  <2>5. k + 1 \in 1..n /\ k + 1 + 1 = k + 2 /\ k + 1 <= n
    BY <2>2, <2>3
  <2>6. bytesRead' = a.start[k + 2] /\ a.start[k + 2] \in Nat
    <3>1. /\ entry \in Entries
          /\ a.start[k + 1] \in Nat
          /\ a.start[k + 2] = a.start[k + 1] + EntryLength(entry)
      BY <2>2, <2>3, <2>5
    <3>2. /\ EntryLength(entry) = EntryHeaderLength(entry) + entry.len
          /\ EntryHeaderLength(entry) \in Nat
          /\ entry.len \in Nat
      BY <3>1, EntryLengthType DEF Entries
    <3>. QED
      BY SMTT(30), <2>1, <2>2, <3>1, <3>2
  <2>7. \A j \in 1..k + 1 : entrylist'[j] = a.entries[j]
    BY <2>2, <2>4
  <2>8. /\ pc' \in {"recvEntryHeader", "return"}
        /\ pc' = "return" <=> k + 1 = n
    <3>1. pc' = IF a.start[k + 2] < a.start[n + 1] THEN "recvEntryHeader"
                ELSE "return"
      BY <2>1, <2>2, <2>3, <2>6 DEF LoopHead
    <3>2. CASE k + 1 = n
      BY <2>6, <3>1, <3>2, <2>5
    <3>3. CASE k + 1 # n
      <4>1. k + 2 \in 1..n
        BY <2>2, <2>3, <2>5, <3>3
      <4>. QED
        BY <2>3, <3>1, <3>3, <4>1
    <3>. QED
      BY <3>2, <3>3
  <2>9. a' = a /\ Len(entrylist') = k + 1
    BY <2>1, <2>4 DEF a
  <2>10. k + 1 # n => k + 1 < n
    BY <2>3, <2>5
  <2>. QED
    BY <2>1, <2>2, <2>4, <2>5, <2>6, <2>7, <2>8, <2>9, <2>10 DEF ParseInv, a, n
<1>12. CASE BadAlloc
  BY <1>12
<1>13. ASSUME NEW c \in Calls, NEW r, Executes(c, r), runs[c] = 0,
              UNCHANGED Parsed
       PROVE  ParseInv'
  <2>1. ASSUME pc \in EntryPhases \cup {"return"}
        PROVE  runs'[calls] = runs[calls] /\ answer'[calls] = answer[calls]
    <3>1. calls \in Calls /\ runs[calls] = 1
      BY <1>0, <1>1, <2>1 DEF ParseInv
    <3>. QED
      BY <1>0, <1>13, <3>1 DEF Executes, TypeOK
  <2>. QED
    BY <1>3, <1>13, <2>1
<1>14. ASSUME NEW r \in Responses, ServerAnswers(r) PROVE ParseInv'
  <2>1. PICK c \in Calls : Executes(c, r) /\ runs[c] = 0
    BY <1>0, <1>14, NextAnswered DEF Answers
  <2>. QED
    BY <1>13, <1>14, <2>1 DEF ServerAnswers
<1>15. ASSUME NEW c \in stranded, NEW r \in Responses, StrandedExecutes(c, r)
       PROVE  ParseInv'
  <2>1. c \in Calls /\ runs[c] = 0
    BY <1>0 DEF OnceInv, TypeOK
  <2>. QED
    BY <1>13, <1>15, <2>1 DEF StrandedExecutes
<1>16. CASE \/ \E r \in Responses : ServerMisreads(r)
            \/ ConnectionBreaks
            \/ UNCHANGED vars
  BY <1>3, <1>16 DEF ServerMisreads, ConnectionBreaks, vars
<1>. QED
  BY <1>4, <1>5, <1>6, <1>7, <1>8, <1>9, <1>10, <1>11, <1>12, <1>14, <1>15,
     <1>16
  DEF Next, Consumer, Client, Server

\* The string kept across connections is the one of the current connection.
LEMMA VersionNext ==
    ASSUME TypeOK, SockInv, VersionCurrent, ~BadAlloc, [Next]_vars
    PROVE  VersionCurrent'
<1> USE DEF VersionCurrent, ConnectPhases, SendPhases, RecvPhases, objectVars,
            sendVars, recvVars, netVars, serverVars, callerVars
<1>1. CASE throw_network_error
  BY <1>1 DEF throw_network_error, disconnect
<1>2. CASE Consumer
  BY <1>2 DEF Consumer, Query, submit, Begin, Destroy, disconnect, SockInv
<1>3. CASE ConnectFails \/ RejectVersion \/ SendFails \/ RecvFails
  BY <1>1, <1>3, ErrorsThrow
<1>4. CASE \/ GetSocket
           \/ ResolveHost
           \/ \E id \in ServerIDs : findConnection(id)
           \/ AcceptVersion
  BY <1>4 DEF GetSocket, ResolveHost, findConnection, AcceptVersion
<1>5. CASE \/ pc \in SendPhases /\ \E n \in 1..SendLen : Send(n)
           \/ NextSend
           \/ \E n \in 1..RecvLen : Recv(n)
           \/ ParseHeader
           \/ ParseEntryHeader
           \/ ParseLargeHeader
           \/ AppendEntry
           \/ ReturnVersion
           \/ ReturnPacket
  BY <1>5
  DEF Send, NextSend, Recv, ParseHeader, ParseEntryHeader, ParseLargeHeader,
      AppendEntry, ReturnVersion, ReturnPacket, End
<1>6. CASE BadAlloc
  BY <1>6
<1>7. CASE Server \/ ConnectionBreaks \/ UNCHANGED vars
  BY <1>7
  DEF Server, ServerAnswers, ServerMisreads, StrandedExecutes,
      ConnectionBreaks, vars
<1>. QED
  BY <1>2, <1>3, <1>4, <1>5, <1>6, <1>7 DEF Next, Client

-----------------------------------------------------------------------------
(* Calls begin, end and leave their traces. *)

\* What a step may do to the number of calls and to how they ended.
LEMMA OutcomeStep ==
    ASSUME [Next]_vars
    PROVE  \/ UNCHANGED <<calls, outcome>>
           \/ pc = "idle" /\ calls' = calls + 1 /\ UNCHANGED <<m_iSock, outcome>>
           \/ throw_network_error /\ pc \notin Idle
           \/ BadAlloc
           \/ ReturnVersion
           \/ ReturnPacket
<1> USE DEF Idle, ConnectPhases, SendPhases, RecvPhases, objectVars, sendVars,
            recvVars, netVars, serverVars, callerVars
<1>1. CASE Query \/ \E p \in Requests : submit(p)
  BY <1>1 DEF Query, submit, Begin
<1>2. CASE Destroy
  BY <1>2 DEF Destroy
<1>3. CASE ConnectFails \/ RejectVersion \/ SendFails \/ RecvFails
  BY <1>3, ErrorsThrow
<1>4. CASE \/ GetSocket
           \/ ResolveHost
           \/ \E id \in ServerIDs : findConnection(id)
           \/ AcceptVersion
           \/ \E n \in 1..SendLen : Send(n)
           \/ NextSend
           \/ \E n \in 1..RecvLen : Recv(n)
           \/ ParseHeader
           \/ ParseEntryHeader
           \/ ParseLargeHeader
           \/ AppendEntry
  BY <1>4
  DEF GetSocket, ResolveHost, findConnection, AcceptVersion, Send, NextSend,
      Recv, ParseHeader, ParseEntryHeader, ParseLargeHeader, AppendEntry
<1>5. CASE Server \/ ConnectionBreaks \/ UNCHANGED vars
  BY <1>5
  DEF Server, ServerAnswers, ServerMisreads, StrandedExecutes,
      ConnectionBreaks, vars
<1>. QED
  BY <1>1, <1>2, <1>3, <1>4, <1>5 DEF Next, Consumer, Client

\* How a call ends is recorded once, under its own number.
LEMMA EndEffect ==
    ASSUME TypeOK, SockInv, NEW result, End(result), pc \notin Idle
    PROVE  /\ pc' = "idle" /\ calls' = calls /\ calls \in Calls
           /\ outcome'[calls] = result
           /\ \A c \in Calls : c # calls => outcome'[c] = outcome[c]
BY DEF TypeOK, SockInv, End

\* Whether the failures before a call were repaired is decided before it.
LEMMA RepairedLocal ==
    ASSUME NEW c \in Int, \A d \in Calls : d < c => outcome'[d] = outcome[d]
    PROVE  RepairedBefore(c)' <=> RepairedBefore(c)
<1>1. Calls \subseteq Int
  BY MaxCallsAssumption DEF Calls
<1>2. \A d, e \in Calls : e < c => outcome'[e] = outcome[e]
  OBVIOUS
<1>. QED
  BY <1>1, <1>2 DEF RepairedBefore

\* While a call runs, its own number is no part of the history to repair.
LEMMA RepairedNow ==
    ASSUME TypeOK, calls \in Calls, outcome[calls] = "none"
    PROVE  RepairedBefore(calls + 1) <=> RepairedBefore(calls)
<1>1. Calls \subseteq Int
  BY MaxCallsAssumption DEF Calls
<1>2. \A d \in Calls : d < calls + 1 <=> d < calls \/ d = calls
  BY <1>1
<1>. QED
  BY <1>1, <1>2 DEF RepairedBefore

\* The call in progress has not ended.
LEMMA CallNext ==
    ASSUME TypeOK, SockInv, OnceInv, CallInv, [Next]_vars
    PROVE  CallInv'
<1> USE DEF CallInv, ConnectPhases, SendPhases, RecvPhases, Idle, objectVars,
            sendVars, recvVars, netVars, serverVars, callerVars
<1>0. pc \in Phases /\ calls \in 0..MaxCalls /\ op \in {"query", "submit"}
  BY DEF TypeOK
<1>1. ASSUME NEW kind, NEW place,
             <<kind, place>> \in {<<"query", "query">>, <<"submit", "sendHeader">>},
             Begin(kind, place)
      PROVE  CallInv'
  <2>1. calls + 1 \in Calls /\ calls + 1 > calls
    BY <1>0, <1>1, MaxCallsAssumption DEF Begin, Calls
  <2>2. outcome'[calls'] = "none"
    BY <1>1, <2>1 DEF Begin, OnceInv
  <2>. QED
    BY <1>1, <2>2 DEF Begin
<1>2. CASE Query
  BY <1>1, <1>2 DEF Query
<1>3. CASE \E p \in Requests : submit(p)
  BY <1>1, <1>3 DEF submit
<1>4. CASE Destroy
  BY <1>4 DEF Destroy
<1>5. CASE \/ throw_network_error
           \/ ReturnVersion
           \/ ReturnPacket
           \/ BadAlloc
  BY <1>5, FailsInCall
  DEF throw_network_error, ReturnVersion, ReturnPacket, End
<1>6. CASE ConnectFails \/ RejectVersion \/ SendFails \/ RecvFails
  BY <1>5, <1>6, ErrorsThrow
<1>7. CASE \/ GetSocket
           \/ ResolveHost
           \/ \E id \in ServerIDs : findConnection(id)
           \/ AcceptVersion
  BY <1>0, <1>7 DEF GetSocket, ResolveHost, findConnection, AcceptVersion
<1>8. CASE \/ \E n \in 1..SendLen : Send(n)
           \/ NextSend
           \/ \E n \in 1..RecvLen : Recv(n)
           \/ ParseHeader
           \/ ParseEntryHeader
           \/ ParseLargeHeader
           \/ AppendEntry
  BY <1>8
  DEF Send, NextSend, Recv, ParseHeader, ParseEntryHeader, ParseLargeHeader,
      AppendEntry, LoopHead
<1>9. CASE Server \/ ConnectionBreaks \/ UNCHANGED vars
  BY <1>9
  DEF Server, ServerAnswers, ServerMisreads, StrandedExecutes,
      ConnectionBreaks, vars
<1>. QED
  BY <1>2, <1>3, <1>4, <1>5, <1>6, <1>7, <1>8, <1>9 DEF Next, Consumer, Client

\* Who obtains and who gives up a socket.
LEMMA SockStep ==
    ASSUME [Next]_vars
    PROVE  UNCHANGED m_iSock \/ m_iSock' = NoSocket \/ GetSocket
<1> USE DEF Idle, ConnectPhases, SendPhases, RecvPhases, objectVars, sendVars,
            recvVars, netVars, serverVars, callerVars
<1>1. CASE Query \/ \E p \in Requests : submit(p)
  BY <1>1 DEF Query, submit, Begin
<1>2. CASE Destroy \/ GetSocket
  BY <1>2 DEF Destroy, disconnect
<1>3. CASE ConnectFails \/ RejectVersion \/ SendFails \/ RecvFails
  BY <1>3, ErrorsThrow DEF throw_network_error, disconnect
<1>4. CASE \/ ResolveHost
           \/ \E id \in ServerIDs : findConnection(id)
           \/ AcceptVersion
           \/ \E n \in 1..SendLen : Send(n)
           \/ NextSend
           \/ \E n \in 1..RecvLen : Recv(n)
           \/ ParseHeader
           \/ ParseEntryHeader
           \/ ParseLargeHeader
           \/ AppendEntry
  BY <1>4
  DEF ResolveHost, findConnection, AcceptVersion, Send, NextSend, Recv,
      ParseHeader, ParseEntryHeader, ParseLargeHeader, AppendEntry
<1>5. CASE ReturnVersion \/ ReturnPacket \/ BadAlloc
  BY <1>5
  DEF ReturnVersion, ReturnPacket, BadAlloc, BadAllocConnected,
      BadAllocDisconnected, disconnect
<1>6. CASE Server \/ ConnectionBreaks \/ UNCHANGED vars
  BY <1>6
  DEF Server, ServerAnswers, ServerMisreads, StrandedExecutes,
      ConnectionBreaks, vars
<1>. QED
  BY <1>1, <1>2, <1>3, <1>4, <1>5, <1>6 DEF Next, Consumer, Client

\* A call that throws a NetworkError has no socket any more.
LEMMA RepairNext ==
    ASSUME TypeOK, SockInv, OnceInv, CallInv, RepairInv, [Next]_vars
    PROVE  RepairInv'
<1>0. /\ calls \in 0..MaxCalls /\ Calls \subseteq Int /\ m_iSock \in Int
      /\ MaxCalls \in Nat
      /\ pc \notin Idle => calls \in Calls
      /\ m_iSock # NoSocket => m_iSock <= calls
      /\ calls' \in 0..MaxCalls
  <2>1. calls' \in 0..MaxCalls
    <3>1. TypeOK'
      BY TypeNext
    <3>. QED
      BY <3>1 DEF TypeOK
  <2>. QED
    BY <2>1, MaxCallsAssumption DEF TypeOK, SockInv, Calls, NoSocket
<1>1. CASE m_iSock' = NoSocket
  BY <1>1 DEF RepairInv
<1>2. CASE GetSocket
  <2>1. /\ pc = "socket" /\ m_iSock' = calls /\ UNCHANGED <<calls, outcome>>
    BY <1>2 DEF GetSocket, callerVars
  <2>2. outcome[calls] = "none"
    BY <2>1 DEF CallInv, Idle
  <2>3. \A c \in calls..calls : c = calls
    BY <1>0
  <2>. QED
    BY <2>1, <2>2, <2>3 DEF RepairInv
<1>3. CASE UNCHANGED m_iSock /\ m_iSock # NoSocket
  <2>1. \A c \in m_iSock..calls : outcome[c] # "NetworkError"
    BY <1>3 DEF RepairInv
  <2>2. CASE UNCHANGED <<calls, outcome>>
    BY <1>3, <2>1, <2>2 DEF RepairInv
  <2>3. CASE calls' = calls + 1 /\ UNCHANGED outcome
    <3>1. calls + 1 \in Calls /\ outcome[calls + 1] = "none"
      BY <1>0, <2>3 DEF OnceInv, Calls
    <3>2. \A c \in m_iSock..calls + 1 : c \in m_iSock..calls \/ c = calls + 1
      BY <1>0
    <3>. QED
      BY <1>3, <2>1, <2>3, <3>1, <3>2 DEF RepairInv
  <2>4. ASSUME NEW result \in {"version", "packet", "bad_alloc"}, End(result),
               pc \notin Idle
        PROVE  RepairInv'
    <3>1. /\ calls' = calls /\ outcome'[calls] = result
          /\ \A c \in Calls : c # calls => outcome'[c] = outcome[c]
      BY <2>4, EndEffect
    <3>2. \A c \in m_iSock..calls : c \in Calls
      BY <1>0, <1>3, <2>4 DEF TypeOK, Calls, NoSocket
    <3>. QED
      BY <1>3, <2>1, <2>4, <3>1, <3>2 DEF RepairInv
  <2>5. CASE ReturnVersion \/ ReturnPacket \/ BadAlloc
    BY <2>4, <2>5, FailsInCall DEF ReturnVersion, ReturnPacket, Idle
  <2>6. ~throw_network_error
    BY <1>3 DEF throw_network_error, disconnect
  <2>. QED
    BY <2>2, <2>3, <2>5, <2>6, OutcomeStep
<1>. QED
  BY <1>1, <1>2, <1>3, SockStep

\* A connection that is intact after a step was so before it, and the step did
\* not fail to allocate: nothing makes a connection whole again.
LEMMA IntactStep ==
    ASSUME TypeOK, SockInv, CallInv, [Next]_vars, Intact', m_iSock' # NoSocket
    PROVE  Intact /\ ~BadAlloc
<1>0. /\ calls \in 0..MaxCalls /\ m_iSock \in Int /\ Calls \subseteq Int
      /\ m_iSock # NoSocket => m_iSock <= calls /\ m_iSock \in Calls
      /\ pc \notin Idle => calls \in Calls
  BY MaxCallsAssumption DEF TypeOK, SockInv, Calls, NoSocket
<1>1. \A c \in m_iSock'..calls' : outcome'[c] # "bad_alloc"
  BY DEF Intact
<1>2. ~BadAlloc
  <2> SUFFICES ASSUME BadAlloc PROVE FALSE
    OBVIOUS
  <2>1. calls' = calls /\ calls \in Calls /\ outcome'[calls] = "bad_alloc"
    BY FailsInCall, EndEffect
  <2>2. UNCHANGED m_iSock
    BY DEF BadAlloc, BadAllocConnected, BadAllocDisconnected, disconnect
  <2>3. calls \in m_iSock..calls
    BY <1>0, <2>1, <2>2
  <2>. QED
    BY <1>1, <2>1, <2>2, <2>3
<1>3. CASE GetSocket
  BY <1>2, <1>3 DEF GetSocket, SockInv, Intact
<1>4. CASE UNCHANGED m_iSock
  <2> SUFFICES ASSUME NEW c \in m_iSock..calls, outcome[c] = "bad_alloc"
               PROVE  FALSE
    BY <1>2 DEF Intact
  <2>1. c \in Calls /\ c \in Int /\ c <= calls /\ m_iSock <= c
    BY <1>0, <1>4, MaxCallsAssumption DEF Calls
  <2>2. CASE UNCHANGED <<calls, outcome>>
    BY <1>1, <1>4, <2>2
  <2>3. CASE calls' = calls + 1 /\ UNCHANGED outcome
    <3>1. c \in m_iSock..calls + 1
      BY <1>0, <2>1
    <3>. QED
      BY <1>1, <1>4, <2>3, <3>1
  <2>4. CASE ReturnVersion \/ ReturnPacket
    <3>1. PICK result : End(result) /\ pc \notin Idle
      BY <2>4 DEF ReturnVersion, ReturnPacket, Idle
    <3>2. calls' = calls /\ \A d \in Calls : d # calls => outcome'[d] = outcome[d]
      BY <3>1, EndEffect
    <3>3. outcome[calls] = "none"
      BY <3>1 DEF CallInv
    <3>. QED
      BY <1>1, <1>4, <2>1, <3>2, <3>3
  <2>5. ~throw_network_error
    BY DEF throw_network_error, disconnect
  <2>. QED
    BY <1>2, <2>2, <2>3, <2>4, <2>5, OutcomeStep
<1>. QED
  BY <1>3, <1>4, SockStep

\* A history repaired by NetworkErrors has left the connection in use alone.
LEMMA RepairedIsIntact ==
    ASSUME TypeOK, SockInv, RepairInv, RepairedBefore(calls + 1)
    PROVE  Intact
<1> SUFFICES ASSUME m_iSock # NoSocket, NEW d \in m_iSock..calls,
                    outcome[d] = "bad_alloc"
             PROVE  FALSE
  BY DEF Intact
<1>1. /\ calls \in 0..MaxCalls /\ m_iSock \in Calls /\ Calls \subseteq Int
      /\ d \in Int /\ m_iSock <= d /\ d <= calls /\ d \in Calls
  BY MaxCallsAssumption DEF TypeOK, Calls, NoSocket
<1>2. PICK e \in Calls : d < e /\ e < calls + 1 /\ outcome[e] = "NetworkError"
  BY <1>1 DEF RepairedBefore
<1>3. e \in m_iSock..calls
  BY <1>1, <1>2
<1>. QED
  BY <1>2, <1>3 DEF RepairInv

\* Without a socket nothing of a connection is left.
LEMMA ClosedClears ==
    ASSUME TypeOK', SockInv', m_iSock' = NoSocket
    PROVE  StreamInv' /\ ParseInv' /\ VersionCurrent'
<1>1. /\ link' = "none" /\ pc' \in Idle \cup {"socket"}
      /\ toServer' = NoRequest /\ backlog' = <<>> /\ toClient' = <<>>
  BY DEF SockInv
<1>. QED
  BY <1>1
  DEF StreamInv, ParseInv, VersionCurrent, EntryPhases, ConnectPhases,
      SendPhases, Idle

LEMMA FaultInit == Init => TypeOK /\ FaultInv /\ ReturnInv
<1> SUFFICES ASSUME Init PROVE TypeOK /\ FaultInv /\ ReturnInv
  OBVIOUS
<1>1. SendInv /\ CallInv
  BY DEF Init, SendInv, CallInv, ConnectPhases, SendPhases, RecvPhases, Idle
<1>2. StreamInv
  BY DEF Init, StreamInv, ConnectPhases, SendPhases, EntryPhases
<1>3. ParseInv
  BY DEF Init, ParseInv, EntryPhases
<1>4. VersionCurrent
  BY DEF Init, VersionCurrent
<1>5. RepairInv
  BY DEF Init, RepairInv
<1>6. ReturnInv
  BY DEF Init, ReturnInv
<1>. QED
  BY <1>1, <1>2, <1>3, <1>4, <1>5, <1>6, TypeInit, SockInit, OnceInit
  DEF FaultInv

\* Every step keeps the client and the server in step, or fails to allocate
\* and leaves a connection that is not intact.
LEMMA FaultNext ==
    ASSUME TypeOK, FaultInv, [Next]_vars
    PROVE  TypeOK' /\ FaultInv'
<1>1. TypeOK' /\ SockInv' /\ OnceInv' /\ SendInv' /\ CallInv' /\ RepairInv'
  BY TypeNext, SockNext, OnceNext, SendInvNext, CallNext, RepairNext
  DEF FaultInv
<1>2. ASSUME Intact', m_iSock' # NoSocket
      PROVE  StreamInv' /\ ParseInv' /\ VersionCurrent'
  <2>1. Intact /\ ~BadAlloc
    BY <1>2, IntactStep DEF FaultInv
  <2>2. Inv /\ VersionCurrent
    BY <2>1 DEF FaultInv, Inv
  <2>. QED
    BY <2>1, <2>2, StreamNext, ParseNext, VersionNext DEF Inv
<1>. QED
  BY <1>1, <1>2, ClosedClears DEF FaultInv

\* A packet that was returned stays the answer to its request.
LEMMA ReturnNext ==
    ASSUME TypeOK, FaultInv, ReturnInv, [Next]_vars
    PROVE  ReturnInv'
<1> USE DEF objectVars, sendVars, recvVars, netVars, serverVars, callerVars
<1>0. SockInv /\ OnceInv /\ CallInv
  BY DEF FaultInv
<1>1. /\ DOMAIN outcome = Calls /\ DOMAIN runs = Calls /\ DOMAIN answer = Calls
      /\ pc \notin Idle => calls \in Calls
      /\ calls \in 0..MaxCalls /\ Calls \subseteq Int
  BY <1>0, MaxCallsAssumption DEF TypeOK, SockInv, Calls
\* The history before a call that has ended does not change any more.
<1>2. ASSUME NEW c \in Calls, outcome'[c] = "packet", RepairedBefore(c)'
      PROVE  RepairedBefore(c)
  <2>1. CASE UNCHANGED outcome
    BY <1>2, <2>1 DEF RepairedBefore
  <2>2. ASSUME NEW result, End(result), pc \notin Idle
        PROVE  RepairedBefore(c)
    <3>1. /\ calls \in Calls
          /\ \A d \in Calls : d # calls => outcome'[d] = outcome[d]
      BY <1>0, <2>2, EndEffect
    <3>2. c <= calls
      <4>1. CASE c = calls
        BY <1>1, <4>1
      <4>2. CASE c # calls
        <5>1. outcome[c] # "none"
          BY <1>2, <3>1, <4>2
        <5>. QED
          BY <1>0, <1>1, <5>1 DEF OnceInv
      <4>. QED
        BY <4>1, <4>2
    <3>3. \A d \in Calls : d < c => outcome'[d] = outcome[d]
      BY <1>1, <3>1, <3>2
    <3>. QED
      BY <1>1, <1>2, <3>3, RepairedLocal
  <2>3. CASE throw_network_error /\ pc \notin Idle
    BY <2>2, <2>3 DEF throw_network_error
  <2>4. CASE BadAlloc \/ ReturnVersion \/ ReturnPacket
    BY <2>2, <2>4, FailsInCall DEF ReturnVersion, ReturnPacket, Idle
  <2>. QED
    BY <2>1, <2>3, <2>4, OutcomeStep
<1>3. ASSUME UNCHANGED <<runs, answer, outcome, returned>>
      PROVE  ReturnInv'
  BY <1>2, <1>3 DEF ReturnInv
<1>4. ASSUME NEW result \in {"NetworkError", "version", "bad_alloc"},
             End(result), UNCHANGED returned
      PROVE  ReturnInv'
  BY <1>1, <1>2, <1>4 DEF End, serverVars, ReturnInv
<1>5. ASSUME NEW c \in Calls, NEW r, Executes(c, r), runs[c] = 0,
             UNCHANGED <<outcome, returned>>
      PROVE  ReturnInv'
  <2>1. \A d \in Calls : d # c => runs'[d] = runs[d] /\ answer'[d] = answer[d]
    BY <1>1, <1>5 DEF Executes
  <2>2. ASSUME NEW d \in Calls, outcome'[d] = "packet", RepairedBefore(d)'
        PROVE  runs'[d] = 1 /\ returned'[d] = Content(d, answer'[d])
    <3>1. runs[d] = 1 /\ returned[d] = Content(d, answer[d])
      BY <1>2, <1>5, <2>2 DEF ReturnInv
    <3>. QED
      BY <1>5, <2>1, <3>1
  <2>. QED
    BY <1>5, <2>2 DEF ReturnInv
<1>6. CASE ReturnPacket
  <2> DEFINE a == answer[calls]
  <2>1. /\ pc = "return" /\ UNCHANGED <<runs, answer, calls>>
        /\ outcome' = [outcome EXCEPT ![calls] = "packet"]
        /\ returned' = [returned EXCEPT ![calls] =
              [from |-> from, cmd |-> responseCmd, entries |-> entrylist]]
    BY <1>6 DEF ReturnPacket, End
  <2>2. calls \in Calls /\ outcome[calls] = "none"
    BY <1>0, <1>1, <2>1 DEF CallInv, Idle
  <2>3. ASSUME RepairedBefore(calls)
        PROVE  /\ runs[calls] = 1
               /\ [from |-> from, cmd |-> responseCmd, entries |-> entrylist]
                    = Content(calls, a)
    <3>1. ParseInv
      BY <2>2, <2>3, RepairedNow, RepairedIsIntact DEF FaultInv
    <3>2. /\ from = calls /\ runs[calls] = 1
          /\ responseCmd = a.cmd
          /\ Len(entrylist) = Len(a.entries)
          /\ \A j \in 1..Len(entrylist) : entrylist[j] = a.entries[j]
      BY <2>1, <3>1 DEF ParseInv
    <3>3. entrylist \in Seq(Entries) /\ a.entries \in Seq(Entries)
      BY <2>2, AnswerType DEF TypeOK, IsPacket
    <3>4. entrylist = a.entries
      BY <3>2, <3>3, SeqEqual
    <3>. QED
      BY <3>2, <3>4 DEF Content
  <2>4. ASSUME NEW c \in Calls, outcome'[c] = "packet", RepairedBefore(c)'
        PROVE  runs'[c] = 1 /\ returned'[c] = Content(c, answer'[c])
    <3>1. RepairedBefore(c)
      BY <1>2, <2>4
    <3>2. CASE c = calls
      BY <2>1, <2>2, <2>3, <3>1, <3>2 DEF ReturnInv
    <3>3. CASE c # calls
      BY <1>1, <2>1, <2>4, <3>1, <3>3 DEF ReturnInv
    <3>. QED
      BY <3>2, <3>3
  <2>. QED
    BY <2>1, <2>4 DEF ReturnInv
<1>7. CASE Consumer
  BY <1>3, <1>7 DEF Consumer, Query, submit, Begin, Destroy
<1>8. CASE Client \/ BadAlloc
  <2>1. CASE throw_network_error \/ ReturnVersion \/ BadAlloc
    BY <1>4, <2>1, FailsInCall
    DEF throw_network_error, ReturnVersion, BadAlloc, BadAllocConnected,
        BadAllocDisconnected
  <2>2. CASE ConnectFails \/ RejectVersion \/ SendFails \/ RecvFails
    BY <2>1, <2>2, ErrorsThrow
  <2>3. CASE \/ GetSocket
             \/ ResolveHost
             \/ \E id \in ServerIDs : findConnection(id)
             \/ AcceptVersion
             \/ \E n \in 1..SendLen : Send(n)
             \/ NextSend
             \/ \E n \in 1..RecvLen : Recv(n)
             \/ ParseHeader
             \/ ParseEntryHeader
             \/ ParseLargeHeader
             \/ AppendEntry
    BY <1>3, <2>3
    DEF GetSocket, ResolveHost, findConnection, AcceptVersion, Send, NextSend,
        Recv, ParseHeader, ParseEntryHeader, ParseLargeHeader, AppendEntry
  <2>. QED
    BY <1>6, <1>8, <2>1, <2>2, <2>3 DEF Client
<1>9. CASE Server
  <2>1. ASSUME NEW r \in Responses, ServerAnswers(r) PROVE ReturnInv'
    <3>1. PICK c \in Calls : Executes(c, r) /\ runs[c] = 0
      BY <1>0, <2>1, NextAnswered DEF Answers
    <3>. QED
      BY <1>5, <2>1, <3>1 DEF ServerAnswers
  <2>2. ASSUME NEW r \in Responses, ServerMisreads(r) PROVE ReturnInv'
    BY <1>3, <2>2 DEF ServerMisreads
  <2>3. ASSUME NEW c \in stranded, NEW r \in Responses, StrandedExecutes(c, r)
        PROVE  ReturnInv'
    <3>1. c \in Calls /\ runs[c] = 0
      BY <1>0 DEF OnceInv, TypeOK
    <3>. QED
      BY <1>5, <2>3, <3>1 DEF StrandedExecutes
  <2>. QED
    BY <1>9, <2>1, <2>2, <2>3 DEF Server
<1>10. CASE ConnectionBreaks \/ UNCHANGED vars
  BY <1>3, <1>10 DEF ConnectionBreaks, vars
<1>. QED
  BY <1>7, <1>8, <1>9, <1>10 DEF Next

-----------------------------------------------------------------------------
(* What holds wherever operator new may throw. *)

\* The inductive invariant behind the theorems of this part.
THEOREM FaultsContained == Spec => [](TypeOK /\ FaultInv /\ ReturnInv)
<1>1. TypeOK /\ FaultInv /\ ReturnInv /\ [Next]_vars
        => TypeOK' /\ FaultInv' /\ ReturnInv'
  BY FaultNext, ReturnNext
<1>. QED
  BY <1>1, FaultInit, PTL DEF Spec

\* Both streams are empty between the calls of a session in which no
\* allocation failed, whatever happened in the sessions before it.
THEOREM StaysInStep == Spec => []InStep
<1>1. FaultInv => InStep
  BY DEF InStep, Intact, FaultInv, StreamInv, Idle
<1>. QED
  BY <1>1, FaultsContained, PTL

\* Once a NetworkError has closed the connection that an exception of operator
\* new left in the middle, nothing of it reaches the next one.
THEOREM RepairedStaysInStep == Spec => []RepairedInStep
<1>1. TypeOK /\ SockInv /\ StreamInv => toServer.framed
  <2>1. NoRequest.framed
    BY DEF NoRequest
  <2>. QED
    BY <2>1
    DEF TypeOK, SockInv, StreamInv, Phases, EntryPhases, ConnectPhases,
        SendPhases, RecvPhases, Waiting, Answered
<1>2. TypeOK /\ FaultInv => RepairedInStep
  BY <1>1, RepairedIsIntact
  DEF FaultInv, StreamInv, VersionCurrent, RepairedInStep, Idle
<1>. QED
  BY <1>2, FaultsContained, PTL

\* What submit returns is the response to its own request, for every size and
\* number of entries and however the bytes arrive, unless an allocation failed
\* since the last NetworkError.
THEOREM RepairedReturnsOwnResponse == Spec => []OwnResponseOnceRepaired
<1>1. TypeOK /\ ReturnInv => OwnResponseOnceRepaired
  BY DEF ReturnInv, OwnResponseOnceRepaired
<1>. QED
  BY <1>1, FaultsContained, PTL

\* A call that threw a NetworkError has left no socket, until the next call.
LEMMA ErrorNext ==
    ASSUME TypeOK, SockInv, ErrorEndsSession, [Next]_vars
    PROVE  ErrorEndsSession'
<1> USE DEF ErrorEndsSession, Idle, ConnectPhases, SendPhases, RecvPhases,
            objectVars, sendVars, recvVars, netVars, serverVars, callerVars
<1>1. CASE throw_network_error
  BY <1>1 DEF throw_network_error, disconnect
<1>2. CASE Query \/ (\E p \in Requests : submit(p)) \/ Destroy
  BY <1>2 DEF Query, submit, Begin, Destroy
<1>3. CASE ConnectFails \/ RejectVersion \/ SendFails \/ RecvFails
  BY <1>1, <1>3, ErrorsThrow
<1>4. CASE \/ GetSocket
           \/ ResolveHost
           \/ \E id \in ServerIDs : findConnection(id)
           \/ AcceptVersion
           \/ \E n \in 1..SendLen : Send(n)
           \/ NextSend
           \/ \E n \in 1..RecvLen : Recv(n)
           \/ ParseHeader
           \/ ParseEntryHeader
           \/ ParseLargeHeader
           \/ AppendEntry
  BY <1>4
  DEF GetSocket, ResolveHost, findConnection, AcceptVersion, Send, NextSend,
      Recv, ParseHeader, ParseEntryHeader, ParseLargeHeader, AppendEntry,
      LoopHead
<1>5. CASE ReturnVersion \/ ReturnPacket \/ BadAlloc
  <2>1. PICK result \in {"version", "packet", "bad_alloc"} :
          End(result) /\ pc \notin Idle
    BY <1>5, FailsInCall DEF ReturnVersion, ReturnPacket
  <2>2. calls' = calls /\ outcome'[calls] = result
    BY <2>1, EndEffect
  <2>. QED
    BY <2>1, <2>2
<1>6. CASE Server \/ ConnectionBreaks \/ UNCHANGED vars
  BY <1>6
  DEF Server, ServerAnswers, ServerMisreads, StrandedExecutes,
      ConnectionBreaks, vars
<1>. QED
  BY <1>2, <1>3, <1>4, <1>5, <1>6 DEF Next, Consumer, Client

\* After a NetworkError the connection is closed.
THEOREM ErrorClosesSession == Spec => []ErrorEndsSession
<1>1. Init => ErrorEndsSession
  BY DEF Init, ErrorEndsSession
<1>2. FaultInv => SockInv
  BY DEF FaultInv
<1>3. TypeOK /\ SockInv /\ ErrorEndsSession /\ [Next]_vars => ErrorEndsSession'
  BY ErrorNext
<1>. QED
  BY <1>1, <1>2, <1>3, FaultsContained, PTL DEF Spec

-----------------------------------------------------------------------------
(* How far a call is from its end. *)

\* The ways to come closer to the end of a call.
LEMMA CloserBy ==
    ASSUME \/ 0 <= StagesAhead' /\ StagesAhead' < StagesAhead
           \/ /\ StagesAhead' = StagesAhead
              /\ 0 <= LoopAhead' /\ LoopAhead' < LoopAhead
           \/ /\ StagesAhead' = StagesAhead /\ LoopAhead' = LoopAhead
              /\ 0 <= WordsAhead' /\ WordsAhead' < WordsAhead
           \/ /\ StagesAhead' = StagesAhead /\ LoopAhead' = LoopAhead
              /\ WordsAhead' = WordsAhead
              /\ 0 <= UnitsAhead' /\ UnitsAhead' < UnitsAhead
    PROVE  Closer
<1>1. DOMAIN Ahead = 1..4
  BY DEF Ahead
<1>2. /\ Ahead[1] = StagesAhead /\ Ahead'[1] = StagesAhead'
      /\ Ahead[2] = LoopAhead /\ Ahead'[2] = LoopAhead'
      /\ Ahead[3] = WordsAhead /\ Ahead'[3] = WordsAhead'
      /\ Ahead[4] = UnitsAhead /\ Ahead'[4] = UnitsAhead'
  BY DEF Ahead
<1> HIDE DEF Ahead
<1>3. /\ 1 \in DOMAIN Ahead /\ 2 \in DOMAIN Ahead
      /\ 3 \in DOMAIN Ahead /\ 4 \in DOMAIN Ahead
  BY <1>1
<1>4. /\ \A j \in 1..1 - 1 : FALSE
      /\ \A j \in 1..2 - 1 : j = 1
      /\ \A j \in 1..3 - 1 : j = 1 \/ j = 2
      /\ \A j \in 1..4 - 1 : j = 1 \/ j = 2 \/ j = 3
  OBVIOUS
<1>. QED
  BY <1>2, <1>3, <1>4 DEF Closer

\* Every step of the client during a call ends it or brings it closer to its
\* end, and no other step moves it.
LEMMA AdvancesNext ==
    ASSUME TypeOK, SockInv, OnceInv, SendInv, [Next]_vars, pc \notin Idle
    PROVE  pc' = "idle" \/ Closer \/ (~Client /\ UNCHANGED Ahead)
<1> USE DEF ConnectPhases, SendPhases, RecvPhases, EntryPhases, Idle
<1>1. /\ i \in Nat /\ sent \in Nat /\ pc \in Phases
      /\ bytesRead \in Nat /\ responseLength \in Nat
      /\ Len(packet.entries) \in Nat
      /\ HeaderLen \in Nat /\ WordLen \in Nat \ {0} /\ IDLength \in Nat
      /\ entry.len \in Nat
  BY AllPackets, PacketType, HeaderLenAssumption, WordLenAssumption,
     IDLengthAssumption
  DEF TypeOK, Entries
<1>2. CASE Client
  <2>1. CASE GetSocket \/ ResolveHost
    BY <2>1, CloserBy DEF GetSocket, ResolveHost, StagesAhead
  <2>2. ASSUME NEW id \in ServerIDs, findConnection(id) PROVE Closer
    BY <2>2, CloserBy DEF findConnection, StagesAhead
  <2>3. CASE ConnectFails \/ RejectVersion \/ SendFails \/ RecvFails
    BY <2>3, ErrorsThrow DEF throw_network_error, End
  <2>4. CASE AcceptVersion
    BY <2>4, CloserBy DEF AcceptVersion, StagesAhead
  <2>5. ASSUME pc \in SendPhases, NEW n \in 1..SendLen, Send(n) PROVE Closer
    <3>1. SendLen \in Nat
      BY <2>5, SentUnitsBound
    <3>2. UNCHANGED <<pc, packet, sent, bytesRead, responseLength>>
          /\ i' = i + n /\ n <= SendLen - i /\ n \in 1..SendLen
      BY <2>5 DEF Send, sendVars, recvVars
    <3>3. SendLen' = SendLen
      BY <3>2 DEF SendLen
    <3>4. /\ StagesAhead' = StagesAhead /\ LoopAhead' = LoopAhead
          /\ WordsAhead' = WordsAhead
      BY <3>2 DEF StagesAhead, LoopAhead, WordsAhead
    <3>5. UnitsAhead = SendLen - i /\ UnitsAhead' = SendLen - i'
      BY <2>5, <3>2, <3>3 DEF UnitsAhead
    <3>6. 0 <= UnitsAhead' /\ UnitsAhead' < UnitsAhead
      BY <1>1, <3>1, <3>2, <3>5
    <3>. QED
      BY <3>4, <3>6, CloserBy
  <2>6. CASE NextSend
    <3>1. CASE sent < Len(packet.entries) /\ sent' = sent + 1
               /\ pc' = "sendEntry"
      <4>1. pc \in SendPhases /\ UNCHANGED packet
        BY <2>6 DEF NextSend
      <4>2. LoopAhead = Len(packet.entries) - sent
            /\ LoopAhead' = Len(packet.entries) - (sent + 1)
        BY <3>1, <4>1 DEF LoopAhead
      <4>3. StagesAhead' = StagesAhead
        BY <3>1, <4>1 DEF StagesAhead
      <4>4. 0 <= LoopAhead' /\ LoopAhead' < LoopAhead
        BY <1>1, <3>1, <4>2
      <4>. QED
        BY <4>3, <4>4, CloserBy
    <3>2. CASE pc' = "recvHeader"
      BY <2>6, <3>2, CloserBy DEF NextSend, StagesAhead
    <3>. QED
      BY <2>6, <3>1, <3>2 DEF NextSend
  <2>7. ASSUME NEW n \in 1..RecvLen, Recv(n) PROVE Closer
    <3>1. RecvLen \in Nat
      BY <1>1 DEF RecvLen
    <3>2. UNCHANGED <<pc, packet, sent, bytesRead, responseLength, entry>>
          /\ i' = i + n /\ n <= RecvLen - i /\ n \in 1..RecvLen
          /\ pc \in RecvPhases
      BY <2>7 DEF Recv, sendVars, recvVars
    <3>3. RecvLen' = RecvLen
      BY <3>2 DEF RecvLen
    <3>4. /\ StagesAhead' = StagesAhead /\ LoopAhead' = LoopAhead
          /\ WordsAhead' = WordsAhead
      BY <3>2 DEF StagesAhead, LoopAhead, WordsAhead
    <3>5. UnitsAhead = RecvLen - i /\ UnitsAhead' = RecvLen - i'
      BY <3>2, <3>3 DEF UnitsAhead
    <3>6. 0 <= UnitsAhead' /\ UnitsAhead' < UnitsAhead
      BY <1>1, <3>1, <3>2, <3>5
    <3>. QED
      BY <3>4, <3>6, CloserBy
  <2>8. CASE ParseHeader
    BY <2>8, CloserBy DEF ParseHeader, LoopHead, StagesAhead
  <2>9. CASE ParseEntryHeader
    <3>1. /\ pc = "recvEntryHeader" /\ pc' \in EntryPhases
          /\ bytesRead' = bytesRead + WordLen
          /\ UNCHANGED responseLength /\ bytesRead < responseLength
      BY <2>9 DEF ParseEntryHeader, RecvLen, SendInv
    <3>2. StagesAhead' = StagesAhead
      BY <3>1 DEF StagesAhead
    <3>3. /\ LoopAhead = responseLength - bytesRead
          /\ LoopAhead' = IF bytesRead' < responseLength
                            THEN responseLength - bytesRead' ELSE 0
      BY <3>1 DEF LoopAhead
    <3>4. 0 <= LoopAhead' /\ LoopAhead' < LoopAhead
      BY <1>1, <3>1, <3>3
    <3>. QED
      BY <3>2, <3>4, CloserBy
  <2>10. CASE ParseLargeHeader \/ AppendEntry
    <3>1. CASE pc' = "return"
      BY <2>10, <3>1, CloserBy DEF ParseLargeHeader, AppendEntry, StagesAhead
    <3>2. CASE pc' # "return"
      <4>1. /\ \/ pc = "recvLargeHeader" /\ pc' = "recvData"
               \/ pc = "recvData" /\ pc' = "recvEntryHeader"
            /\ bytesRead' = bytesRead + RecvLen
            /\ RecvLen \in Nat
            /\ UNCHANGED responseLength
        <5>1. CASE ParseLargeHeader
          BY <1>1, <5>1 DEF ParseLargeHeader
        <5>2. CASE AppendEntry
          BY <1>1, <3>2, <5>2 DEF AppendEntry, LoopHead
        <5>. QED
          BY <2>10, <5>1, <5>2
      <4>2. StagesAhead' = StagesAhead
        BY <4>1 DEF StagesAhead
      <4>3. 0 <= WordsAhead' /\ WordsAhead' < WordsAhead
        BY <4>1 DEF WordsAhead
      <4>4. /\ LoopAhead = IF bytesRead < responseLength
                             THEN responseLength - bytesRead ELSE 0
            /\ LoopAhead' = IF bytesRead' < responseLength
                              THEN responseLength - bytesRead' ELSE 0
        BY <4>1 DEF LoopAhead
      <4>5. /\ 0 <= LoopAhead'
            /\ LoopAhead' < LoopAhead \/ LoopAhead' = LoopAhead
        BY <1>1, <4>1, <4>4
      <4>. QED
        BY <4>2, <4>3, <4>5, CloserBy
    <3>. QED
      BY <3>1, <3>2
  <2>11. CASE ReturnVersion \/ ReturnPacket
    BY <2>11 DEF ReturnVersion, ReturnPacket, End
  <2>. QED
    BY <1>2, <2>1, <2>2, <2>3, <2>4, <2>5, <2>6, <2>7, <2>8, <2>9, <2>10, <2>11
    DEF Client
<1>3. CASE BadAlloc
  BY <1>3, FailsInCall DEF End
<1>4. ASSUME ~Client, ~BadAlloc PROVE UNCHANGED Ahead
  <2>1. UNCHANGED <<pc, sendVars, i, recvVars>>
    <3>1. CASE Consumer
      BY <3>1 DEF Consumer, Query, submit, Begin, Destroy
    <3>2. CASE Server \/ ConnectionBreaks
      BY <3>2
      DEF Server, ServerAnswers, ServerMisreads, StrandedExecutes,
          ConnectionBreaks
    <3>. QED
      BY <1>4, <3>1, <3>2 DEF Next, vars
  <2>. QED
    BY <2>1
    DEF sendVars, recvVars, Ahead, StagesAhead, LoopAhead, WordsAhead,
        UnitsAhead, SendLen, RecvLen
<1>. QED
  BY <1>2, <1>3, <1>4

\* Whatever fails, and whatever lengths the bytes announce, a call can only
\* wait: each of its own steps brings it closer to its end.
THEOREM CallsAdvance == Spec => Advances
<1>1. TypeOK /\ FaultInv /\ [Next]_vars =>
        [pc \notin Idle =>
           pc' = "idle" \/ Closer \/ (~Client /\ UNCHANGED Ahead)]_vars
  BY AdvancesNext DEF FaultInv
<1>. QED
  BY <1>1, FaultsContained, PTL DEF Spec, Advances

-----------------------------------------------------------------------------
(* What holds as long as no allocation fails. *)

NoneFailed == \A c \in Calls : outcome[c] # "bad_alloc"

LEMMA NeverFails == AllocFailsAt = {} => (Spec => []NoneFailed)
<1> SUFFICES ASSUME AllocFailsAt = {} PROVE Spec => []NoneFailed
  OBVIOUS
<1>1. Init => NoneFailed
  BY DEF Init, NoneFailed
<1>2. TypeOK /\ FaultInv /\ NoneFailed /\ [Next]_vars => NoneFailed'
  <2> SUFFICES ASSUME TypeOK, FaultInv, NoneFailed, [Next]_vars
               PROVE  NoneFailed'
    OBVIOUS
  <2>1. ~BadAlloc
    BY DEF BadAlloc, BadAllocConnected, BadAllocDisconnected
  <2>2. CASE UNCHANGED outcome
    BY <2>2 DEF NoneFailed
  <2>3. CASE throw_network_error \/ ReturnVersion \/ ReturnPacket
    BY <2>3
    DEF throw_network_error, ReturnVersion, ReturnPacket, End, NoneFailed, TypeOK
  <2>. QED
    BY <2>1, <2>2, <2>3, OutcomeStep
<1>. QED
  BY <1>1, <1>2, FaultsContained, PTL DEF Spec

\* Then there never is anything to repair.
LEMMA NothingToRepair ==
    ASSUME NoneFailed, NEW c
    PROVE  RepairedBefore(c)
BY DEF NoneFailed, RepairedBefore

\* A request without a connection is that of a call that threw, or of the call
\* in progress, which has not noticed.
LEMMA StrandedNext ==
    ASSUME Inv, CallInv, StrandedInv, ~BadAlloc, [Next]_vars
    PROVE  StrandedInv'
<1> USE DEF objectVars, sendVars, recvVars, netVars, serverVars, callerVars
<1>0. TypeOK /\ SockInv /\ OnceInv /\ SendInv /\ StreamInv /\ ParseInv
  BY DEF Inv
<1>1. /\ stranded \in SUBSET Calls /\ pc \in Phases
      /\ pc \notin Idle => calls \in Calls /\ outcome[calls] = "none"
  BY <1>0 DEF TypeOK, SockInv, CallInv
\* What a connection that goes leaves behind is the request in progress.
<1>2. Stranding \subseteq
        {c \in {calls} : pc \in SendPhases \cup {"recvHeader"}}
  <2> SUFFICES ASSUME Complete
               PROVE  /\ pc \in SendPhases \cup {"recvHeader"}
                      /\ toServer.req = calls
    BY <1>0 DEF Stranding, StreamInv
  <2>1. toServer # NoRequest
    BY DEF NoRequest, Complete
  <2>2. pc \in SendPhases \cup {"recvHeader"} /\ Waiting /\ link = "up"
    BY <1>0, <1>1, <2>1
    DEF SockInv, StreamInv, Answered, Phases, ConnectPhases, SendPhases,
        RecvPhases, EntryPhases
  <2>. QED
    BY <2>1, <2>2 DEF Waiting
<1>3. ASSUME UNCHANGED outcome, stranded' \subseteq stranded,
             \/ UNCHANGED <<calls, pc>>
             \/ pc \notin SendPhases \cup {"recvHeader"}
             \/ calls' = calls /\ pc' \in SendPhases \cup {"recvHeader"}
      PROVE  StrandedInv'
  BY <1>3 DEF StrandedInv
<1>4. CASE throw_network_error /\ pc \notin Idle
  <2>1. /\ outcome'[calls] = "NetworkError"
        /\ \A c \in Calls : c # calls => outcome'[c] = outcome[c]
    BY <1>0, <1>4, EndEffect DEF throw_network_error
  <2>2. stranded' = stranded \cup Stranding
    BY <1>4 DEF throw_network_error, disconnect
  <2>. QED
    BY <1>1, <1>2, <2>1, <2>2 DEF StrandedInv
<1>5. CASE ReturnVersion \/ ReturnPacket
  <2>1. PICK result : End(result) /\ pc \in {"query", "return"}
    BY <1>5 DEF ReturnVersion, ReturnPacket
  <2>2. /\ calls \in Calls
        /\ \A c \in Calls : c # calls => outcome'[c] = outcome[c]
    BY <1>0, <2>1, EndEffect DEF Idle
  <2>3. stranded' = stranded
    BY <1>5 DEF ReturnVersion, ReturnPacket
  <2>4. \A c \in stranded : outcome[c] = "NetworkError" /\ c # calls
    BY <1>1, <2>1 DEF StrandedInv, Idle, SendPhases
  <2>. QED
    BY <1>1, <2>2, <2>3, <2>4 DEF StrandedInv
<1>6. CASE Query \/ \E p \in Requests : submit(p)
  BY <1>3, <1>6 DEF Query, submit, Begin, SendPhases
<1>7. CASE Destroy
  <2>1. stranded' = stranded /\ UNCHANGED outcome /\ pc = "idle"
    BY <1>2, <1>7 DEF Destroy, disconnect, SendPhases
  <2>. QED
    BY <1>3, <2>1 DEF SendPhases
<1>8. CASE ConnectFails \/ RejectVersion \/ SendFails \/ RecvFails
  <2>1. throw_network_error /\ pc \notin Idle
    BY <1>8, ErrorsThrow
  <2>. QED
    BY <1>4, <2>1
<1>9. CASE \/ GetSocket
           \/ ResolveHost
           \/ \E id \in ServerIDs : findConnection(id)
           \/ AcceptVersion
           \/ ParseEntryHeader
           \/ ParseLargeHeader
           \/ AppendEntry
  <2>1. /\ UNCHANGED <<outcome, stranded>>
        /\ pc \notin SendPhases \cup {"recvHeader"}
    BY <1>9
    DEF GetSocket, ResolveHost, findConnection, AcceptVersion,
        ParseEntryHeader, ParseLargeHeader, AppendEntry, SendPhases
  <2>. QED
    BY <1>3, <2>1
<1>10. CASE \/ \E n \in 1..SendLen : Send(n)
            \/ NextSend
            \/ \E n \in 1..RecvLen : Recv(n)
  <2>1. /\ UNCHANGED <<outcome, stranded, calls>>
        /\ pc' = pc \/ pc' \in SendPhases \cup {"recvHeader"}
    BY <1>10 DEF Send, NextSend, Recv, SendPhases
  <2>. QED
    BY <1>3, <2>1
<1>11. CASE ParseHeader
  <2>1. /\ pc = "recvHeader" /\ i = HeaderLen
        /\ UNCHANGED <<outcome, stranded, calls>>
    BY <1>11 DEF ParseHeader, RecvLen
  <2>2. ReadUnits = HeaderLen
    BY <2>1 DEF ReadUnits, Position, SendPhases
  <2>3. Answered
    BY <1>0, <2>1, <2>2, HeaderLenAssumption DEF StreamInv, Waiting
  <2>4. runs[calls] = 1
    BY <2>3 DEF Answered
  <2>5. calls \notin stranded
    BY <1>0, <2>4 DEF OnceInv
  <2>. QED
    BY <2>1, <2>5 DEF StrandedInv
<1>12. CASE Server
  <2>1. UNCHANGED <<outcome, calls, pc>> /\ stranded' \subseteq stranded
    BY <1>12 DEF Server, ServerAnswers, ServerMisreads, StrandedExecutes
  <2>. QED
    BY <1>3, <2>1
<1>13. CASE ConnectionBreaks
  BY <1>2, <1>13 DEF ConnectionBreaks, StrandedInv
<1>14. CASE UNCHANGED vars
  BY <1>3, <1>14 DEF vars
<1>. QED
  BY <1>5, <1>6, <1>7, <1>8, <1>9, <1>10, <1>11, <1>12, <1>13, <1>14
  DEF Next, Consumer, Client

\* When no allocation fails, the client and the server are in step in every
\* state: the invariant from which the properties of a session follow.
THEOREM StaysSynchronized == AllocFailsAt = {} => (Spec => []SyncInv)
<1> SUFFICES ASSUME AllocFailsAt = {} PROVE Spec => []SyncInv
  OBVIOUS
<1>1. Spec => []NoneFailed
  BY NeverFails
<1>2. TypeOK /\ FaultInv /\ NoneFailed => Inv /\ CallInv
  <2> SUFFICES ASSUME TypeOK, FaultInv, NoneFailed PROVE Inv /\ CallInv
    OBVIOUS
  <2>1. SockInv /\ RepairInv /\ RepairedBefore(calls + 1)
    BY NothingToRepair DEF FaultInv
  <2>. QED
    BY <2>1, RepairedIsIntact DEF FaultInv, Inv
<1>3. Init => StrandedInv
  BY DEF Init, StrandedInv
<1>4. Inv /\ CallInv /\ StrandedInv /\ [Next]_vars => StrandedInv'
  <2>1. ~BadAlloc
    BY DEF BadAlloc, BadAllocConnected, BadAllocDisconnected
  <2>. QED
    BY <2>1, StrandedNext
<1>5. Inv /\ CallInv /\ StrandedInv => SyncInv
  BY DEF Inv, SyncInv
<1>. QED
  BY <1>1, <1>2, <1>3, <1>4, <1>5, FaultsContained, PTL DEF Spec

\* Then what submit returns always is the response to its own request.
THEOREM ReturnsOwnResponse == AllocFailsAt = {} => (Spec => []OwnResponse)
<1> SUFFICES ASSUME AllocFailsAt = {} PROVE Spec => []OwnResponse
  OBVIOUS
<1>1. Spec => []NoneFailed
  BY NeverFails
<1>2. NoneFailed /\ OwnResponseOnceRepaired => OwnResponse
  BY NothingToRepair DEF OwnResponse, OwnResponseOnceRepaired
<1>. QED
  BY <1>1, <1>2, RepairedReturnsOwnResponse, PTL

\* The server never assembles a request out of the bytes of two.
THEOREM RequestsStayWhole == AllocFailsAt = {} => (Spec => []WholeRequests)
<1> SUFFICES ASSUME AllocFailsAt = {} PROVE Spec => []WholeRequests
  OBVIOUS
<1>1. Spec => []NoneFailed
  BY NeverFails
<1>2. NoneFailed /\ RepairedInStep => WholeRequests
  BY NothingToRepair DEF RepairedInStep, WholeRequests
<1>. QED
  BY <1>1, <1>2, RepairedStaysInStep, PTL

\* The version that the queries answer from is the one of the server at the
\* other end, and it was accepted.
THEOREM VersionStaysCurrent == AllocFailsAt = {} => (Spec => []VersionCurrent)
<1> SUFFICES ASSUME AllocFailsAt = {} PROVE Spec => []VersionCurrent
  OBVIOUS
<1>1. Spec => []NoneFailed
  BY NeverFails
<1>2. NoneFailed /\ RepairedInStep => VersionCurrent
  BY NothingToRepair DEF RepairedInStep, VersionCurrent
<1>. QED
  BY <1>1, <1>2, RepairedStaysInStep, PTL
=============================================================================
