-------------------------- MODULE MCNetworkManager --------------------------
(***************************************************************************)
(* Instances of NetworkManager for TLC: packets with no entry, with one    *)
(* and with two, small and large entries, empty and non-empty data;        *)
(* servers that are accepted and one that is not.                          *)
(***************************************************************************)
EXTENDS NetworkManager

MakePacket(cmd, entries, length) ==
    LET start[k \in 1..Len(entries) + 1] ==
          IF k = 1 THEN 0 ELSE start[k - 1] + length[entries[k - 1]]
    IN  [cmd |-> cmd, entries |-> entries, start |-> start]

Small(n) == [large |-> FALSE, len |-> n]
Large(n) == [large |-> TRUE, len |-> n]

AnEntry == {Small(n) : n \in 0..3} \cup {Large(n) : n \in 0..3}

\* The packet that RPacket's constructor makes of these entries, and the one
\* that a server makes of them.
Request(cmd, entries) ==
    MakePacket(cmd, entries, [e \in AnEntry |-> getLength(e)])

Response(cmd, entries) ==
    MakePacket(cmd, entries, [e \in AnEntry |-> EntryLength(e)])

\* The entries of the last one reach LengthLimit: one unit is sent of the
\* first and nothing of the second.
MCRequests == {Request("CMD_eval", <<Small(1)>>),
               Request("CMD_setSEXP", <<Small(0), Large(1)>>),
               Request("CMD_setSEXP", <<Large(3), Large(2)>>)}

\* The large entry is as long as LengthLimit, which a response may be.
MCResponses == {Response("RESP_ERR", <<>>),
                Response("RESP_OK", <<Small(1)>>),
                Response("RESP_OK", <<Large(2), Small(0)>>)}

\* One request and two responses, for the longer histories.
MCFewRequests == {Request("CMD_eval", <<Small(0)>>)}

MCFewResponses == {Response("RESP_ERR", <<>>),
                   Response("RESP_OK", <<Large(1), Small(0)>>)}

ID(protocol, words) ==
    [rsrv |-> TRUE, protocol |-> protocol, qap1 |-> TRUE, words |-> words]

MCServerIDs == {ID("0103", <<>>), ID("0103", <<[tag |-> "AR", arg |-> "uc"]>>),
                ID("0102", <<>>)}

MCFewServerIDs == {ID("0103", <<>>), ID("0102", <<>>)}

NoFailures == {}
EverySite == Phases
EntryBuffer == {"recvEntryHeader", "recvLargeHeader"}
=============================================================================
