----------------------------- MODULE RserveCall -----------------------------
(***************************************************************************)
(* NetworkManager as RClient sees it while it makes one call after another *)
(* and keeps no history: RserveSession without the numbers of the calls.   *)
(* What happens later to a request whose call threw is invisible here, as  *)
(* it happens in a session that is over.                                   *)
(***************************************************************************)
EXTENDS RserveID

CONSTANTS
    Responses,    \* the packets the server may answer with
    ServerIDs,    \* the identification strings servers may send
    AnyVersion,   \* m_bAnyVersion
    NoPacket      \* the place of a packet that there is not

VARIABLES
    open,         \* is there a session?
    version,      \* the identification sent in it
    busy,         \* the call in progress: "no", "query" or "submit"
    done,         \* has the request of that call been executed?
    reply,        \* the answer to it
    packet        \* what the call that ended last returned

vars == <<open, version, busy, done, reply, packet>>

Init ==
    /\ open = FALSE
    /\ version = NoVersion
    /\ busy = "no"
    /\ done = FALSE
    /\ reply = NoPacket
    /\ packet = NoPacket

Begin(kind) ==
    /\ busy = "no"
    /\ busy' = kind
    /\ packet' = NoPacket
    /\ UNCHANGED <<open, version, done, reply>>

Open(id) ==
    /\ busy # "no"
    /\ ~open
    /\ versionMatch(id, AnyVersion)
    /\ open' = TRUE
    /\ version' = id
    /\ UNCHANGED <<busy, done, reply, packet>>

Execute(r) ==
    /\ busy = "submit"
    /\ open
    /\ ~done
    /\ done' = TRUE
    /\ reply' = r
    /\ UNCHANGED <<open, version, busy, packet>>

Ends ==
    /\ busy' = "no"
    /\ done' = FALSE
    /\ reply' = NoPacket

ReturnVersion ==
    /\ busy = "query"
    /\ open
    /\ Ends
    /\ UNCHANGED <<open, version, packet>>

ReturnPacket ==
    /\ busy = "submit"
    /\ done
    /\ packet' = reply
    /\ Ends
    /\ UNCHANGED <<open, version>>

Throw ==
    /\ busy # "no"
    /\ busy = "query" => ~open
    /\ open' = FALSE
    /\ version' = NoVersion
    /\ Ends
    /\ UNCHANGED packet

Close ==
    /\ busy = "no"
    /\ open' = FALSE
    /\ version' = NoVersion
    /\ UNCHANGED <<busy, done, reply, packet>>

Next ==
    \/ \E kind \in {"query", "submit"} : Begin(kind)
    \/ \E id \in ServerIDs : Open(id)
    \/ \E r \in Responses : Execute(r)
    \/ ReturnVersion
    \/ ReturnPacket
    \/ Throw
    \/ Close

Spec == Init /\ [][Next]_vars
=============================================================================
