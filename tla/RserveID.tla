------------------------------ MODULE RserveID ------------------------------
(***************************************************************************)
(* The identification string that Rserve sends when a connection opens and *)
(* the questions NetworkManager asks about it.  The 32 bytes are eight     *)
(* four-character words: the first three name the server ("Rsrv"), the     *)
(* version of the protocol and the transport ("QAP1"), the others are      *)
(* attributes.  An attribute is kept as its tag ("AR", "K" or anything     *)
(* else) and the two characters the client takes from it.                  *)
(***************************************************************************)
EXTENDS Naturals, Sequences

DefaultKey == "rs"

Attributes == [tag : {"AR", "K", "other"}, arg : STRING]

IDs == [rsrv : BOOLEAN, protocol : STRING, qap1 : BOOLEAN,
        words : Seq(Attributes)]

\* m_sRserve_version before the first connection: the empty string.
NoVersion == [rsrv |-> FALSE, protocol |-> "", qap1 |-> FALSE, words |-> <<>>]

versionMatch(version, anyVersion) ==
    /\ version.rsrv
    /\ anyVersion \/ version.protocol = "0103"
    /\ version.qap1

isAuthorizationRequired(version) ==
    \E w \in DOMAIN version.words : version.words[w].tag = "AR"

hasAuthorizationType(version, type) ==
    \E w \in DOMAIN version.words : version.words[w] = [tag |-> "AR", arg |-> type]

\* The scan stops at the first word that begins with 'K'.
getKey(version) ==
    LET at == {w \in DOMAIN version.words : version.words[w].tag = "K"}
    IN  IF at = {} THEN DefaultKey
        ELSE version.words[CHOOSE w \in at : \A u \in at : w <= u].arg
=============================================================================
