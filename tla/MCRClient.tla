----------------------------- MODULE MCRClient ------------------------------
(***************************************************************************)
(* An instance of RClient for TLC: servers that ask for no login, for the  *)
(* crypt of the password with either of two keys or with the default one,  *)
(* for plain text, for either of the two and for something unknown; and    *)
(* the entries of RPacketEntry, where 31 bytes are the most that have the  *)
(* short header.                                                           *)
(***************************************************************************)
EXTENDS RClient, RPacketEntry

ID(words) == [rsrv |-> TRUE, protocol |-> "0103", qap1 |-> TRUE, words |-> words]

AR(type) == [tag |-> "AR", arg |-> type]
K(key) == [tag |-> "K", arg |-> key]

MCServerIDs == {ID(<<>>),
                ID(<<AR("uc")>>),
                ID(<<AR("uc"), K("k1")>>),
                ID(<<AR("pt"), AR("uc"), K("k2"), K("k1")>>),
                ID(<<K("k1"), AR("pt")>>),
                ID(<<AR("no")>>)}

\* A code of R, and three below 0: one that looks unknown, one that looks like
\* ERR_auth_failed and one that looks like a code of R.
MCRErrors == {3, -1, -63, -65}

EmptyObject == REXPNull(<<>>)

Integer(vals, attr) == REXPInteger(vals, IntegerNA, attr)

Matrix == Integer(<<<<1>>, <<2>>>>, <<REXPPairList(<<Integer(<<<<2>>>>, <<>>)>>, <<<<2>>>>, <<>>)>>)

\* A matrix, a list with the longer header, and a list of a matrix, whose entry
\* cannot be made.
Matrices == {Matrix}
ThreeObjects ==
    {Matrix,
     REXPList(<<Integer(<<<<1>>, IntegerNA>>, <<>>),
                REXPString(<<[k \in 1..21 |-> 2]>>, StringNA, <<>>)>>, <<>>),
     REXPList(<<Matrix>>, <<>>)}

\* The codec on these objects and on no others, computed once.
EntryTable ==
    [x \in ThreeObjects |->
        LET made == RPacketEntry_0103(x)
        IN  IF made.status = "throw" THEN <<>> ELSE made.entry]

EntryOf(x) == EntryTable[x]

ObjectTable ==
    [e \in {EntryTable[x] : x \in ThreeObjects} \ {<<>>} |-> toREXP(e)]

ObjectOf(e) == ObjectTable[e]
=============================================================================
