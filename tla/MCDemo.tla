------------------------------- MODULE MCDemo -------------------------------
(***************************************************************************)
(* An instance of Demo for TLC, with the codec of RPacketEntry.  With      *)
(* Base = 8 the objects of the demo are as they are in the source: all of  *)
(* them have the short header.                                             *)
(***************************************************************************)
EXTENDS Demo, RPacketEntry

ID(protocol, words) == [rsrv |-> TRUE, protocol |-> protocol, qap1 |-> TRUE, words |-> words]

\* A server without a login, one with, and one of another version.
MCServerIDs ==
    {ID("0103", <<>>), ID("0103", <<[tag |-> "AR", arg |-> "uc"], [tag |-> "K", arg |-> "k1"]>>),
     ID("0102", <<>>)}

MCDashed == Options \cup {"-x"}

\* No number is read from a word.
PortOf(arg) == IF arg = "6312" THEN 6312 ELSE 0

\* Two arguments of any kind, and more where flags have values.
Tokens == Dashed \cup {"v", "help"}

Short == UNION {[1..n -> Tokens] : n \in 0..2}

Ways == {<<"-h", "v">>, <<"-p", "v">>, <<"-p", "6312">>, <<"-l", "v", "v">>, <<"-s">>, <<"-a">>,
          <<"-l", "v", "w">>}

\* Any three flags, and all of them with one argument more or less.
Combined == {a \o b \o c : a \in Ways, b \in Ways, c \in Ways}

Full == <<"-h", "v", "-l", "v", "v", "-a", "-s", "-p", "v">>

MCArgvs ==
    Short \cup Combined \cup {Full, Append(Full, "-a"), Front(Full), <<"-l", "v", "-a">>,
                              <<"-a", "-l", "v">>, <<"-l", "-a", "v">>, <<"-l", "v", "v", "v">>}

\* A code of R and one below 0.
MCRErrors == {3, -1}

EmptyObject == REXPNull(<<>>)

Assigned == {Script[k].sym : k \in DOMAIN Script}
Objects == {Script[k].expr : k \in DOMAIN Script}

\* The codec on these objects and on no others, computed once.
EntryTable ==
    [x \in Objects |->
        LET made == RPacketEntry_0103(x)
        IN  IF made.status = "throw" THEN <<>> ELSE made.entry]

EntryOf(x) == EntryTable[x]

ObjectTable ==
    [e \in {EntryTable[x] : x \in Objects} \ {<<>>} |-> toREXP(e)]

ObjectOf(e) == ObjectTable[e]
=============================================================================
