---------------------------- MODULE EntryExchange ----------------------------
(***************************************************************************)
(* The life of one object: the client makes an entry and a packet of it,   *)
(* or the server sends it; then the client reads it.  What is recursive in *)
(* the way from an object to bytes and back is RPacketEntry's matter and   *)
(* here parameters, which the instances take from there.                   *)
(***************************************************************************)
EXTENDS EntryLayout, QAP1Header

CONSTANTS
    Inputs,          \* the objects
    Buildable,       \* those that the client has classes for
    Filled(_, _),    \* fillREXP: an entry, with an object written to it
    Decoded(_),      \* toREXP: the object of an entry
    ServerEntry(_),  \* the entry that the server makes of an object
    Supported(_)     \* what the client makes of an object

\* The commands fit in their word.
ASSUME BytesAssumption == Base >= 4

\* Seven digits hold every length.
ASSUME InputsAssumption ==
    \A x \in Inputs :
        /\ x \in Buildable =>
             AttributedLength(x) \in Nat /\ AttributedLength(x) + 8 < Place[7]
        /\ x.t = XT_ARRAY_STR /\ Len(x.vals) = 1 =>
             x.vals[1] \in Seq(Nat) /\ Aligned(Len(x.vals[1]) + 1) < Place[7]

\* Whatever is written is written from the position on, into the room that
\* there is.
ASSUME FilledAssumption ==
    \A x \in Inputs \cap Buildable :
        LET st == Unfilled(x)
            made == Filled(st, x).entry
        IN  /\ made \in Seq(Nat)
            /\ Len(made) = Len(st.entry)
            /\ \A k \in 1..st.i : made[k] = st.entry[k]

CMD_eval == 3
CMD_setSEXP == 32

VARIABLES
    phase,     \* "made", "encoded", "string", "received", "parsed" or "asked"
    exp,       \* the object
    entry,     \* m_aEntry
    status,    \* how the constructor of the entry ended
    request,   \* the command and the entries of the packet
    header,    \* the first bytes of that packet on the connection
    sent,      \* those that follow, of each entry
    parsed,    \* what toREXP returned
    text       \* what response_stringAt returned

vars == <<phase, exp, entry, status, request, header, sent, parsed, text>>

-----------------------------------------------------------------------------
(* The questions about an entry of the last response. *)

getDataType(e) == Cell(e, 0)

\* The byte after the entry is nobody's: it is 0 or it is not.
response_stringAt(e, beyond) ==
    IF getDataType(e) = DT_STRING /\ beyond = 0
      THEN StringAt(e, HeaderLength(isLarge(Cell(e, 0))))
      ELSE <<>>

-----------------------------------------------------------------------------
Init ==
    /\ phase = "made"
    /\ exp \in Inputs
    /\ entry = <<>>
    /\ status = "ok"
    /\ request = [cmd |-> 0, entries |-> <<>>]
    /\ header = <<>>
    /\ sent = <<>>
    /\ parsed = Garbage
    /\ text = <<>>

\* submit sends as much of an entry as getLength says.
Sent(e) == SubSeq(e, 1, entry_getLength(e))

Submitted(cmd, entries) ==
    /\ request' = [cmd |-> cmd, entries |-> entries]
    /\ header' = HeaderBytes(RPacketHeader(cmd, entries))
    /\ sent' = [k \in DOMAIN entries |-> Sent(entries[k])]

\* RClient::assign makes an entry of the symbol, here of one character, one of
\* the object, and a packet of the two.
Encode ==
    /\ phase = "made"
    /\ exp \in Buildable
    /\ LET st == Filled(Unfilled(exp), exp)
       IN  /\ entry' = st.entry
           /\ status' = st.status
           /\ Submitted(CMD_setSEXP, <<RPacketEntry_0103_str(<<2>>), st.entry>>)
    /\ phase' = "encoded"
    /\ UNCHANGED <<exp, parsed, text>>

\* RClient::eval and login: the characters of a string of length one.
EncodeString ==
    /\ phase = "made"
    /\ exp.t = XT_ARRAY_STR
    /\ Len(exp.vals) = 1
    /\ entry' = RPacketEntry_0103_str(exp.vals[1])
    /\ Submitted(CMD_eval, <<entry'>>)
    /\ phase' = "string"
    /\ UNCHANGED <<exp, status, parsed, text>>

\* The server sends the object as its answer.
Receive ==
    /\ phase = "made"
    /\ entry' = ServerEntry(exp)
    /\ phase' = "received"
    /\ UNCHANGED <<exp, status, request, header, sent, parsed, text>>

Parse ==
    /\ phase \in {"encoded", "string", "received"}
    /\ status = "ok"
    /\ parsed' = Decoded(entry)
    /\ phase' = "parsed"
    /\ UNCHANGED <<exp, entry, status, request, header, sent, text>>

\* An entry with a string, laid out as the client does, comes from the server.
AskString ==
    /\ phase = "string"
    /\ \E beyond \in 0..1 : text' = response_stringAt(entry, beyond)
    /\ phase' = "asked"
    /\ UNCHANGED <<exp, entry, status, request, header, sent, parsed>>

Next == Encode \/ EncodeString \/ Receive \/ Parse \/ AskString

Spec == Init /\ [][Next]_vars
-----------------------------------------------------------------------------
(* Properties. *)

\* What is written for an object, its attributes and its members is what the
\* server would write, and fills the entry exactly: the lengths that are
\* computed before anything is written agree with what is written later.  The
\* server's layout is the one that parseREXP expects, and not in every detail
\* the one that comments describe: see RPacketEntry's Wire.
WritesAsServer ==
    phase = "encoded" => status = "ok" /\ entry = ServerEntry(exp)

\* Who reads the packet from the connection finds its command, the place of
\* its data and, by the length that is split over two words, its end; and by
\* the length in the header of each entry the end of that entry, provided that
\* the entry is one that getLength can count: of a longer one only a part is
\* sent, although its header announces the whole.
LengthsLeadToEnd ==
    phase \in {"encoded", "string"} =>
        /\ LET h == QAP1HeaderOf(header)
           IN  /\ getCommand(h) = request.cmd
               /\ getOffset(h) = 0
               /\ getLength(h) = Len(FlattenSeq(sent))
        /\ \A k \in DOMAIN request.entries :
             Len(request.entries[k]) < Place[WordBytes] =>
                 LET e == sent[k]
                     own == HeaderLength(isLarge(getDataType(e)))
                 IN  own + LengthAt(e, 0, own - 1) = Len(e)

\* An object comes back as it was sent, by this client or by the server: its
\* data, the order of its members, its tags and its attributes, with the flags
\* that its bytes ask for.
RoundTrip ==
    phase = "parsed" /\ getDataType(entry) % DT_LARGE = DT_SEXP => parsed = Supported(exp)

\* A string comes back to who asks for it (rclient.cpp, line 209: "string
\* containing requested packet entry").
StringReturned == phase = "asked" => text = exp.vals[1]
=============================================================================
