---------------------------- MODULE ConsumerData ----------------------------
(***************************************************************************)
(* A vector on its way to R and back.  The consumer has a value of its own *)
(* choice for what is missing; the client sends R's value for it and       *)
(* returns the consumer's.  On the way the object may be copied, by the    *)
(* copy constructors or by assignment.                                     *)
(*                                                                         *)
(* The bytes are RPacketEntry's matter and here parameters, which the      *)
(* instance takes from there.                                              *)
(***************************************************************************)
EXTENDS REXP

CONSTANTS
    Vectors,           \* [t, float, vals, na, attr]: what the consumer passes
    CopiesAttributed,  \* Does it copy objects that have attributes?
    Encoded(_),        \* the entry that the client makes of an object
    Decoded(_),        \* toREXP: the object of an entry
    ServerEntry(_),    \* the entry that the server makes of an object
    ServerData(_)      \* and the bytes that it makes of the data alone

VARIABLES
    phase,    \* "given", "built", "sent", "answered", "parsed" or "read"
    given,    \* the member of Vectors
    exp,      \* the object
    entry,    \* that is sent to the server, then its answer
    data      \* what getData returned

vars == <<phase, given, exp, entry, data>>

\* A float has the first half of the digits of the double that it is made
\* into before initData compares it with the consumer's missing value.
Widened(f) == <<f[1] * Place[4]>>

Values(v) == IF v.float THEN [k \in DOMAIN v.vals |-> Widened(v.vals[k])] ELSE v.vals

Constructed(v) ==
    CASE v.t = XT_ARRAY_INT -> REXPInteger(v.vals, v.na, v.attr)
      [] v.t = XT_ARRAY_DOUBLE -> REXPDouble(Values(v), v.na, v.attr)
      [] v.t = XT_ARRAY_STR -> REXPString(v.vals, v.na, v.attr)

\* R's test, whatever the client thinks: the quiet bit of a NaN is ignored.
MissingInR(t, v) ==
    v \in CASE t = XT_ARRAY_INT -> {IntegerNA}
            [] t = XT_ARRAY_DOUBLE -> {DoubleNA, <<DoubleNA[1] + QuietBit>>}
            [] t = XT_ARRAY_STR -> {StringNA}

\* R computes with a missing double or it does not: its processor may have
\* set the quiet bit.
Loaded(x, quiet) ==
    IF quiet /\ x.t = XT_ARRAY_DOUBLE
      THEN [x EXCEPT !.vals = [k \in DOMAIN @ |->
              IF @[k] = DoubleNA THEN <<DoubleNA[1] + QuietBit>> ELSE @[k]]]
      ELSE x

-----------------------------------------------------------------------------
(* Assumptions. *)

\* The quiet bit is not the digit of DoubleNA beside it.
ASSUME BytesAssumption == Base >= 4

\* Numbers are given as their bits, and only doubles are given as floats, with
\* a missing value that is a float.
ASSUME VectorsAssumption ==
    \A v \in Vectors :
        /\ v.t \in {XT_ARRAY_INT, XT_ARRAY_DOUBLE, XT_ARRAY_STR}
        /\ v.float \in BOOLEAN
        /\ v.t = XT_ARRAY_DOUBLE =>
             \A k \in DOMAIN v.vals : v.vals[k] \in Seq(Nat) /\ Len(v.vals[k]) = 1
        /\ v.float => /\ v.t = XT_ARRAY_DOUBLE
                      /\ v.na[1] \in Nat /\ v.na = Widened(<<v.na[1] \div Place[4]>>)

\* The objects that may be sent: those that are made of the vectors, and their
\* copies, whose flags tell the length after the replacement.
Sent(v) ==
    {Constructed(v)}
      \cup (IF v.attr = <<>> \/ CopiesAttributed THEN {Copy(Constructed(v))} ELSE {})

\* An object without its flags.
Content(x) == [t |-> x.t, vals |-> x.vals, attr |-> x.attr]

\* The data of an object are the end of its entry, and the object is read back
\* from it.
ASSUME CodecAssumption ==
    \A v \in Vectors : \A x \in Sent(v) :
        LET held == Decoded(Encoded(x))
        IN  /\ DOMAIN held = DOMAIN x /\ Content(held) = Content(x)
            /\ IsSuffix(ServerData(held), Encoded(x))
            /\ \A quiet \in BOOLEAN :
                 Content(Decoded(ServerEntry(Loaded(held, quiet)))) = Content(Loaded(held, quiet))

-----------------------------------------------------------------------------
Init ==
    /\ phase = "given"
    /\ given \in Vectors
    /\ exp = REXPNull(<<>>)
    /\ entry = <<>>
    /\ data = <<>>

Construct ==
    /\ phase = "given"
    /\ exp' = Constructed(given)
    /\ phase' = "built"
    /\ UNCHANGED <<given, entry, data>>

CopyObject ==
    /\ phase \in {"built", "parsed"}
    /\ exp.attr = <<>> \/ CopiesAttributed
    /\ exp' = Copy(exp)
    /\ UNCHANGED <<phase, given, entry, data>>

Send ==
    /\ phase = "built"
    /\ entry' = Encoded(exp)
    /\ phase' = "sent"
    /\ UNCHANGED <<given, exp, data>>

\* The server sends the vector back.
Answer ==
    /\ phase = "sent"
    /\ \E quiet \in BOOLEAN : entry' = ServerEntry(Loaded(Decoded(entry), quiet))
    /\ phase' = "answered"
    /\ UNCHANGED <<given, exp, data>>

Receive ==
    /\ phase = "answered"
    /\ exp' = Decoded(entry)
    /\ phase' = "parsed"
    /\ UNCHANGED <<given, entry, data>>

GetData ==
    /\ phase = "parsed"
    /\ data' = getData(exp, given.na)
    /\ phase' = "read"
    /\ UNCHANGED <<given, exp, entry>>

Next == Construct \/ CopyObject \/ Send \/ Answer \/ Receive \/ GetData

Spec == Init /\ [][Next]_vars
-----------------------------------------------------------------------------
(* Properties. *)

\* What the consumer, or R, means by missing: among floats, the float of the
\* missing value.
Missing(v) ==
    \/ IF given.float THEN v[1] = given.na[1] \div Place[4] ELSE v = given.na
    \/ MissingInR(given.t, IF given.float THEN Widened(v) ELSE v)

\* R's missing value stands where the consumer's stood, every other value as it
\* was given, and the attributes are there.
Faithful(x) ==
    /\ x.t = given.t
    /\ x.attr = given.attr
    /\ DOMAIN x.vals = DOMAIN given.vals
    /\ \A k \in DOMAIN given.vals :
         IF Missing(given.vals[k]) THEN MissingInR(given.t, x.vals[k])
                                   ELSE x.vals[k] = Values(given)[k]

\* The server receives the data that it asks for, whatever was copied before,
\* and although the length and its flag were computed before the replacement.
ServerSeesData ==
    phase = "sent" =>
        LET held == Decoded(entry)
        IN  IsSuffix(ServerData(held), entry) /\ Faithful(held)

\* The consumer gets back its own missing value where something was missing,
\* and every other value unchanged.
DataSurvives ==
    phase = "read" =>
        data = [k \in DOMAIN given.vals |->
                  IF Missing(given.vals[k]) THEN given.na ELSE Values(given)[k]]

\* Where the data are in each phase: copies neither add a missing value nor
\* lose one, and a copy of a copy is a copy.
DataInv ==
    /\ given \in Vectors
    /\ phase = "built" => exp \in Sent(given)
    /\ phase = "sent" => \E x \in Sent(given) : entry = Encoded(x)
    /\ phase = "answered" => Faithful(Decoded(entry))
    /\ phase \in {"parsed", "read"} => Faithful(exp)
    /\ phase = "read" => data = getData(exp, given.na)
=============================================================================
