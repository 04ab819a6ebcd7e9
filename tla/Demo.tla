-------------------------------- MODULE Demo --------------------------------
(***************************************************************************)
(* The demo: a consumer that reads its arguments, connects, logs in and    *)
(* then shuts the server down, or assigns objects of every class, asks for *)
(* each of them and prints what it gets.  It is the program in which all   *)
(* the parts of the library meet: RClient, here too for any codec, and the *)
(* objects of REXP.  The two evaluations of a quotient are left out: what  *)
(* R computes is not modelled.                                             *)
(***************************************************************************)
EXTENDS RClient, REXP

CONSTANTS
    Argvs,         \* the arguments, without the name of the program
    Dashed,        \* the arguments that begin with a dash
    Port(_),       \* the number that is read from an argument
    MaxRefusals    \* bound on the evaluations that end in an error of R

Options == {"-h", "-p", "-l", "-s", "-a"}

ASSUME DashedAssumption == Options \subseteq Dashed
ASSUME ArgvsAssumption ==
    /\ Argvs \subseteq Seq(STRING)
    /\ \A args \in Argvs : \A k \in DOMAIN args :
         args[k] = "-l" /\ k + 2 \in DOMAIN args => args[k + 2] \in Passwords \cup Dashed
ASSUME PortAssumption == \A args \in Argvs : \A k \in DOMAIN args : Port(args[k]) \in Int

\* The objects below have values that are no missing values of R's.
ASSUME BytesAssumption == Base >= 8
ASSUME NullAssumption == NullObject = REXPNull(<<>>)

VARIABLES
    pc,          \* what main does next
    argv,        \* the arguments that are not read yet
    argp,        \* the one that checkFlags is at
    flags,       \* what checkFlags found
    item,        \* the member of Script that is assigned or asked for
    refusals     \* how many commands R has refused

demoVars == <<pc, argv, argp, flags, item, refusals>>

allVars == <<vars, demoVars>>

-----------------------------------------------------------------------------
(* checkFlags. *)

\* "none" is the text of no characters.
Defaults == [valid |-> TRUE, host |-> "localhost", port |-> 6311, user |-> "none",
             pwd |-> "none", login |-> FALSE, shutdown |-> FALSE, anyVersion |-> FALSE]

MaxArguments == 9

\* Do n values follow the argument?
HasValues(n) ==
    /\ argp + n <= Len(argv)
    /\ \A k \in argp + 1..argp + n : argv[k] \notin Dashed

-----------------------------------------------------------------------------
(* The objects.  Numbers and characters stand for those of the source; the *)
(* vectors have the same lengths and their missing values the same places. *)

int_na == <<4000>>
d_na == <<5000>>
str_na == <<>>

vec_i == <<<<2>>, <<10>>, <<77>>, int_na, <<300>>>>
vec_d == <<<<0>>, <<105>>, <<77>>, <<555>>, d_na>>
vec_str == <<<<2, 3, 3>>, <<4>>, <<5, 2>>, str_na, <<6, 3, 3>>>>
attr_str == <<<<2, 4>>, <<5>>>>

rexp_d(attr) == REXPDouble(vec_d, d_na, attr)
rexp_int(attr) == REXPInteger(vec_i, int_na, attr)
rexp_str(attr) == REXPString(vec_str, str_na, attr)

rexp_list(attr) == REXPList(<<rexp_d(<<>>), rexp_str(<<>>), rexp_int(<<>>)>>, attr)

Names == <<<<2, 5>>, <<2, 6>>, <<2, 4>>>>

rexp_pairlist(attr) ==
    REXPPairList(<<rexp_d(<<>>), rexp_int(<<>>), rexp_str(<<>>)>>, Names, attr)

ATTR == <<REXPPairList(<<REXPString(attr_str, str_na, <<>>)>>, <<<<3, 4>>>>, <<>>)>>

\* What is printed in place of a missing value.
NOT_AVAILABLE == [int |-> int_na, d |-> d_na, str |-> <<5, 5>>]
NA_OR_0 == [int |-> <<0>>, d |-> <<0>>, str |-> <<6, 6>>]

\* A symbol, the object assigned to it and the name of the member that is asked
\* for, if any.
Line(sym, expr, member) == [sym |-> sym, expr |-> expr, member |-> member]

Script == <<
    Line("vec_d", rexp_d(<<>>), <<>>),
    Line("vec_s", rexp_str(<<>>), <<>>),
    Line("vec_i", rexp_int(<<>>), <<>>),
    Line("single_s", Single(XT_ARRAY_STR, vec_str[1], StringNA, StringNA), <<>>),
    Line("single_i", Single(XT_ARRAY_INT, <<13>>, IntegerNA, IntegerNA), <<>>),
    Line("single_d", Single(XT_ARRAY_DOUBLE, <<7125>>, DoubleNA, DoubleNA), <<>>),
    Line("rexp_d", rexp_d(<<>>), <<>>),
    Line("rexp_s", rexp_str(<<>>), <<>>),
    Line("rexp_i", rexp_int(<<>>), <<>>),
    Line("rexp_list", rexp_list(<<>>), <<>>),
    Line("rexp_pairlist", rexp_pairlist(<<>>), Names[1]),
    Line("rexp_d_attr", rexp_d(ATTR), <<>>),
    Line("rexp_int_attr", rexp_int(ATTR), <<>>),
    Line("rexp_str_attr", rexp_str(ATTR), <<>>),
    Line("rexp_list_attr", rexp_list(ATTR), <<>>),
    Line("rexp_pair_attr", rexp_pairlist(ATTR), Names[3])>>

ASSUME ScriptAssumption ==
    \A k \in DOMAIN Script :
        /\ Script[k].sym \in Symbols
        /\ Script[k].expr \in Values
        /\ Encoded(Script[k].expr) # <<>>

-----------------------------------------------------------------------------
(* Printing: what is printed, without its layout. *)

printVector(x, na) ==
    CASE x.t = XT_ARRAY_INT -> getData(x, na.int)
      [] x.t = XT_ARRAY_DOUBLE -> getData(x, na.d)
      [] x.t = XT_ARRAY_STR -> getData(x, na.str)
      [] OTHER -> <<>>

\* A list in a list would be printed in the same way; the demo has none.
printData(x, na) ==
    CASE x.t = XT_LIST_NOTAG ->
           [k \in DOMAIN x.kids |-> printVector(x.kids[k], na)]
      [] x.t = XT_LIST_TAG ->
           [k \in DOMAIN x.kids |-> <<x.names[k], printVector(x.kids[k], na)>>]
      [] OTHER -> printVector(x, na)

printAssignStatus ==
    [successful |-> response_isSuccessful, status |-> response_errorStatus,
     entries |-> response_entryCount]

Unexpected == [contents |-> <<>>, attributes |-> <<>>, member |-> <<>>]

\* The attributes of a vector are printed with missing values of their own.
Contents(line, x) ==
    [contents |-> printData(x, NOT_AVAILABLE),
     attributes |->
         LET na == IF x.t \in {XT_LIST_TAG, XT_LIST_NOTAG} THEN NOT_AVAILABLE ELSE NA_OR_0
         IN  [k \in DOMAIN x.attr |-> printData(x.attr[k], na)],
     member |-> IF line.member = <<>> THEN <<>>
                ELSE printData(getMember(x, line.member), NOT_AVAILABLE)]

\* The class of the object must be the one that the caller names.
printEvalStatus(line, x) == IF x.t = line.expr.t THEN Contents(line, x) ELSE Unexpected

-----------------------------------------------------------------------------
(* main. *)

DemoInit ==
    /\ Init
    /\ pc = "start"
    /\ argv \in Argvs
    /\ argp = 1
    /\ flags = Defaults
    /\ item = 1
    /\ refusals = 0

\* checkFlags: its test of the number of arguments, then one step for each
\* turn of its loop.
Start ==
    /\ pc = "start"
    /\ IF Len(argv) > MaxArguments
         THEN flags' = [flags EXCEPT !.valid = FALSE] /\ pc' = "checked"
         ELSE pc' = "checkFlags" /\ UNCHANGED flags
    /\ UNCHANGED <<vars, argv, argp, item, refusals>>

\* The flag at argp with n values.
Reads(flag, n, f) ==
    /\ argv[argp] = flag
    /\ HasValues(n)
    /\ flags' = f
    /\ argp' = argp + n + 1
    /\ UNCHANGED pc

\* A mutant: the password may be missing.
LoginFlagLax ==
    Reads("-l", 1, [flags EXCEPT !.login = TRUE, !.user = argv[argp + 1], !.pwd = "v"])

LoginFlag ==
    Reads("-l", 2, [flags EXCEPT !.login = TRUE, !.user = argv[argp + 1],
                                 !.pwd = argv[argp + 2]])

\* help, a flag that lacks a value, or anything else.
NoFlag ==
    /\ argv[argp] \notin {"-s", "-a"}
    /\ argv[argp] \in {"-h", "-p"} => ~HasValues(1)
    /\ argv[argp] = "-l" => ~HasValues(2)
    /\ flags' = [flags EXCEPT !.valid = FALSE]
    /\ pc' = "checked"
    /\ UNCHANGED argp

checkFlags ==
    /\ pc = "checkFlags"
    /\ argp <= Len(argv)
    /\ \/ Reads("-h", 1, [flags EXCEPT !.host = argv[argp + 1]])
       \/ Reads("-p", 1, [flags EXCEPT !.port = Port(argv[argp + 1])])
       \/ LoginFlag
       \/ Reads("-s", 0, [flags EXCEPT !.shutdown = TRUE])
       \/ Reads("-a", 0, [flags EXCEPT !.anyVersion = TRUE])
       \/ NoFlag
    /\ UNCHANGED <<vars, argv, item, refusals>>

FlagsChecked ==
    /\ pc = "checkFlags"
    /\ argp > Len(argv)
    /\ pc' = "checked"
    /\ UNCHANGED <<vars, argv, argp, flags, item, refusals>>

\* The destructor of the client closes the connection.
Exit ==
    /\ pc' = "done"
    /\ m_NetMan!Close
    /\ UNCHANGED <<at, request, m_pLast_response, result, serverVars, historyVars,
                   argv, argp, flags, item, refusals>>

Usage == pc = "checked" /\ ~flags.valid /\ Exit

\* The client is made, and the arguments and its address are not read again.
Construct ==
    /\ pc = "checked"
    /\ flags.valid
    /\ argv' = <<>>
    /\ argp' = 1
    /\ flags' = [flags EXCEPT !.host = Defaults.host, !.port = Defaults.port]
    /\ pc' = "version"
    /\ UNCHANGED <<vars, item, refusals>>

\* A command is called, and main goes on when it has returned.
Calls(place, command, next) ==
    /\ pc = place
    /\ command
    /\ pc' = next
    /\ UNCHANGED <<argv, argp, flags, item, refusals>>

Returned(place) == pc = place /\ at = "idle" /\ result.kind = "returned"

\* Nothing catches a NetworkError.
Terminate ==
    /\ at = "idle"
    /\ result.kind = "threw"
    /\ pc # "done"
    /\ pc' = "done"
    /\ UNCHANGED <<vars, argv, argp, flags, item, refusals>>

AfterLogin == IF flags.shutdown THEN "shutdown" ELSE "assign"

Goes(next) == pc' = next /\ UNCHANGED <<vars, argv, argp, flags, item, refusals>>

VersionPrinted ==
    Returned("versionAsked") /\ Goes(IF flags.login THEN "login" ELSE AfterLogin)

LoginReturned ==
    /\ Returned("loginAsked")
    /\ IF result.value THEN Goes(AfterLogin) ELSE Exit

AssignPrinted == Returned("assigned") /\ Goes("eval")

EvalPrinted ==
    /\ Returned("evaluated")
    /\ IF item = Len(Script) THEN Exit
       ELSE /\ item' = item + 1
            /\ pc' = "assign"
            /\ UNCHANGED <<vars, argv, argp, flags, refusals>>

main ==
    \/ Start
    \/ checkFlags
    \/ FlagsChecked
    \/ Usage
    \/ Construct
    \/ Calls("version", getRserveVersion, "versionAsked")
    \/ VersionPrinted
    \/ Calls("login", login(flags.pwd), "loginAsked")
    \/ LoginReturned
    \/ Calls("shutdown", shutdown, "shutdownAsked")
    \/ Returned("shutdownAsked") /\ Exit
    \/ Calls("assign", assign(Script[item].sym, Script[item].expr), "assigned")
    \/ AssignPrinted
    \/ Calls("eval", eval(Script[item].sym), "evaluated")
    \/ EvalPrinted
    \/ Terminate

\* R may refuse what it could do, MaxRefusals times.
RefusalsBounded ==
    IF /\ done' /\ ~done /\ ~isOk(reply') /\ Authorized
       /\ request.cmd = "CMD_eval" => workspace[request.expr] # Unset
       /\ request.cmd # "CMD_login"
      THEN refusals < MaxRefusals /\ refusals' = refusals + 1
      ELSE UNCHANGED refusals

\* The client was made with the flag of the demo: the parameter AnyVersion lets
\* every version in, and NetworkManager's check is made here.
ClientStep ==
    /\ Running
    /\ version' \in {version, NoVersion} \/ versionMatch(version', flags.anyVersion)
    /\ RefusalsBounded
    /\ UNCHANGED <<pc, argv, argp, flags, item>>

\* The process has ended.
Done == pc = "done" /\ UNCHANGED allVars

DemoNext == main \/ ClientStep \/ Done

DemoSpec == DemoInit /\ [][DemoNext]_allVars

-----------------------------------------------------------------------------
(* Properties. *)

\* What usage says of the arguments: all flags can be combined, in any order,
\* and none is used when one is not a flag, lacks a value or is one too many.
\* Here an argument is judged by its neighbours and not by a scan.
Follows(k, flag) == k > 1 /\ argv[k - 1] = flag
IsValue(k) ==
    argv[k] \notin Dashed
      /\ (Follows(k, "-h") \/ Follows(k, "-p") \/ Follows(k, "-l")
            \/ (k > 2 /\ argv[k - 2] = "-l"))
Filled(k, n) == \A j \in (k + 1)..(k + n) : j \in DOMAIN argv /\ argv[j] \notin Dashed
IsFlag(k) ==
    \/ argv[k] \in {"-s", "-a"}
    \/ argv[k] \in {"-h", "-p"} /\ Filled(k, 1)
    \/ argv[k] = "-l" /\ Filled(k, 2)

FlagsCombine ==
    pc = "checked" =>
        /\ flags.valid <=>
             Len(argv) <= MaxArguments /\ \A k \in DOMAIN argv : IsFlag(k) \/ IsValue(k)
        /\ flags.valid =>
             /\ flags.shutdown <=> "-s" \in ToSet(argv)
             /\ flags.anyVersion <=> "-a" \in ToSet(argv)
             /\ flags.login <=> "-l" \in ToSet(argv)
             /\ \A k \in DOMAIN argv :
                  (\A j \in DOMAIN argv : j > k => argv[j] # argv[k]) =>
                      /\ argv[k] = "-h" => flags.host = argv[k + 1]
                      /\ argv[k] = "-p" => flags.port = Port(argv[k + 1])
                      /\ argv[k] = "-l" => flags.pwd = argv[k + 2]

\* What main's vectors hold, with what it prints for a missing value.
strings == [vec_str EXCEPT ![4] = NOT_AVAILABLE.str]
tagged == <<<<Names[1], vec_d>>, <<Names[2], vec_i>>, <<Names[3], strings>>>>

Held == <<vec_d, strings, vec_i, <<vec_str[1]>>, <<<<13>>>>, <<<<7125>>>>, vec_d, strings, vec_i,
          <<vec_d, strings, vec_i>>, tagged,
          vec_d, vec_i, strings, <<vec_d, strings, vec_i>>, tagged>>

HeldMember == [k \in DOMAIN Script |-> CASE k = 11 -> vec_d [] k = 16 -> strings [] OTHER -> <<>>]

\* The demo shows for each symbol what it has assigned to it, through every
\* class of objects, the entries, the session and back: the values, its own
\* text for missing ones, the names, the member that it asks for by name and
\* the attributes.  Only when the response says that the command failed is the
\* object another one, and only then is the symbol without its value.
ShowsItsData ==
    /\ Returned("assigned") =>
         (printAssignStatus.successful <=> workspace[Script[item].sym] # Unset)
    /\ Returned("evaluated") =>
         printEvalStatus(Script[item], result.value) =
             IF response_isSuccessful
               THEN [contents |-> Held[item],
                     attributes |-> IF item < 12 THEN <<>>
                                    ELSE <<<<<<<<3, 4>>, attr_str>>>>>>,
                     member |-> HeldMember[item]]
               ELSE Unexpected

-----------------------------------------------------------------------------
(* The inductive invariant behind the first two. *)

\* The arguments before argp are flags and their values, and flags has what
\* they say.  The argument at argp is nobody's value.
FlagsRead ==
    LET read == 1..argp - 1
        Read(flag) == \E k \in read : argv[k] = flag
    IN  /\ argp \in 1..Len(argv) + 1
        /\ Len(argv) <= MaxArguments
        /\ flags.valid
        /\ argp > 1 => argv[argp - 1] \notin {"-h", "-p", "-l"}
        /\ argp > 2 => argv[argp - 2] # "-l"
        /\ \A k \in read : IsFlag(k) \/ IsValue(k)
        /\ flags.shutdown <=> Read("-s")
        /\ flags.anyVersion <=> Read("-a")
        /\ flags.login <=> Read("-l")
        /\ \A k \in read :
             (\A j \in read : j > k => argv[j] # argv[k]) =>
                 /\ argv[k] = "-h" => flags.host = argv[k + 1]
                 /\ argv[k] = "-p" => flags.port = Port(argv[k + 1])
                 /\ argv[k] = "-l" => flags.pwd = argv[k + 2]

Texts == {Defaults.host, Defaults.user} \cup UNION {ToSet(args) : args \in Argvs}

FlagsType ==
    [valid : BOOLEAN, host : Texts, port : Int, user : Texts, pwd : Texts,
     login : BOOLEAN, shutdown : BOOLEAN, anyVersion : BOOLEAN]

FlagsInv ==
    /\ pc \in {"start", "checkFlags", "checked"} => argv \in Argvs
    /\ pc = "start" => argp = 1 /\ flags = Defaults
    /\ pc = "checkFlags" => FlagsRead
    /\ FlagsCombine
    /\ flags \in FlagsType
    /\ flags.login => flags.pwd \in Passwords

\* The commands that may be in progress at a place of main.
CommandsAt(place) ==
    LET line == Script[item]
    IN  CASE place = "versionAsked" -> {VersionQuery}
          [] place = "loginAsked" -> LoginRequests
          [] place = "shutdownAsked" -> {Shutdown}
          [] place = "assigned" ->
               {[cmd |-> "CMD_setSEXP", sym |-> line.sym, expr |-> line.expr]}
          [] place = "evaluated" -> {[cmd |-> "CMD_eval", expr |-> line.sym]}
          [] OTHER -> {}

PlaceInv ==
    /\ item \in DOMAIN Script
    /\ pc = "login" => flags.login
    /\ at # "idle" => request \in CommandsAt(pc)

\* Before its turn a symbol has no value.  Then it has its own or, because the
\* assignment failed or the session is another one, none; and the demo has
\* been told which.
TurnInv ==
    LET line == Script[item]
        held == workspace[line.sym]
    IN  /\ \A k \in DOMAIN Script :
             k > item \/ (k = item /\ pc \notin {"assigned", "eval", "evaluated"}) =>
                 workspace[Script[k].sym] = Unset
        /\ held \in {Unset, Encoded(line.expr)}
        /\ pc = "assigned" /\ at # "idle" =>
             (held # Unset <=> done /\ isOk(reply))
        /\ Returned("assigned") => (response_isSuccessful <=> held # Unset)
        /\ Returned("evaluated") =>
             result.value = IF response_isSuccessful THEN line.expr ELSE NullObject

\* While main runs RClient keeps its invariant, and main its own.
DemoInv ==
    pc # "done" => TypeOK /\ CommandInv /\ PlaceInv /\ TurnInv
=============================================================================
