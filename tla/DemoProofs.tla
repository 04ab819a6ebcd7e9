----------------------------- MODULE DemoProofs -----------------------------
(***************************************************************************)
(* The demo shows what it assigned and reads its flags as its usage says,  *)
(* for every server, every arguments and every codec that decodes what it  *)
(* has encoded.                                                            *)
(***************************************************************************)
EXTENDS Demo, RClientProofs, CodecProofs

-----------------------------------------------------------------------------
(* The flags. *)

LEMMA DefaultsType ==
    /\ Defaults \in FlagsType
    /\ Defaults.host \in Texts /\ Defaults.port \in Int
    /\ Defaults.valid
    /\ ~Defaults.login /\ ~Defaults.shutdown /\ ~Defaults.anyVersion
<1>1. Defaults.host \in Texts /\ Defaults.user \in Texts
  BY DEF Texts
<1>2. Defaults.user = "none" /\ Defaults.pwd = "none" /\ Defaults.port = 6311
  BY DEF Defaults
<1>3. Defaults.port \in Int /\ Defaults.pwd \in Texts
  BY <1>1, <1>2
<1>4. Defaults.valid /\ ~Defaults.login /\ ~Defaults.shutdown /\ ~Defaults.anyVersion
  BY DEF Defaults
<1>5. Defaults \in FlagsType
  BY <1>1, <1>3, <1>4 DEF Defaults, FlagsType
<1>. QED
  BY <1>1, <1>3, <1>4, <1>5

LEMMA ArgvType ==
    ASSUME argv \in Argvs
    PROVE  /\ Len(argv) \in Nat
           /\ DOMAIN argv = 1..Len(argv)
           /\ \A k \in DOMAIN argv : argv[k] \in Texts /\ Port(argv[k]) \in Int
<1>1. argv \in Seq(STRING)
  BY ArgvsAssumption
<1>2. /\ Len(argv) \in Nat
      /\ DOMAIN argv = 1..Len(argv)
      /\ \A k \in DOMAIN argv : Port(argv[k]) \in Int
  BY <1>1, PortAssumption
<1>3. ToSet(argv) \subseteq Texts
  BY DEF Texts
<1>4. \A k \in DOMAIN argv : argv[k] \in Texts
  BY <1>3 DEF ToSet
<1>. QED
  BY <1>2, <1>4

\* What a turn of checkFlags finds: a flag with n values, none of them dashed.
LEMMA OneFlagRead ==
    ASSUME argv \in Argvs, FlagsRead, argp <= Len(argv),
           argv' = argv,
           NEW flag \in Options, NEW n \in 0..2,
           n = 1 <=> flag \in {"-h", "-p"}, n = 2 <=> flag = "-l",
           argv[argp] = flag, HasValues(n), argp' = argp + n + 1,
           flags'.valid,
           flags'.shutdown <=> (flags.shutdown \/ flag = "-s"),
           flags'.anyVersion <=> (flags.anyVersion \/ flag = "-a"),
           flags'.login <=> (flags.login \/ flag = "-l"),
           flags'.host = IF flag = "-h" THEN argv[argp + 1] ELSE flags.host,
           flags'.port = IF flag = "-p" THEN Port(argv[argp + 1]) ELSE flags.port,
           flags'.pwd = IF flag = "-l" THEN argv[argp + 2] ELSE flags.pwd,
           flags.shutdown \in BOOLEAN, flags.anyVersion \in BOOLEAN,
           flags.login \in BOOLEAN
    PROVE  FlagsRead'
<1> DEFINE p == argp
           L == Len(argv)
<1>0. /\ L \in Nat /\ DOMAIN argv = 1..L /\ p \in 1..L /\ Options \subseteq Dashed
      /\ Len(argv') = L
  BY ArgvType, DashedAssumption DEF FlagsRead
<1>1. /\ p + n <= L
      /\ \A k \in p + 1..p + n : argv[k] \notin Dashed
  BY DEF HasValues
<1>2. /\ argp' \in 1..L + 1
      /\ 1..argp' - 1 = (1..p - 1) \cup (p..p + n)
      /\ p..p + n = {p} \cup (p + 1..p + n)
  BY <1>0, <1>1
<1>3. /\ argv[argp' - 1] \notin {"-h", "-p", "-l"}
      /\ argp' > 2 => argv[argp' - 2] # "-l"
  <2>1. CASE n = 0
    BY <1>0, <2>1 DEF FlagsRead
  <2>2. CASE n = 1
    BY <1>0, <1>1, <2>2 DEF Options
  <2>3. CASE n = 2
    BY <1>0, <1>1, <2>3 DEF Options
  <2>. QED
    BY <2>1, <2>2, <2>3
<1>4. IsFlag(p) /\ \A k \in p + 1..p + n : IsValue(k)
  <2>1. IsFlag(p)
    <3>1. Filled(p, n)
      BY <1>0, <1>1 DEF Filled
    <3>. QED
      BY <3>1 DEF IsFlag, Options
  <2>2. \A k \in p + 1..p + n : IsValue(k)
    <3>1. CASE n = 0
      BY <1>0, <3>1
    <3>2. CASE n = 1
      BY <1>0, <1>1, <3>2 DEF IsValue, Follows
    <3>3. CASE n = 2
      BY <1>0, <1>1, <3>3 DEF IsValue, Follows
    <3>. QED
      BY <3>1, <3>2, <3>3
  <2>. QED
    BY <2>1, <2>2
<1>5. \A k : IsFlag(k)' = IsFlag(k) /\ IsValue(k)' = IsValue(k)
  BY DEF IsFlag, IsValue, Filled, Follows
<1>6. \A f \in Options :
        (\E k \in 1..argp' - 1 : argv[k] = f) <=>
          (\E k \in 1..p - 1 : argv[k] = f) \/ f = flag
  BY <1>0, <1>1, <1>2 DEF Options
<1>7. ASSUME NEW k \in 1..argp' - 1,
             \A j \in 1..argp' - 1 : j > k => argv[j] # argv[k]
      PROVE  /\ argv[k] = "-h" => flags'.host = argv[k + 1]
             /\ argv[k] = "-p" => flags'.port = Port(argv[k + 1])
             /\ argv[k] = "-l" => flags'.pwd = argv[k + 2]
  <2>1. CASE k \in 1..p - 1
    <3>1. argv[k] # flag
      BY <1>0, <1>2, <1>7, <2>1, SMTT(30)
    <3>2. \A j \in 1..p - 1 : j > k => argv[j] # argv[k]
      BY <1>2, <1>7
    <3>. QED
      BY <2>1, <3>1, <3>2 DEF FlagsRead
  <2>2. CASE k = p
    BY <2>2
  <2>3. CASE k \in p + 1..p + n
    BY <1>0, <1>1, <2>3 DEF Options
  <2>. QED
    BY <1>2, <2>1, <2>2, <2>3
<1>8. \A k \in 1..argp' - 1 : IsFlag(k) \/ IsValue(k)
  BY <1>2, <1>4 DEF FlagsRead
<1>9. /\ flags'.shutdown <=> \E k \in 1..argp' - 1 : argv[k] = "-s"
      /\ flags'.anyVersion <=> \E k \in 1..argp' - 1 : argv[k] = "-a"
      /\ flags'.login <=> \E k \in 1..argp' - 1 : argv[k] = "-l"
  BY <1>6 DEF FlagsRead, Options
<1>. QED
  BY <1>0, <1>2, <1>3, <1>5, <1>7, <1>8, <1>9 DEF FlagsRead

\* An argument at which checkFlags gives up is neither a flag nor a value.
LEMMA NoFlagFound ==
    ASSUME argv \in Argvs, FlagsRead, argp <= Len(argv), NoFlag
    PROVE  ~IsFlag(argp) /\ ~IsValue(argp)
<1>1. /\ Len(argv) \in Nat /\ DOMAIN argv = 1..Len(argv) /\ argp \in 1..Len(argv)
  BY ArgvType DEF FlagsRead
<1>2. ~IsValue(argp)
  BY <1>1 DEF IsValue, Follows, FlagsRead
<1>3. \A n \in 1..2 : HasValues(n) <=> Filled(argp, n)
  <2>1. ASSUME NEW n \in 1..2
        PROVE  HasValues(n) <=> Filled(argp, n)
    BY <1>1, <2>1 DEF HasValues, Filled
  <2>. QED
    BY <2>1
<1>4. ~IsFlag(argp)
  BY <1>1, <1>3 DEF IsFlag, NoFlag
<1>. QED
  BY <1>2, <1>4

\* At the end of the loop flags has what all the arguments say.
LEMMA AllFlagsRead ==
    ASSUME argv \in Argvs, FlagsRead, argp > Len(argv), pc' = "checked",
           UNCHANGED <<argv, flags>>
    PROVE  FlagsCombine'
<1>1. /\ Len(argv) \in Nat /\ DOMAIN argv = 1..Len(argv) /\ argp = Len(argv) + 1
      /\ argp - 1 = Len(argv)
  <2>1. Len(argv) \in Nat /\ DOMAIN argv = 1..Len(argv) /\ argp \in 1..Len(argv) + 1
    BY ArgvType DEF FlagsRead
  <2>. QED
    BY <2>1
<1>2. \A f : f \in ToSet(argv) <=> \E k \in DOMAIN argv : argv[k] = f
  BY DEF ToSet
<1>3. \A k : IsFlag(k)' = IsFlag(k) /\ IsValue(k)' = IsValue(k)
  BY DEF IsFlag, IsValue, Filled, Follows
<1>4. /\ Len(argv) <= MaxArguments
      /\ flags.valid
      /\ \A k \in DOMAIN argv : IsFlag(k) \/ IsValue(k)
      /\ flags.shutdown <=> "-s" \in ToSet(argv)
      /\ flags.anyVersion <=> "-a" \in ToSet(argv)
      /\ flags.login <=> "-l" \in ToSet(argv)
      /\ \A k \in DOMAIN argv :
           (\A j \in DOMAIN argv : j > k => argv[j] # argv[k]) =>
               /\ argv[k] = "-h" => flags.host = argv[k + 1]
               /\ argv[k] = "-p" => flags.port = Port(argv[k + 1])
               /\ argv[k] = "-l" => flags.pwd = argv[k + 2]
  <2>1. 1..argp - 1 = DOMAIN argv
    BY <1>1
  <2>2. /\ flags.shutdown <=> \E k \in DOMAIN argv : argv[k] = "-s"
        /\ flags.anyVersion <=> \E k \in DOMAIN argv : argv[k] = "-a"
        /\ flags.login <=> \E k \in DOMAIN argv : argv[k] = "-l"
    BY <2>1, Zenon DEF FlagsRead
  <2>3. /\ Len(argv) <= MaxArguments
        /\ flags.valid
        /\ \A k \in DOMAIN argv : IsFlag(k) \/ IsValue(k)
        /\ \A k \in DOMAIN argv :
             (\A j \in DOMAIN argv : j > k => argv[j] # argv[k]) =>
                 /\ argv[k] = "-h" => flags.host = argv[k + 1]
                 /\ argv[k] = "-p" => flags.port = Port(argv[k + 1])
                 /\ argv[k] = "-l" => flags.pwd = argv[k + 2]
    BY <2>1, Zenon DEF FlagsRead
  <2>. QED
    BY <1>2, <2>2, <2>3, Zenon
<1>. QED
  BY <1>3, <1>4 DEF FlagsCombine


LEMMA FlagsCheckedStep ==
    ASSUME FlagsInv, checkFlags
    PROVE  FlagsInv'
<1>0. /\ pc = "checkFlags" /\ argv \in Argvs /\ FlagsRead /\ argp <= Len(argv)
      /\ flags \in FlagsType /\ argv' = argv /\ flags.valid
      /\ flags.login => flags.pwd \in Passwords
  BY DEF FlagsInv, checkFlags, FlagsRead
<1>1. /\ Len(argv) \in Nat /\ DOMAIN argv = 1..Len(argv)
      /\ argp \in 1..Len(argv)
      /\ \A k \in DOMAIN argv : argv[k] \in Texts /\ Port(argv[k]) \in Int
  BY <1>0, ArgvType DEF FlagsRead
<1>2. ASSUME FlagsRead', pc' = "checkFlags", flags' \in FlagsType,
             flags'.login => flags'.pwd \in Passwords
      PROVE  FlagsInv'
  BY <1>0, <1>2 DEF FlagsInv, FlagsCombine
<1>3. CASE Reads("-h", 1, [flags EXCEPT !.host = argv[argp + 1]])
  <2>1. argv[argp + 1] \in Texts
    BY <1>1, <1>3 DEF Reads, HasValues
  <2>2. flags' = [flags EXCEPT !.host = argv[argp + 1]] /\ flags' \in FlagsType
    BY <1>0, <1>3, <2>1 DEF Reads, FlagsType
  <2>3. FlagsRead'
    <3>1. /\ flags'.valid
          /\ flags'.shutdown <=> (flags.shutdown \/ "-h" = "-s")
          /\ flags'.anyVersion <=> (flags.anyVersion \/ "-h" = "-a")
          /\ flags'.login <=> (flags.login \/ "-h" = "-l")
          /\ flags'.host = IF "-h" = "-h" THEN argv[argp + 1] ELSE flags.host
          /\ flags'.port = IF "-h" = "-p" THEN Port(argv[argp + 1]) ELSE flags.port
          /\ flags'.pwd = IF "-h" = "-l" THEN argv[argp + 2] ELSE flags.pwd
          /\ flags.shutdown \in BOOLEAN /\ flags.anyVersion \in BOOLEAN
          /\ flags.login \in BOOLEAN
      BY <1>0, <2>2 DEF FlagsType
    <3>2. /\ argv[argp] = "-h" /\ HasValues(1) /\ argp' = argp + 1 + 1
          /\ "-h" \in Options
      BY <1>0, <1>3 DEF Reads, Options
    <3>. QED
      BY <1>0, <3>1, <3>2, OneFlagRead
  <2>. QED
    BY <1>0, <1>2, <1>3, <2>2, <2>3 DEF Reads
<1>4. CASE Reads("-p", 1, [flags EXCEPT !.port = Port(argv[argp + 1])])
  <2>1. Port(argv[argp + 1]) \in Int
    BY <1>1, <1>4 DEF Reads, HasValues
  <2>2. flags' = [flags EXCEPT !.port = Port(argv[argp + 1])] /\ flags' \in FlagsType
    BY <1>0, <1>4, <2>1 DEF Reads, FlagsType
  <2>3. FlagsRead'
    <3>1. /\ flags'.valid
          /\ flags'.shutdown <=> (flags.shutdown \/ "-p" = "-s")
          /\ flags'.anyVersion <=> (flags.anyVersion \/ "-p" = "-a")
          /\ flags'.login <=> (flags.login \/ "-p" = "-l")
          /\ flags'.host = IF "-p" = "-h" THEN argv[argp + 1] ELSE flags.host
          /\ flags'.port = IF "-p" = "-p" THEN Port(argv[argp + 1]) ELSE flags.port
          /\ flags'.pwd = IF "-p" = "-l" THEN argv[argp + 2] ELSE flags.pwd
          /\ flags.shutdown \in BOOLEAN /\ flags.anyVersion \in BOOLEAN
          /\ flags.login \in BOOLEAN
      BY <1>0, <2>2 DEF FlagsType
    <3>2. /\ argv[argp] = "-p" /\ HasValues(1) /\ argp' = argp + 1 + 1
          /\ "-p" \in Options
      BY <1>0, <1>4 DEF Reads, Options
    <3>. QED
      BY <1>0, <3>1, <3>2, OneFlagRead
  <2>. QED
    BY <1>0, <1>2, <1>4, <2>2, <2>3 DEF Reads
<1>5. CASE LoginFlag
  <2>1. /\ argv[argp + 1] \in Texts /\ argv[argp + 2] \in Texts
        /\ argv[argp + 2] \in Passwords
    <3>1. argp + 2 <= Len(argv) /\ argv[argp + 2] \notin Dashed /\ argv[argp] = "-l"
      BY <1>1, <1>5 DEF LoginFlag, Reads, HasValues
    <3>2. argp \in DOMAIN argv /\ argp + 1 \in DOMAIN argv /\ argp + 2 \in DOMAIN argv
      BY <1>1, <3>1
    <3>. QED
      BY <1>0, <1>1, <3>1, <3>2, ArgvsAssumption
  <2>2. /\ flags' = [flags EXCEPT !.login = TRUE, !.user = argv[argp + 1],
                                  !.pwd = argv[argp + 2]]
        /\ flags' \in FlagsType
    BY <1>0, <1>5, <2>1 DEF LoginFlag, Reads, FlagsType
  <2>3. FlagsRead'
    <3>1. /\ flags'.valid
          /\ flags'.shutdown <=> (flags.shutdown \/ "-l" = "-s")
          /\ flags'.anyVersion <=> (flags.anyVersion \/ "-l" = "-a")
          /\ flags'.login <=> (flags.login \/ "-l" = "-l")
          /\ flags'.host = IF "-l" = "-h" THEN argv[argp + 1] ELSE flags.host
          /\ flags'.port = IF "-l" = "-p" THEN Port(argv[argp + 1]) ELSE flags.port
          /\ flags'.pwd = IF "-l" = "-l" THEN argv[argp + 2] ELSE flags.pwd
          /\ flags.shutdown \in BOOLEAN /\ flags.anyVersion \in BOOLEAN
          /\ flags.login \in BOOLEAN
      BY <1>0, <2>2 DEF FlagsType
    <3>2. /\ argv[argp] = "-l" /\ HasValues(2) /\ argp' = argp + 2 + 1
          /\ "-l" \in Options
      BY <1>0, <1>5 DEF LoginFlag, Reads, Options
    <3>. QED
      BY <1>0, <3>1, <3>2, OneFlagRead
  <2>. QED
    BY <1>0, <1>2, <1>5, <2>1, <2>2, <2>3 DEF LoginFlag, Reads
<1>6. CASE Reads("-s", 0, [flags EXCEPT !.shutdown = TRUE])
  <2>1. flags' = [flags EXCEPT !.shutdown = TRUE] /\ flags' \in FlagsType
    BY <1>0, <1>6 DEF Reads, FlagsType
  <2>2. FlagsRead'
    <3>1. /\ flags'.valid
          /\ flags'.shutdown <=> (flags.shutdown \/ "-s" = "-s")
          /\ flags'.anyVersion <=> (flags.anyVersion \/ "-s" = "-a")
          /\ flags'.login <=> (flags.login \/ "-s" = "-l")
          /\ flags'.host = IF "-s" = "-h" THEN argv[argp + 1] ELSE flags.host
          /\ flags'.port = IF "-s" = "-p" THEN Port(argv[argp + 1]) ELSE flags.port
          /\ flags'.pwd = IF "-s" = "-l" THEN argv[argp + 2] ELSE flags.pwd
          /\ flags.shutdown \in BOOLEAN /\ flags.anyVersion \in BOOLEAN
          /\ flags.login \in BOOLEAN
      BY <1>0, <2>1 DEF FlagsType
    <3>2. /\ argv[argp] = "-s" /\ HasValues(0) /\ argp' = argp + 0 + 1
          /\ "-s" \in Options
      BY <1>0, <1>6 DEF Reads, Options
    <3>. QED
      BY <1>0, <3>1, <3>2, OneFlagRead
  <2>. QED
    BY <1>0, <1>2, <1>6, <2>1, <2>2 DEF Reads
<1>7. CASE Reads("-a", 0, [flags EXCEPT !.anyVersion = TRUE])
  <2>1. flags' = [flags EXCEPT !.anyVersion = TRUE] /\ flags' \in FlagsType
    BY <1>0, <1>7 DEF Reads, FlagsType
  <2>2. FlagsRead'
    <3>1. /\ flags'.valid
          /\ flags'.shutdown <=> (flags.shutdown \/ "-a" = "-s")
          /\ flags'.anyVersion <=> (flags.anyVersion \/ "-a" = "-a")
          /\ flags'.login <=> (flags.login \/ "-a" = "-l")
          /\ flags'.host = IF "-a" = "-h" THEN argv[argp + 1] ELSE flags.host
          /\ flags'.port = IF "-a" = "-p" THEN Port(argv[argp + 1]) ELSE flags.port
          /\ flags'.pwd = IF "-a" = "-l" THEN argv[argp + 2] ELSE flags.pwd
          /\ flags.shutdown \in BOOLEAN /\ flags.anyVersion \in BOOLEAN
          /\ flags.login \in BOOLEAN
      BY <1>0, <2>1 DEF FlagsType
    <3>2. /\ argv[argp] = "-a" /\ HasValues(0) /\ argp' = argp + 0 + 1
          /\ "-a" \in Options
      BY <1>0, <1>7 DEF Reads, Options
    <3>. QED
      BY <1>0, <3>1, <3>2, OneFlagRead
  <2>. QED
    BY <1>0, <1>2, <1>7, <2>1, <2>2 DEF Reads
<1>8. CASE NoFlag
  <2>1. ~IsFlag(argp) /\ ~IsValue(argp)
    BY <1>0, <1>8, NoFlagFound
  <2>2. /\ pc' = "checked" /\ argp' = argp
        /\ flags' = [flags EXCEPT !.valid = FALSE] /\ flags' \in FlagsType
        /\ ~flags'.valid /\ flags'.login = flags.login /\ flags'.pwd = flags.pwd
    BY <1>0, <1>8 DEF NoFlag, FlagsType
  <2>3. FlagsCombine'
    BY <1>0, <1>1, <2>1, <2>2 DEF FlagsCombine, IsFlag, IsValue, Filled, Follows
  <2>. QED
    BY <1>0, <2>2, <2>3 DEF FlagsInv
<1>. QED
  BY <1>3, <1>4, <1>5, <1>6, <1>7, <1>8 DEF checkFlags

\* The rest of main does not read the arguments.
LEMMA FlagsKept ==
    ASSUME FlagsInv, UNCHANGED <<argv, argp, flags>>,
           pc' = pc \/ pc' \notin {"start", "checkFlags", "checked"}
    PROVE  FlagsInv'
<1>1. CASE pc' = pc
  BY <1>1 DEF FlagsInv, FlagsRead, FlagsCombine, IsFlag, IsValue, Filled, Follows
<1>2. CASE pc' \notin {"start", "checkFlags", "checked"}
  BY <1>2 DEF FlagsInv, FlagsCombine
<1>. QED
  BY <1>1, <1>2

LEMMA FlagsInit == DemoInit => FlagsInv
<1> SUFFICES ASSUME DemoInit PROVE FlagsInv
  OBVIOUS
<1>. QED
  BY DefaultsType DEF DemoInit, FlagsInv, FlagsCombine

LEMMA FlagsNext ==
    ASSUME FlagsInv, [DemoNext]_allVars
    PROVE  FlagsInv'
<1> DEFINE Quiet == /\ UNCHANGED <<argv, argp, flags>>
                    /\ pc' = pc \/ pc' \notin {"start", "checkFlags", "checked"}
<1>1. CASE Start
  <2>1. /\ pc = "start" /\ argv \in Argvs /\ argp = 1 /\ flags = Defaults
        /\ argv' = argv /\ argp' = 1
    BY <1>1 DEF Start, FlagsInv
  <2>2. Len(argv) \in Nat /\ DOMAIN argv = 1..Len(argv)
    BY <2>1, ArgvType
  <2>3. CASE Len(argv) > MaxArguments
    <3>1. pc' = "checked" /\ flags' = [Defaults EXCEPT !.valid = FALSE]
      BY <1>1, <2>1, <2>3 DEF Start
    <3>2. ~flags'.valid /\ ~flags'.login /\ flags' \in FlagsType
      BY <3>1, DefaultsType DEF FlagsType
    <3>. QED
      BY <2>1, <2>2, <2>3, <3>1, <3>2 DEF FlagsInv, FlagsCombine, MaxArguments
  <2>4. CASE ~(Len(argv) > MaxArguments)
    <3>1. pc' = "checkFlags" /\ flags' = flags
      BY <1>1, <2>4 DEF Start
    <3>2. FlagsRead'
      BY <2>1, <2>2, <2>4, <3>1, DefaultsType DEF FlagsRead, MaxArguments
    <3>. QED
      BY <2>1, <3>1, <3>2, DefaultsType DEF FlagsInv, FlagsCombine
  <2>. QED
    BY <2>3, <2>4
<1>2. CASE checkFlags
  BY <1>2, FlagsCheckedStep
<1>3. CASE FlagsChecked
  BY <1>3, AllFlagsRead DEF FlagsChecked, FlagsInv
<1>4. CASE Construct
  <2>1. /\ pc' = "version"
        /\ flags' = [flags EXCEPT !.host = Defaults.host, !.port = Defaults.port]
    BY <1>4 DEF Construct
  <2>. QED
    BY <2>1, DefaultsType DEF FlagsInv, FlagsCombine, FlagsType
<1>5. CASE Usage \/ Terminate \/ VersionPrinted \/ LoginReturned \/ AssignPrinted
             \/ EvalPrinted \/ (Returned("shutdownAsked") /\ Exit)
  <2>1. Quiet
    BY <1>5
    DEF Usage, Terminate, VersionPrinted, LoginReturned, AssignPrinted, EvalPrinted,
        Exit, Goes, AfterLogin
  <2>. QED
    BY <2>1, FlagsKept
<1>6. ASSUME NEW place, NEW next \in {"versionAsked", "loginAsked", "shutdownAsked",
                                      "assigned", "evaluated"},
             pc' = next, UNCHANGED <<argv, argp, flags, item, refusals>>
      PROVE  FlagsInv'
  BY <1>6, FlagsKept
<1>7. CASE \/ Calls("version", getRserveVersion, "versionAsked")
           \/ Calls("login", login(flags.pwd), "loginAsked")
           \/ Calls("shutdown", shutdown, "shutdownAsked")
           \/ Calls("assign", assign(Script[item].sym, Script[item].expr), "assigned")
           \/ Calls("eval", eval(Script[item].sym), "evaluated")
  BY <1>6, <1>7 DEF Calls
<1>8. CASE ClientStep \/ Done \/ UNCHANGED allVars
  <2>1. Quiet
    BY <1>8 DEF ClientStep, Done, allVars, demoVars
  <2>. QED
    BY <2>1, FlagsKept
<1>. QED
  BY <1>1, <1>2, <1>3, <1>4, <1>5, <1>7, <1>8 DEF DemoNext, main

\* The flags of the demo are what its usage says, however many arguments there
\* are and in whatever order.
THEOREM FlagsAreRead == DemoSpec => []FlagsInv
<1>. QED
  BY FlagsInit, FlagsNext, PTL DEF DemoSpec

THEOREM FlagsAreCombined == DemoSpec => []FlagsCombine
<1>1. FlagsInv => FlagsCombine
  BY DEF FlagsInv
<1>. QED
  BY <1>1, FlagsAreRead, PTL

-----------------------------------------------------------------------------
(* The commands of main. *)

LEMMA ScriptLength == Len(Script) = 16 /\ DOMAIN Script = 1..16
BY DEF Script

LEMMA SymbolsOfScript ==
    /\ Script[1].sym = "vec_d" /\ Script[2].sym = "vec_s"
    /\ Script[3].sym = "vec_i" /\ Script[4].sym = "single_s"
    /\ Script[5].sym = "single_i" /\ Script[6].sym = "single_d"
    /\ Script[7].sym = "rexp_d" /\ Script[8].sym = "rexp_s"
    /\ Script[9].sym = "rexp_i" /\ Script[10].sym = "rexp_list"
    /\ Script[11].sym = "rexp_pairlist" /\ Script[12].sym = "rexp_d_attr"
    /\ Script[13].sym = "rexp_int_attr" /\ Script[14].sym = "rexp_str_attr"
    /\ Script[15].sym = "rexp_list_attr" /\ Script[16].sym = "rexp_pair_attr"
BY SMTT(30) DEF Script, Line

\* No symbol is assigned twice.
LEMMA SymbolsDiffer ==
    \A j, k \in DOMAIN Script : Script[j].sym = Script[k].sym => j = k
BY ScriptLength, SymbolsOfScript

\* A command in progress says where main is.
LEMMA CommandKinds ==
    ASSUME NEW place, request \in CommandsAt(place)
    PROVE  \/ place = "versionAsked" /\ request.cmd = "version"
           \/ /\ place = "loginAsked" /\ request.cmd = "CMD_login"
              /\ request \in LoginRequests
           \/ place = "shutdownAsked" /\ request.cmd = "CMD_shutdown"
           \/ /\ place = "assigned" /\ request.cmd = "CMD_setSEXP"
              /\ request.sym = Script[item].sym /\ request.expr = Script[item].expr
           \/ /\ place = "evaluated" /\ request.cmd = "CMD_eval"
              /\ request.expr = Script[item].sym
BY RequestKinds DEF CommandsAt

\* main calls the commands of a consumer, and otherwise leaves the client as it
\* is until it ends.
LEMMA ClientSteps ==
    ASSUME FlagsInv, PlaceInv, [DemoNext]_allVars
    PROVE  pc' = "done" \/ [Next]_vars
<1>1. CASE Calls("version", getRserveVersion, "versionAsked")
  BY <1>1 DEF Calls, Next, Consumer
<1>2. CASE Calls("login", login(flags.pwd), "loginAsked")
  <2>1. flags.pwd \in Passwords
    BY <1>2 DEF Calls, PlaceInv, FlagsInv
  <2>. QED
    BY <1>2, <2>1 DEF Calls, Next, Consumer
<1>3. CASE Calls("shutdown", shutdown, "shutdownAsked")
  BY <1>3 DEF Calls, Next, Consumer
<1>4. CASE Calls("assign", assign(Script[item].sym, Script[item].expr), "assigned")
  BY <1>4, ScriptAssumption DEF Calls, Next, Consumer, PlaceInv
<1>5. CASE Calls("eval", eval(Script[item].sym), "evaluated")
  BY <1>5, ScriptAssumption DEF Calls, Next, Consumer, PlaceInv
<1>6. CASE ClientStep
  BY <1>6 DEF ClientStep, Next
<1>7. CASE Usage \/ LoginReturned \/ EvalPrinted \/ (Returned("shutdownAsked") /\ Exit)
  BY <1>7 DEF Usage, LoginReturned, EvalPrinted, Exit, Goes
<1>8. CASE Start \/ checkFlags \/ FlagsChecked \/ Construct \/ VersionPrinted
             \/ AssignPrinted \/ Terminate
  BY <1>8 DEF Start, checkFlags, FlagsChecked, Construct, VersionPrinted,
              AssignPrinted, Terminate, Goes
<1>9. CASE Done \/ UNCHANGED allVars
  BY <1>9 DEF Done, allVars
<1>. QED
  BY <1>1, <1>2, <1>3, <1>4, <1>5, <1>6, <1>7, <1>8, <1>9 DEF DemoNext, main

\* What a command in progress may change: the server assigns the item that is
\* its turn, a new session has no values, and the result of a command is made
\* from the answer to it.
LEMMA RunningStep ==
    ASSUME TypeOK, CommandInv, PlaceInv, TurnInv, Running,
           UNCHANGED <<pc, flags, item>>
    PROVE  PlaceInv' /\ TurnInv'
<1> DEFINE line == Script[item]
           held == workspace[line.sym]
<1>0. /\ item \in DOMAIN Script /\ line.sym \in Symbols /\ line.expr \in Values
      /\ Encoded(line.expr) # <<>> /\ Encoded(line.expr) # Unset
      /\ Decoded(Encoded(line.expr)) = line.expr
      /\ \A k \in DOMAIN Script : Script[k].sym \in Symbols
  BY ScriptAssumption, EntryMeansObject, UnsetAssumption DEF PlaceInv
<1>1. CASE Ask \/ submit
  <2>1. UNCHANGED <<workspace, at, request, m_pLast_response, result, done, reply>>
    BY <1>1, AskEffect
  <2>. QED
    BY <2>1 DEF PlaceInv, TurnInv, CommandsAt, Returned, response_isSuccessful
<1>2. CASE Answered
  <2>1. /\ UNCHANGED <<workspace, m_pLast_response>>
        /\ busy = "query" /\ open
    BY <1>2, AnsweredEffect
  <2>2. at \in Questions /\ request \in CommandsAt(pc) /\ version \in ServerIDs
    BY <2>1 DEF CommandInv, RequestInv, PlaceInv, Questions
  <2>3. pc \in {"versionAsked", "loginAsked"}
    <3>1. CASE at = "getVersion"
      BY <2>2, <3>1, CommandKinds, RequestKinds DEF CommandInv, RequestInv
    <3>2. CASE at # "getVersion"
      BY <2>2, <3>2, CommandKinds, RequestKinds DEF CommandInv, RequestInv
    <3>. QED
      BY <3>1, <3>2
  <2>4. at' # "idle" => request' \in CommandsAt(pc)
    <3>1. CASE LoginStep
      <4>1. request' \in LoginRequests /\ at # "getVersion"
        BY <2>2, <3>1, LoginStepEffect DEF CommandInv, LoginStep
      <4>2. pc = "loginAsked"
        BY <2>2, <4>1, CommandKinds, RequestKinds DEF CommandInv, RequestInv
      <4>. QED
        BY <4>1, <4>2 DEF CommandsAt
    <3>2. CASE ~LoginStep
      BY <1>2, <3>2, AnsweredEffect DEF LoginNotRequired, LoginTypeUnknown, Return
    <3>. QED
      BY <3>1, <3>2
  <2>. QED
    BY <2>1, <2>3, <2>4 DEF PlaceInv, TurnInv, CommandsAt, Returned
<1>3. CASE Responded
  <2>1. /\ busy = "submit" /\ done /\ at' = "idle" /\ UNCHANGED workspace
        /\ m_pLast_response' = reply
        /\ result' = [kind |-> "returned", cmd |-> request.cmd,
              value |-> IF request.cmd = "CMD_eval" THEN response_REXPAt(reply, 0)
                                                   ELSE isOk(reply)]
    BY <1>3, RespondedEffect
  <2>2. at = "submit" /\ request \in CommandsAt(pc)
    BY <2>1 DEF CommandInv, RequestInv, PlaceInv
  <2>3. pc = "assigned" => (isOk(reply) <=> held # Unset)
    BY <2>1, <2>2 DEF TurnInv
  <2>4. pc = "evaluated" =>
          result'.value = IF isOk(reply) THEN line.expr ELSE NullObject
    <3>1. ASSUME pc = "evaluated"
          PROVE  result'.value = IF isOk(reply) THEN line.expr ELSE NullObject
      <4>1. request.cmd = "CMD_eval" /\ request.expr = line.sym
        BY <2>2, <3>1, CommandKinds
      <4>2. result'.value = response_REXPAt(reply, 0)
        BY <2>1, <4>1
      <4>3. CASE isOk(reply)
        <5>1. /\ held \in Entries
              /\ response_REXPAt(reply, 0) = Decoded(held)
          BY <2>1, <4>1, <4>3, ResultOfEval
        <5>2. held = Encoded(line.expr)
          BY <5>1, UnsetAssumption DEF TurnInv
        <5>. QED
          BY <1>0, <4>2, <4>3, <5>1, <5>2
      <4>4. CASE ~isOk(reply)
        BY <2>1, <4>1, <4>2, <4>4, ResultOfEval
      <4>. QED
        BY <4>3, <4>4
    <3>. QED
      BY <3>1
  <2>. QED
    <3>1. response_isSuccessful' <=> isOk(reply)
      BY <2>1, OkIsResponse DEF response_isSuccessful
    <3>. QED
      BY <2>1, <2>3, <2>4, <3>1 DEF PlaceInv, TurnInv, Returned
<1>4. CASE NetworkErrorThrown
  <2>1. /\ UNCHANGED <<workspace, m_pLast_response>> /\ at' = "idle"
        /\ result'.kind = "threw"
    BY <1>4, ThrownEffect
  <2>. QED
    BY <2>1 DEF PlaceInv, TurnInv, Returned
<1>5. ASSUME NEW id \in ServerIDs, Connected(id)
      PROVE  PlaceInv' /\ TurnInv'
  <2>1. /\ workspace' = Fresh /\ ~open /\ busy # "no"
        /\ UNCHANGED <<at, request, m_pLast_response, result, done, reply>>
    BY <1>5, ConnectedEffect
  <2>2. at # "idle" /\ ~done /\ at' # "idle"
    BY <2>1 DEF CommandInv, RequestInv, Questions, TypeOK
  <2>3. \A k \in DOMAIN Script : Fresh[Script[k].sym] = Unset
    BY <1>0 DEF Fresh
  <2>. QED
    BY <1>0, <2>1, <2>2, <2>3 DEF PlaceInv, TurnInv, CommandsAt, Returned
<1>6. CASE Server
  <2>1. /\ busy = "submit" /\ ~done /\ done'
        /\ UNCHANGED <<at, request, result, m_pLast_response>>
    BY <1>6, ServerEffect
  <2>2. at = "submit" /\ at' = "submit" /\ request \in CommandsAt(pc)
    BY <2>1 DEF CommandInv, RequestInv, PlaceInv
  <2>3. CASE workspace' = workspace
    <3>1. pc = "assigned" => held = Unset /\ ~isOk(reply')
      <4>1. ASSUME pc = "assigned"
            PROVE  held = Unset /\ ~isOk(reply')
        <5>1. request.cmd = "CMD_setSEXP" /\ request.sym = line.sym
              /\ request.expr = line.expr
          BY <2>2, <4>1, CommandKinds
        <5>2. held = Unset
          BY <2>1, <2>2, <4>1 DEF TurnInv
        <5>3. workspace' # [workspace EXCEPT ![request.sym] = Encoded(request.expr)]
          BY <1>0, <2>3, <5>1, <5>2 DEF TypeOK
        <5>4. PICK code \in RErrors \cup {ERR_auth_failed} : reply' = Refusal(code)
          BY <1>6, <5>1, <5>3, ServerEffect
        <5>. QED
          BY <5>2, <5>4, RefusalIsNotOk
      <4>. QED
        BY <4>1
    <3>. QED
      BY <2>1, <2>2, <2>3, <3>1 DEF PlaceInv, TurnInv, CommandsAt, Returned
  <2>4. CASE workspace' # workspace
    <3>1. /\ request.cmd = "CMD_setSEXP" /\ reply' = OK
          /\ workspace' = [workspace EXCEPT ![request.sym] = Encoded(request.expr)]
      BY <1>6, <2>4, ServerEffect
    <3>2. /\ pc = "assigned"
          /\ request.sym = line.sym /\ request.expr = line.expr
      BY <2>2, <3>1, CommandKinds
    <3>3. /\ workspace'[line.sym] = Encoded(line.expr)
          /\ \A k \in DOMAIN Script : k # item =>
               workspace'[Script[k].sym] = workspace[Script[k].sym]
      BY <1>0, <3>1, <3>2, SymbolsDiffer DEF TypeOK
    <3>4. isOk(reply')
      BY <3>1, SuccessIsOk
    <3>5. \A k \in DOMAIN Script : k > item => k # item
      BY <1>0, ScriptLength
    <3>. QED
      BY <1>0, <2>1, <2>2, <3>2, <3>3, <3>4, <3>5
      DEF PlaceInv, TurnInv, CommandsAt, Returned
  <2>. QED
    BY <2>3, <2>4
<1>. QED
  BY <1>1, <1>2, <1>3, <1>4, <1>5, <1>6 DEF Running

\* A command begins: nothing has been answered, and the values are what they were.
LEMMA MainCalls ==
    ASSUME TypeOK, CommandInv, PlaceInv, TurnInv,
           NEW from \in {"version", "login", "shutdown", "assign", "eval"},
           NEW next \in {"versionAsked", "loginAsked", "shutdownAsked", "assigned",
                         "evaluated"},
           from = "assign" <=> next = "assigned",
           from = "eval" <=> next = "evaluated",
           NEW place \in {"submit", "getVersion", "isAuthorizationRequired"},
           NEW r, Calls(from, Command(place, r), next),
           r \in CommandsAt(next)
    PROVE  PlaceInv' /\ TurnInv'
<1>1. /\ pc = from /\ pc' = next /\ at = "idle" /\ at' = place /\ request' = r
      /\ UNCHANGED <<item, flags, workspace, done, reply>>
  BY CommandEffect DEF Calls
<1>2. ~done /\ at' # "idle"
  BY <1>1 DEF CommandInv, RequestInv, Questions
<1>3. PlaceInv'
  BY <1>1 DEF PlaceInv, CommandsAt
<1>4. ASSUME NEW k \in DOMAIN Script,
             k > item \/ (k = item /\ pc' \notin {"assigned", "eval", "evaluated"})
      PROVE  workspace[Script[k].sym] = Unset
  BY <1>1, <1>4 DEF TurnInv
<1>5. pc' = "assigned" => workspace[Script[item].sym] = Unset
  BY <1>1 DEF TurnInv, PlaceInv
<1>. QED
  BY <1>1, <1>2, <1>3, <1>4, <1>5 DEF TurnInv, Returned

LEMMA DemoInvInit == DemoInit => DemoInv
<1> SUFFICES ASSUME DemoInit PROVE DemoInv
  OBVIOUS
<1>1. Init /\ item = 1 /\ pc = "start"
  BY DEF DemoInit
<1>2. TypeOK /\ CommandInv
  BY <1>1, InitInv
<1>3. at = "idle" /\ workspace = Fresh
  BY <1>1 DEF Init
<1>4. \A k \in DOMAIN Script : workspace[Script[k].sym] = Unset
  BY <1>3, ScriptAssumption DEF Fresh
<1>5. item \in DOMAIN Script
  BY <1>1, ScriptLength
<1>. QED
  BY <1>1, <1>2, <1>3, <1>4, <1>5 DEF DemoInv, PlaceInv, TurnInv, Returned

LEMMA DemoInvNext ==
    ASSUME FlagsInv, DemoInv, [DemoNext]_allVars
    PROVE  DemoInv'
<1> SUFFICES ASSUME pc # "done", pc' # "done" PROVE DemoInv'
  <2>1. CASE pc = "done"
    BY <2>1
    DEF DemoInv, DemoNext, main, Start, checkFlags, FlagsChecked, Usage, Construct,
        Calls, VersionPrinted, LoginReturned, AssignPrinted, EvalPrinted, Returned,
        Terminate, ClientStep, Done, allVars, demoVars
  <2>. QED
    BY <2>1 DEF DemoInv
<1>0. TypeOK /\ CommandInv /\ PlaceInv /\ TurnInv
  BY DEF DemoInv
<1>1. [Next]_vars
  BY <1>0, ClientSteps
<1>2. TypeOK' /\ CommandInv'
  BY <1>0, <1>1, TypeNext, RequestNext, LoginNext, AnswerNext DEF CommandInv
<1>3. PlaceInv' /\ TurnInv'
  <2>1. CASE Calls("version", getRserveVersion, "versionAsked")
    BY <1>0, <2>1, MainCalls DEF getRserveVersion, CommandsAt, VersionQuery
  <2>2. CASE Calls("login", login(flags.pwd), "loginAsked")
    <3>1. flags.pwd \in Passwords
      BY <1>0, <2>2 DEF Calls, PlaceInv, FlagsInv
    <3>2. [cmd |-> "CMD_login", pwd |-> flags.pwd, salt |-> "none"]
            \in CommandsAt("loginAsked")
      BY <3>1 DEF CommandsAt, LoginRequests
    <3>. QED
      BY <1>0, <2>2, <3>2, MainCalls DEF login
  <2>3. CASE Calls("shutdown", shutdown, "shutdownAsked")
    BY <1>0, <2>3, MainCalls DEF shutdown, CommandsAt, Shutdown
  <2>4. CASE Calls("assign", assign(Script[item].sym, Script[item].expr), "assigned")
    BY <1>0, <2>4, MainCalls DEF assign, CommandsAt, Calls
  <2>5. CASE Calls("eval", eval(Script[item].sym), "evaluated")
    BY <1>0, <2>5, MainCalls DEF eval, CommandsAt
  <2>6. CASE ClientStep
    BY <1>0, <2>6, RunningStep DEF ClientStep
  <2>7. CASE EvalPrinted
    <3>1. /\ at = "idle" /\ item # Len(Script) /\ item' = item + 1 /\ pc' = "assign"
          /\ UNCHANGED <<at, workspace>>
      BY <2>7 DEF EvalPrinted, Returned, Exit, vars, serverVars
    <3>2. item' \in DOMAIN Script /\ item' > item
      BY <1>0, <3>1, ScriptLength DEF PlaceInv
    <3>3. \A k \in DOMAIN Script : k >= item' => k > item
      BY <1>0, <3>1, ScriptLength DEF PlaceInv
    <3>4. \A k \in DOMAIN Script : k > item => workspace[Script[k].sym] = Unset
      BY <1>0 DEF TurnInv
    <3>5. \A k \in DOMAIN Script : k > item' \/ k = item' =>
            workspace'[Script[k].sym] = Unset
      BY <3>1, <3>2, <3>3, <3>4, ScriptLength
    <3>. QED
      BY <3>1, <3>2, <3>5 DEF PlaceInv, TurnInv, Returned
  <2>8. CASE \/ VersionPrinted \/ LoginReturned \/ AssignPrinted
             \/ Start \/ checkFlags \/ FlagsChecked \/ Construct
    <3>1. /\ UNCHANGED <<item, at, workspace>>
          /\ pc \in {"start", "checkFlags", "checked", "versionAsked", "loginAsked",
                     "assigned"}
          /\ pc' \in {"checkFlags", "checked", "version", "login", "shutdown", "assign",
                      "eval"}
          /\ pc = "assigned" <=> pc' = "eval"
          /\ at = "idle"
          /\ pc' = "login" => flags'.login
      <4>1. CASE VersionPrinted \/ LoginReturned \/ AssignPrinted
        BY <4>1
        DEF VersionPrinted, LoginReturned, AssignPrinted, Goes, Exit, AfterLogin, Returned,
            vars, serverVars
      <4>2. CASE Start \/ checkFlags \/ FlagsChecked \/ Construct
        <5>1. pc \in {"start", "checkFlags", "checked"} /\ at = "idle"
          BY <1>0, <4>2, CommandKinds
          DEF Start, checkFlags, FlagsChecked, Construct, PlaceInv
        <5>. QED
          BY <4>2, <5>1
          DEF Start, checkFlags, FlagsChecked, Construct, vars, serverVars, Reads, NoFlag,
              LoginFlag
      <4>. QED
        BY <2>8, <4>1, <4>2
    <3>. QED
      BY <1>0, <3>1 DEF PlaceInv, TurnInv, Returned
  <2>9. CASE Done \/ UNCHANGED allVars \/ Terminate \/ Usage
             \/ (Returned("shutdownAsked") /\ Exit)
    <3>1. UNCHANGED allVars
      BY <2>9 DEF Done, Terminate, Usage, Exit
    <3>. QED
      BY <1>0, <3>1
      DEF allVars, vars, demoVars, netManVars, serverVars, historyVars, PlaceInv, TurnInv,
          CommandsAt, Returned, response_isSuccessful
  <2>. QED
    BY <2>1, <2>2, <2>3, <2>4, <2>5, <2>6, <2>7, <2>8, <2>9 DEF DemoNext, main
<1>. QED
  BY <1>2, <1>3 DEF DemoInv

-----------------------------------------------------------------------------
(* The objects: what is printed is what was assigned. *)

\* No text of the demo is the missing string of R's.
LEMMA OrdinaryText ==
    ASSUME NEW s \in Seq(0..6)
    PROVE  s # StringNA
<1>1. StringNA[1] = Base - 1 /\ Len(StringNA) = 1
  BY DEF StringNA
<1>2. Base - 1 > 6
  BY BaseAssumption, BytesAssumption
<1>3. ASSUME Len(s) = 1
      PROVE  s[1] \in 0..6
  <2>1. 1 \in 1..Len(s)
    BY <1>3
  <2>. QED
    BY <2>1, ElementOfSeq, Zenon
<1>. QED
  BY <1>1, <1>2, <1>3

\* No number of the demo is a missing value of R's.
LEMMA OrdinaryValues ==
    /\ \A n \in Nat : n < 2048 => <<n>> # IntegerNA
    /\ \A n \in Nat : n < 8192 => ~isRserve_NA(<<n>>)
    /\ isRserve_NA(DoubleNA)
<1>1. Base \in Nat /\ Base >= 8
  BY BaseAssumption, BytesAssumption
<1>2. Place[4] \in Nat /\ Place[4] >= 4096 /\ Place[6] >= 8192
  <2>1. /\ Place[0] = 1 /\ Place[1] = Base * Place[0] /\ Place[2] = Base * Place[1]
        /\ Place[3] = Base * Place[2] /\ Place[4] = Base * Place[3]
        /\ Place[5] = Base * Place[4] /\ Place[6] = Base * Place[5]
        /\ \A k \in 0..8 : Place[k] \in Nat \ {0}
    BY PlaceType, SMT
  <2>2. \A P \in Nat : Base * P >= 8 * P
    BY <1>1, Z3T(30)
  <2>3. /\ Place[1] >= 8 * Place[0] /\ Place[2] >= 8 * Place[1] /\ Place[3] >= 8 * Place[2]
        /\ Place[4] >= 8 * Place[3] /\ Place[5] >= 8 * Place[4]
        /\ Place[6] >= 8 * Place[5]
    BY <2>1, <2>2
  <2>4. /\ Place[1] \in Nat /\ Place[2] \in Nat /\ Place[3] \in Nat
        /\ Place[4] \in Nat /\ Place[5] \in Nat /\ Place[6] \in Nat
    BY <2>1
  <2>. QED
    BY <2>1, <2>3, <2>4
<1>3. \A n \in Nat : n < 2048 => <<n>> # IntegerNA
  <2>1. Place[4] \div 2 >= 2048
    BY <1>2
  <2>. QED
    BY <2>1 DEF IntegerNA
<1>4. PICK d \in Nat :
        /\ DoubleNA = <<d>> /\ d >= QuietBit
        /\ \A n \in Nat : isRserve_NA(<<n>>) <=> n \in {d, d + QuietBit}
  BY <1>1, MissingDoubles
<1>5. QuietBit >= 8192
  BY <1>2 DEF QuietBit
<1>6. ASSUME NEW n \in Nat, n < 8192
      PROVE  ~isRserve_NA(<<n>>)
  <2>1. QuietBit \in Nat
    BY <1>1, MissingDoubles
  <2>2. n # d /\ n # d + QuietBit
    BY <1>4, <1>5, <1>6, <2>1
  <2>. QED
    BY <1>4, <2>2
<1>7. isRserve_NA(DoubleNA)
  BY <1>4
<1>. QED
  BY <1>3, <1>6, <1>7

\* getData of the three classes of vectors.
LEMMA DataOfVectors ==
    ASSUME NEW x, NEW na
    PROVE  /\ x.t = XT_ARRAY_INT => getData(x, na) = IntegerData(x.vals, na)
           /\ x.t = XT_ARRAY_DOUBLE => getData(x, na) = DoubleData(x.vals, na)
           /\ x.t = XT_ARRAY_STR => getData(x, na) = StringData(x.vals, na)
BY DEF getData, XT_ARRAY_INT, XT_ARRAY_DOUBLE, XT_ARRAY_STR

\* A vector of five goes to R and back; only the missing value changes.
LEMMA FiveDoubles ==
    ASSUME NEW a, NEW b, NEW c, NEW d, NEW na, NEW by,
           a # na, b # na, c # na, d # na,
           ~isRserve_NA(a), ~isRserve_NA(b), ~isRserve_NA(c), ~isRserve_NA(d)
    PROVE  DoubleData(initData(<<a, b, c, d, na>>, na, DoubleNA), by) = <<a, b, c, d, by>>
<1>1. initData(<<a, b, c, d, na>>, na, DoubleNA) = <<a, b, c, d, DoubleNA>>
  BY DEF initData, Replaced
<1>2. DoubleData(<<a, b, c, d, DoubleNA>>, by) = <<a, b, c, d, by>>
  BY OrdinaryValues DEF DoubleData, Replaced
<1>. QED
  BY <1>1, <1>2

LEMMA FiveIntegers ==
    ASSUME NEW a, NEW b, NEW c, NEW d, NEW na, NEW by,
           a # na, b # na, c # na, d # na,
           a # IntegerNA, b # IntegerNA, c # IntegerNA, d # IntegerNA
    PROVE  IntegerData(initData(<<a, b, c, na, d>>, na, IntegerNA), by) = <<a, b, c, by, d>>
<1>1. initData(<<a, b, c, na, d>>, na, IntegerNA) = <<a, b, c, IntegerNA, d>>
  BY DEF initData, Replaced
<1>2. IntegerData(<<a, b, c, IntegerNA, d>>, by) = <<a, b, c, by, d>>
  BY DEF IntegerData, Replaced
<1>. QED
  BY <1>1, <1>2

LEMMA FiveStrings ==
    ASSUME NEW a, NEW b, NEW c, NEW d, NEW na, NEW by,
           a # na, b # na, c # na, d # na,
           a # StringNA, b # StringNA, c # StringNA, d # StringNA
    PROVE  StringData(initData(<<a, b, c, na, d>>, na, StringNA), by) = <<a, b, c, by, d>>
<1>1. initData(<<a, b, c, na, d>>, na, StringNA) = <<a, b, c, StringNA, d>>
  BY DEF initData, Replaced
<1>2. StringData(<<a, b, c, StringNA, d>>, by) = <<a, b, c, by, d>>
  BY DEF StringData, Replaced
<1>. QED
  BY <1>1, <1>2

LEMMA DoublesHeld ==
    ASSUME NEW attr, NEW na
    PROVE  /\ rexp_d(attr).t = XT_ARRAY_DOUBLE /\ rexp_d(attr).attr = attr
           /\ getData(rexp_d(attr), na) = <<<<0>>, <<105>>, <<77>>, <<555>>, na>>
<1> DEFINE x == rexp_d(attr)
<1>1. x.t = XT_ARRAY_DOUBLE /\ x.attr = attr /\ x.vals = initData(vec_d, d_na, DoubleNA)
  BY DEF rexp_d, REXPDouble, Array, Object
<1>2. /\ ~isRserve_NA(<<0>>) /\ ~isRserve_NA(<<105>>)
      /\ ~isRserve_NA(<<77>>) /\ ~isRserve_NA(<<555>>)
  BY OrdinaryValues
<1>3. <<0>> # d_na /\ <<105>> # d_na /\ <<77>> # d_na /\ <<555>> # d_na
  BY DEF d_na
<1>4. DoubleData(initData(vec_d, d_na, DoubleNA), na)
        = <<<<0>>, <<105>>, <<77>>, <<555>>, na>>
  BY <1>2, <1>3, FiveDoubles DEF vec_d
<1>. QED
  BY <1>1, <1>4, DataOfVectors

LEMMA IntegersHeld ==
    ASSUME NEW attr, NEW na
    PROVE  /\ rexp_int(attr).t = XT_ARRAY_INT /\ rexp_int(attr).attr = attr
           /\ getData(rexp_int(attr), na) = <<<<2>>, <<10>>, <<77>>, na, <<300>>>>
<1> DEFINE x == rexp_int(attr)
<1>1. x.t = XT_ARRAY_INT /\ x.attr = attr /\ x.vals = initData(vec_i, int_na, IntegerNA)
  BY DEF rexp_int, REXPInteger, Array, Object
<1>2. /\ <<2>> # IntegerNA /\ <<10>> # IntegerNA
      /\ <<77>> # IntegerNA /\ <<300>> # IntegerNA
  BY OrdinaryValues
<1>3. <<2>> # int_na /\ <<10>> # int_na /\ <<77>> # int_na /\ <<300>> # int_na
  BY DEF int_na
<1>4. IntegerData(initData(vec_i, int_na, IntegerNA), na)
        = <<<<2>>, <<10>>, <<77>>, na, <<300>>>>
  BY <1>2, <1>3, FiveIntegers DEF vec_i
<1>. QED
  BY <1>1, <1>4, DataOfVectors

LEMMA StringsHeld ==
    ASSUME NEW attr, NEW na
    PROVE  /\ rexp_str(attr).t = XT_ARRAY_STR /\ rexp_str(attr).attr = attr
           /\ getData(rexp_str(attr), na)
                = <<<<2, 3, 3>>, <<4>>, <<5, 2>>, na, <<6, 3, 3>>>>
<1> DEFINE x == rexp_str(attr)
<1>1. x.t = XT_ARRAY_STR /\ x.attr = attr /\ x.vals = initData(vec_str, str_na, StringNA)
  BY DEF rexp_str, REXPString, Array, Object
<1>2. /\ <<2, 3, 3>> # StringNA /\ <<4>> # StringNA
      /\ <<5, 2>> # StringNA /\ <<6, 3, 3>> # StringNA
  <2>1. /\ <<2, 3, 3>> \in Seq(0..6) /\ <<4>> \in Seq(0..6)
        /\ <<5, 2>> \in Seq(0..6) /\ <<6, 3, 3>> \in Seq(0..6)
    OBVIOUS
  <2>. QED
    BY <2>1, OrdinaryText, Zenon
<1>3. /\ <<2, 3, 3>> # str_na /\ <<4>> # str_na
      /\ <<5, 2>> # str_na /\ <<6, 3, 3>> # str_na
  BY DEF str_na
<1>4. StringData(initData(vec_str, str_na, StringNA), na)
        = <<<<2, 3, 3>>, <<4>>, <<5, 2>>, na, <<6, 3, 3>>>>
  BY <1>2, <1>3, FiveStrings DEF vec_str
<1>. QED
  BY <1>1, <1>4, DataOfVectors

\* One value goes to R and back.
LEMMA OneValue ==
    ASSUME NEW a, NEW na, NEW rNA, a # na
    PROVE  /\ initData(<<a>>, na, rNA) = <<a>>
           /\ \A by : a # IntegerNA => IntegerData(<<a>>, by) = <<a>>
           /\ \A by : ~isRserve_NA(a) => DoubleData(<<a>>, by) = <<a>>
           /\ \A by : a # StringNA => StringData(<<a>>, by) = <<a>>
<1>1. initData(<<a>>, na, rNA) = <<a>>
  BY DEF initData, Replaced
<1>2. \A by : a # IntegerNA => IntegerData(<<a>>, by) = <<a>>
  BY DEF IntegerData, Replaced
<1>3. \A by : ~isRserve_NA(a) => DoubleData(<<a>>, by) = <<a>>
  BY DEF DoubleData, Replaced
<1>4. \A by : a # StringNA => StringData(<<a>>, by) = <<a>>
  BY DEF StringData, Replaced
<1>. QED
  BY <1>1, <1>2, <1>3, <1>4

LEMMA VectorsPrinted ==
    ASSUME NEW x, NEW na
    PROVE  /\ x.t = XT_ARRAY_INT => printData(x, na) = getData(x, na.int)
           /\ x.t = XT_ARRAY_DOUBLE => printData(x, na) = getData(x, na.d)
           /\ x.t = XT_ARRAY_STR => printData(x, na) = getData(x, na.str)
           /\ x.t \in {XT_ARRAY_INT, XT_ARRAY_DOUBLE, XT_ARRAY_STR} =>
                printVector(x, na) = printData(x, na)
BY DEF printData, printVector, XT_ARRAY_INT, XT_ARRAY_DOUBLE, XT_ARRAY_STR,
       XT_LIST_TAG, XT_LIST_NOTAG

\* The three vectors, printed with the demo's text for a missing value.
LEMMA VectorsHeld ==
    ASSUME NEW attr
    PROVE  /\ printData(rexp_d(attr), NOT_AVAILABLE) = vec_d
           /\ printVector(rexp_d(attr), NOT_AVAILABLE) = vec_d
           /\ printData(rexp_int(attr), NOT_AVAILABLE) = vec_i
           /\ printVector(rexp_int(attr), NOT_AVAILABLE) = vec_i
           /\ printData(rexp_str(attr), NOT_AVAILABLE) = strings
           /\ printVector(rexp_str(attr), NOT_AVAILABLE) = strings
<1>1. /\ NOT_AVAILABLE.d = d_na /\ NOT_AVAILABLE.int = int_na
      /\ NOT_AVAILABLE.str = <<5, 5>>
  BY DEF NOT_AVAILABLE
<1>2. getData(rexp_d(attr), NOT_AVAILABLE.d) = vec_d
  BY <1>1, DoublesHeld DEF vec_d
<1>3. getData(rexp_int(attr), NOT_AVAILABLE.int) = vec_i
  BY <1>1, IntegersHeld DEF vec_i
<1>4. getData(rexp_str(attr), NOT_AVAILABLE.str) = strings
  <2>1. strings = <<<<2, 3, 3>>, <<4>>, <<5, 2>>, <<5, 5>>, <<6, 3, 3>>>>
    BY <1>1 DEF strings, vec_str
  <2>. QED
    BY <1>1, <2>1, StringsHeld
<1>. QED
  BY <1>2, <1>3, <1>4, DoublesHeld, IntegersHeld, StringsHeld, VectorsPrinted

\* The single values.
LEMMA SinglesHeld ==
    LET s == Single(XT_ARRAY_STR, vec_str[1], StringNA, StringNA)
        i == Single(XT_ARRAY_INT, <<13>>, IntegerNA, IntegerNA)
        d == Single(XT_ARRAY_DOUBLE, <<7125>>, DoubleNA, DoubleNA)
    IN  /\ s.t = XT_ARRAY_STR /\ s.attr = <<>>
        /\ printData(s, NOT_AVAILABLE) = <<vec_str[1]>>
        /\ i.t = XT_ARRAY_INT /\ i.attr = <<>>
        /\ printData(i, NOT_AVAILABLE) = <<<<13>>>>
        /\ d.t = XT_ARRAY_DOUBLE /\ d.attr = <<>>
        /\ printData(d, NOT_AVAILABLE) = <<<<7125>>>>
<1> DEFINE s == Single(XT_ARRAY_STR, vec_str[1], StringNA, StringNA)
           i == Single(XT_ARRAY_INT, <<13>>, IntegerNA, IntegerNA)
           d == Single(XT_ARRAY_DOUBLE, <<7125>>, DoubleNA, DoubleNA)
<1>1. /\ s.t = XT_ARRAY_STR /\ s.attr = <<>>
      /\ s.vals = initData(<<vec_str[1]>>, StringNA, StringNA)
      /\ i.t = XT_ARRAY_INT /\ i.attr = <<>>
      /\ i.vals = initData(<<<<13>>>>, IntegerNA, IntegerNA)
      /\ d.t = XT_ARRAY_DOUBLE /\ d.attr = <<>>
      /\ d.vals = initData(<<<<7125>>>>, DoubleNA, DoubleNA)
  BY DEF Single, Object
<1>2. vec_str[1] # StringNA
  <2>1. vec_str[1] \in Seq(0..6)
    BY DEF vec_str
  <2>. QED
    BY <2>1, OrdinaryText
<1>3. <<13>> # IntegerNA
  BY OrdinaryValues
<1>4. ~isRserve_NA(<<7125>>) /\ <<7125>> # DoubleNA
  BY OrdinaryValues
<1> HIDE DEF s, i, d
<1>5. getData(s, NOT_AVAILABLE.str) = <<vec_str[1]>>
  BY <1>1, <1>2, OneValue, DataOfVectors, SMTT(30)
<1>6. getData(i, NOT_AVAILABLE.int) = <<<<13>>>>
  BY <1>1, <1>3, OneValue, DataOfVectors, SMTT(30)
<1>7. getData(d, NOT_AVAILABLE.d) = <<<<7125>>>>
  BY <1>1, <1>4, OneValue, DataOfVectors, SMTT(30)
<1>8. /\ printData(s, NOT_AVAILABLE) = <<vec_str[1]>>
      /\ printData(i, NOT_AVAILABLE) = <<<<13>>>>
      /\ printData(d, NOT_AVAILABLE) = <<<<7125>>>>
  BY <1>1, <1>5, <1>6, <1>7, VectorsPrinted
<1>. QED
  BY <1>1, <1>8 DEF s, i, d

\* The attributes.
LEMMA AttributesHeld ==
    /\ DOMAIN ATTR = 1..1
    /\ \A na : printData(ATTR[1], na) = <<<<<<3, 4>>, attr_str>>>>
<1> DEFINE s == REXPString(attr_str, str_na, <<>>)
<1>1. s.t = XT_ARRAY_STR /\ s.vals = initData(attr_str, str_na, StringNA)
  BY DEF REXPString, Array, Object
<1>2. <<2, 4>> # StringNA /\ <<5>> # StringNA
  <2>1. <<2, 4>> \in Seq(0..6) /\ <<5>> \in Seq(0..6)
    OBVIOUS
  <2>. QED
    BY <2>1, OrdinaryText, Zenon
<1>3. <<2, 4>> # str_na /\ <<5>> # str_na
  BY DEF str_na
<1>4. ASSUME NEW a, NEW b, NEW na, NEW by, a # na, b # na, a # StringNA, b # StringNA
      PROVE  StringData(initData(<<a, b>>, na, StringNA), by) = <<a, b>>
  <2>1. initData(<<a, b>>, na, StringNA) = <<a, b>>
    BY <1>4 DEF initData, Replaced
  <2>2. StringData(<<a, b>>, by) = <<a, b>>
    BY <1>4 DEF StringData, Replaced
  <2>. QED
    BY <2>1, <2>2
<1>5. \A by : StringData(s.vals, by) = attr_str
  BY <1>1, <1>2, <1>3, <1>4 DEF attr_str
<1>6. DOMAIN ATTR = 1..1 /\ ATTR[1] = REXPPairList(<<s>>, <<<<3, 4>>>>, <<>>)
  BY DEF ATTR
<1>7. /\ ATTR[1].t = XT_LIST_TAG /\ ATTR[1].kids = <<s>>
      /\ ATTR[1].names = <<<<3, 4>>>>
  BY <1>6 DEF REXPPairList, Object
<1> HIDE DEF s
<1>8. \A na : printVector(s, na) = attr_str
  BY <1>1, <1>5, DataOfVectors, VectorsPrinted
<1>9. \A na : printData(ATTR[1], na) = <<<<<<3, 4>>, attr_str>>>>
  BY <1>7, <1>8 DEF printData, XT_LIST_TAG, XT_LIST_NOTAG
<1>. QED
  BY <1>6, <1>9

LEMMA ListHeld ==
    ASSUME NEW attr
    PROVE  /\ rexp_list(attr).t = XT_LIST_NOTAG /\ rexp_list(attr).attr = attr
           /\ printData(rexp_list(attr), NOT_AVAILABLE) = <<vec_d, strings, vec_i>>
<1> DEFINE x == rexp_list(attr)
<1>1. /\ x.t = XT_LIST_NOTAG /\ x.attr = attr
      /\ x.kids = <<rexp_d(<<>>), rexp_str(<<>>), rexp_int(<<>>)>>
  BY DEF rexp_list, REXPList, Object
<1> HIDE DEF x
<1>2. printData(x, NOT_AVAILABLE)
        = [k \in DOMAIN x.kids |-> printVector(x.kids[k], NOT_AVAILABLE)]
  BY <1>1 DEF printData, XT_LIST_TAG, XT_LIST_NOTAG
<1>3. printData(x, NOT_AVAILABLE)
        = <<printVector(rexp_d(<<>>), NOT_AVAILABLE),
            printVector(rexp_str(<<>>), NOT_AVAILABLE),
            printVector(rexp_int(<<>>), NOT_AVAILABLE)>>
  BY <1>1, <1>2
<1>4. printData(x, NOT_AVAILABLE) = <<vec_d, strings, vec_i>>
  BY <1>3, VectorsHeld
<1>. QED
  BY <1>1, <1>4 DEF x

LEMMA PairListHeld ==
    ASSUME NEW attr
    PROVE  /\ rexp_pairlist(attr).t = XT_LIST_TAG /\ rexp_pairlist(attr).attr = attr
           /\ printData(rexp_pairlist(attr), NOT_AVAILABLE) = tagged
           /\ getMember(rexp_pairlist(attr), Names[1]) = rexp_d(<<>>)
           /\ getMember(rexp_pairlist(attr), Names[3]) = rexp_str(<<>>)
<1> DEFINE x == rexp_pairlist(attr)
<1>1. /\ x.t = XT_LIST_TAG /\ x.attr = attr /\ x.names = Names
      /\ x.kids = <<rexp_d(<<>>), rexp_int(<<>>), rexp_str(<<>>)>>
  BY DEF rexp_pairlist, REXPPairList, Object
<1>2. /\ Len(Names) = 3 /\ DOMAIN Names = 1..3
      /\ Names[1] # Names[2] /\ Names[1] # Names[3] /\ Names[2] # Names[3]
  BY DEF Names
<1> HIDE DEF x
<1>3. printData(x, NOT_AVAILABLE)
        = [k \in DOMAIN x.kids |->
             <<x.names[k], printVector(x.kids[k], NOT_AVAILABLE)>>]
  BY <1>1 DEF printData, XT_LIST_TAG, XT_LIST_NOTAG
<1>4. printData(x, NOT_AVAILABLE)
        = <<<<Names[1], printVector(rexp_d(<<>>), NOT_AVAILABLE)>>,
            <<Names[2], printVector(rexp_int(<<>>), NOT_AVAILABLE)>>,
            <<Names[3], printVector(rexp_str(<<>>), NOT_AVAILABLE)>>>>
  BY <1>1, <1>3
<1>5. printData(x, NOT_AVAILABLE) = tagged
  <2>1. tagged = <<<<Names[1], vec_d>>, <<Names[2], vec_i>>, <<Names[3], strings>>>>
    BY DEF tagged
  <2>. QED
    BY <1>4, <2>1, VectorsHeld, Zenon
<1>6. ASSUME NEW j \in 1..3
      PROVE  getMember(x, Names[j]) = x.kids[j]
  <2>1. Names[j] \in ToSet(x.names)
    BY <1>1, <1>2 DEF ToSet
  <2>2. {k \in 1..Len(Names) : Names[k] = Names[j]} = {j}
    BY <1>2
  <2>3. SelectInSeq(Names, LAMBDA n : n = Names[j]) = j
    BY <2>2 DEF SelectInSeq, Min
  <2>. QED
    BY <1>1, <2>1, <2>3 DEF getMember, hasMember
<1>7. /\ getMember(x, Names[1]) = rexp_d(<<>>)
      /\ getMember(x, Names[3]) = rexp_str(<<>>)
  <2>1. x.kids[1] = rexp_d(<<>>) /\ x.kids[3] = rexp_str(<<>>)
    BY <1>1
  <2>2. 1 \in 1..3 /\ 3 \in 1..3
    OBVIOUS
  <2>. QED
    BY <1>6, <2>1, <2>2, Zenon
<1>. QED
  BY <1>1, <1>5, <1>7 DEF x

LEMMA ObjectsOfScript ==
    /\ Script[1].expr = rexp_d(<<>>) /\ Script[2].expr = rexp_str(<<>>)
    /\ Script[3].expr = rexp_int(<<>>)
    /\ Script[4].expr = Single(XT_ARRAY_STR, vec_str[1], StringNA, StringNA)
    /\ Script[5].expr = Single(XT_ARRAY_INT, <<13>>, IntegerNA, IntegerNA)
    /\ Script[6].expr = Single(XT_ARRAY_DOUBLE, <<7125>>, DoubleNA, DoubleNA)
    /\ Script[7].expr = rexp_d(<<>>) /\ Script[8].expr = rexp_str(<<>>)
    /\ Script[9].expr = rexp_int(<<>>) /\ Script[10].expr = rexp_list(<<>>)
    /\ Script[11].expr = rexp_pairlist(<<>>) /\ Script[12].expr = rexp_d(ATTR)
    /\ Script[13].expr = rexp_int(ATTR) /\ Script[14].expr = rexp_str(ATTR)
    /\ Script[15].expr = rexp_list(ATTR) /\ Script[16].expr = rexp_pairlist(ATTR)
BY DEF Script, Line

LEMMA MembersOfScript ==
    /\ \A k \in DOMAIN Script : k \notin {11, 16} => Script[k].member = <<>>
    /\ Script[11].member = Names[1] /\ Script[16].member = Names[3]
    /\ Names[1] # <<>> /\ Names[3] # <<>>
<1>1. /\ Script[1].member = <<>> /\ Script[2].member = <<>>
      /\ Script[3].member = <<>> /\ Script[4].member = <<>>
      /\ Script[5].member = <<>> /\ Script[6].member = <<>>
      /\ Script[7].member = <<>> /\ Script[8].member = <<>>
      /\ Script[9].member = <<>> /\ Script[10].member = <<>>
      /\ Script[11].member = Names[1] /\ Script[12].member = <<>>
      /\ Script[13].member = <<>> /\ Script[14].member = <<>>
      /\ Script[15].member = <<>> /\ Script[16].member = Names[3]
  BY DEF Script, Line
<1>2. Names[1] # <<>> /\ Names[3] # <<>>
  BY DEF Names
<1>. QED
  BY <1>1, <1>2, ScriptLength

\* The class and the contents of every object of the demo.
LEMMA ObjectsHeld ==
    ASSUME NEW k \in DOMAIN Script
    PROVE  /\ Script[k].expr.t # XT_NULL
           /\ Script[k].expr.attr = IF k < 12 THEN <<>> ELSE ATTR
           /\ printData(Script[k].expr, NOT_AVAILABLE) = Held[k]
<1> DEFINE attr == IF k < 12 THEN <<>> ELSE ATTR
<1>1. /\ XT_ARRAY_DOUBLE # XT_NULL /\ XT_ARRAY_INT # XT_NULL
      /\ XT_ARRAY_STR # XT_NULL /\ XT_LIST_TAG # XT_NULL /\ XT_LIST_NOTAG # XT_NULL
  BY DEF XT_ARRAY_DOUBLE, XT_ARRAY_INT, XT_ARRAY_STR, XT_LIST_TAG, XT_LIST_NOTAG, XT_NULL
<1>2. /\ Held[1] = vec_d /\ Held[2] = strings /\ Held[3] = vec_i
      /\ Held[4] = <<vec_str[1]>> /\ Held[5] = <<<<13>>>> /\ Held[6] = <<<<7125>>>>
      /\ Held[7] = vec_d /\ Held[8] = strings /\ Held[9] = vec_i
      /\ Held[10] = <<vec_d, strings, vec_i>> /\ Held[11] = tagged
      /\ Held[12] = vec_d /\ Held[13] = vec_i /\ Held[14] = strings
      /\ Held[15] = <<vec_d, strings, vec_i>> /\ Held[16] = tagged
  BY DEF Held
<1>3. CASE k \in {1, 7, 12}
  <2>1. Script[k].expr = rexp_d(attr) /\ Held[k] = vec_d
    BY <1>2, <1>3, ObjectsOfScript
  <2>. QED
    BY <1>1, <2>1, DoublesHeld, VectorsHeld
<1>4. CASE k \in {2, 8, 14}
  <2>1. Script[k].expr = rexp_str(attr) /\ Held[k] = strings
    BY <1>2, <1>4, ObjectsOfScript
  <2>. QED
    BY <1>1, <2>1, StringsHeld, VectorsHeld
<1>5. CASE k \in {3, 9, 13}
  <2>1. Script[k].expr = rexp_int(attr) /\ Held[k] = vec_i
    BY <1>2, <1>5, ObjectsOfScript
  <2>. QED
    BY <1>1, <2>1, IntegersHeld, VectorsHeld
<1>6. CASE k \in {4, 5, 6}
  <2>1. CASE k = 4
    BY <1>1, <1>2, <2>1, ObjectsOfScript, SinglesHeld
  <2>2. CASE k = 5
    <3> DEFINE x == Single(XT_ARRAY_INT, <<13>>, IntegerNA, IntegerNA)
               w == <<<<13>>>>
    <3>1. x.t # XT_NULL /\ x.attr = <<>> /\ printData(x, NOT_AVAILABLE) = w
      BY <1>1, SinglesHeld
    <3>2. Script[5].expr = x /\ k < 12
      BY <2>2, ObjectsOfScript
    <3>3. Held[5] = w
      BY <1>2
    <3>. HIDE DEF x, w
    <3>4. Script[k].expr = x /\ Held[k] = w /\ attr = <<>>
      BY <2>2, <3>2, <3>3
    <3>. QED
      BY <3>1, <3>4, Zenon
  <2>3. CASE k = 6
    <3> DEFINE x == Single(XT_ARRAY_DOUBLE, <<7125>>, DoubleNA, DoubleNA)
               w == <<<<7125>>>>
    <3>1. x.t # XT_NULL /\ x.attr = <<>> /\ printData(x, NOT_AVAILABLE) = w
      BY <1>1, SinglesHeld
    <3>2. Script[6].expr = x /\ k < 12
      BY <2>3, ObjectsOfScript
    <3>3. Held[6] = w
      BY <1>2
    <3>. HIDE DEF x, w
    <3>4. Script[k].expr = x /\ Held[k] = w /\ attr = <<>>
      BY <2>3, <3>2, <3>3
    <3>. QED
      BY <3>1, <3>4, Zenon
  <2>. QED
    BY <1>6, <2>1, <2>2, <2>3
<1>7. CASE k \in {10, 15}
  <2>1. Script[k].expr = rexp_list(attr)
    BY <1>7, ObjectsOfScript
  <2>2. Held[k] = <<vec_d, strings, vec_i>>
    BY <1>2, <1>7
  <2>. HIDE DEF attr
  <2>3. rexp_list(attr).t # XT_NULL /\ rexp_list(attr).attr = attr
    BY <1>1, ListHeld, Zenon
  <2>4. printData(rexp_list(attr), NOT_AVAILABLE) = <<vec_d, strings, vec_i>>
    BY ListHeld, Zenon
  <2>5. Script[k].expr.attr = attr
    BY <2>1, <2>3, Zenon
  <2>. QED
    BY <2>1, <2>2, <2>3, <2>4, <2>5, Zenon DEF attr
<1>8. CASE k \in {11, 16}
  <2>1. Script[k].expr = rexp_pairlist(attr) /\ Held[k] = tagged
    BY <1>2, <1>8, ObjectsOfScript
  <2>. QED
    BY <1>1, <2>1, PairListHeld
<1>. QED
  BY <1>3, <1>4, <1>5, <1>6, <1>7, <1>8, ScriptLength

\* Each object is printed as it was put together.
LEMMA ObjectsPrinted ==
    ASSUME NEW k \in DOMAIN Script
    PROVE  printEvalStatus(Script[k], Script[k].expr)
             = [contents |-> Held[k],
                attributes |-> IF k < 12 THEN <<>> ELSE <<<<<<<<3, 4>>, attr_str>>>>>>,
                member |-> HeldMember[k]]
<1> DEFINE x == Script[k].expr
           na == IF x.t \in {XT_LIST_TAG, XT_LIST_NOTAG} THEN NOT_AVAILABLE ELSE NA_OR_0
<1>1. /\ x.attr = IF k < 12 THEN <<>> ELSE ATTR
      /\ printData(x, NOT_AVAILABLE) = Held[k]
  BY ObjectsHeld
<1>2. [j \in DOMAIN x.attr |-> printData(x.attr[j], na)]
        = IF k < 12 THEN <<>> ELSE <<<<<<<<3, 4>>, attr_str>>>>>>
  <2>1. CASE k < 12
    BY <1>1, <2>1
  <2>2. CASE ~(k < 12)
    <3>1. x.attr = ATTR
      BY <1>1, <2>2
    <3>. HIDE DEF na
    <3>2. DOMAIN ATTR = 1..1 /\ printData(ATTR[1], na) = <<<<<<3, 4>>, attr_str>>>>
      BY AttributesHeld
    <3>3. [j \in DOMAIN ATTR |-> printData(ATTR[j], na)] = <<printData(ATTR[1], na)>>
      BY <3>2
    <3>. QED
      BY <2>2, <3>1, <3>2, <3>3
  <2>. QED
    BY <2>1, <2>2
<1>3. (IF Script[k].member = <<>> THEN <<>>
       ELSE printData(getMember(x, Script[k].member), NOT_AVAILABLE)) = HeldMember[k]
  <2>1. HeldMember[k] = CASE k = 11 -> vec_d [] k = 16 -> strings [] OTHER -> <<>>
    BY DEF HeldMember
  <2>2. CASE k \notin {11, 16}
    BY <2>1, <2>2, MembersOfScript
  <2>3. CASE k = 11
    BY <2>1, <2>3, MembersOfScript, ObjectsOfScript, PairListHeld, VectorsHeld
  <2>4. CASE k = 16
    BY <2>1, <2>4, MembersOfScript, ObjectsOfScript, PairListHeld, VectorsHeld
  <2>. QED
    BY <2>2, <2>3, <2>4
<1>. QED
  BY <1>1, <1>2, <1>3, Zenon DEF printEvalStatus, Contents

\* REXPNull is none of the classes.
LEMMA NullPrinted ==
    ASSUME NEW k \in DOMAIN Script
    PROVE  printEvalStatus(Script[k], NullObject) = Unexpected
<1>1. NullObject.t = XT_NULL
  BY NullAssumption DEF REXPNull, Object
<1>. QED
  BY <1>1, ObjectsHeld DEF printEvalStatus

LEMMA Shows == DemoInv => ShowsItsData
<1> SUFFICES ASSUME DemoInv PROVE ShowsItsData
  OBVIOUS
<1>1. CASE Returned("assigned")
  <2>1. pc = "assigned" /\ TurnInv
    BY <1>1 DEF DemoInv, Returned
  <2>2. response_isSuccessful <=> workspace[Script[item].sym] # Unset
    BY <1>1, <2>1 DEF TurnInv
  <2>. QED
    BY <2>1, <2>2 DEF ShowsItsData, Returned, printAssignStatus
<1>2. CASE Returned("evaluated")
  <2>1. pc = "evaluated" /\ TurnInv /\ item \in DOMAIN Script
    BY <1>2 DEF DemoInv, Returned, PlaceInv
  <2>2. result.value = IF response_isSuccessful THEN Script[item].expr ELSE NullObject
    BY <1>2, <2>1 DEF TurnInv
  <2>3. printEvalStatus(Script[item], result.value)
          = IF response_isSuccessful
              THEN [contents |-> Held[item],
                    attributes |-> IF item < 12 THEN <<>>
                                   ELSE <<<<<<<<3, 4>>, attr_str>>>>>>,
                    member |-> HeldMember[item]]
              ELSE Unexpected
    BY <2>1, <2>2, ObjectsPrinted, NullPrinted, Zenon
  <2>. QED
    BY <2>1, <2>3 DEF ShowsItsData, Returned
<1>. QED
  BY <1>1, <1>2 DEF ShowsItsData

\* While main runs the client keeps its invariants, and a symbol has the value
\* that main assigned to it, or none where main has been told so.
THEOREM DemoKeepsTurn == DemoSpec => []DemoInv
<1>. QED
  BY FlagsInit, DemoInvInit, FlagsNext, DemoInvNext, PTL DEF DemoSpec

\* The demo shows for each symbol what it has assigned to it: the values, its
\* own text for missing ones, the names, the member that it asks for by name
\* and the attributes, or says that the command failed.
THEOREM DemoShowsItsData == DemoSpec => []ShowsItsData
<1>. QED
  BY Shows, DemoKeepsTurn, PTL
=============================================================================
