------------------------- MODULE RserveSessionProofs -------------------------
(***************************************************************************)
(* RserveSession implements RserveCall: what RClient relies on, the call   *)
(* in progress and what it returned, follows from what NetworkManager      *)
(* promises about all the calls of its life.                               *)
(***************************************************************************)
EXTENDS RserveSession, TLAPS

\* A call that has not been made has left no trace; the call in progress has
\* neither ended nor returned; nothing is executed twice.
History ==
    /\ calls \in 0..MaxCalls
    /\ busy \in {"no", "query", "submit"}
    /\ busy # "no" => calls \in Calls /\ outcome[calls] = "none"
    /\ DOMAIN runs = Calls /\ DOMAIN answer = Calls
    /\ DOMAIN outcome = Calls /\ DOMAIN returned = Calls
    /\ \A c \in Calls : runs[c] \in {0, 1}
    /\ \A c \in Calls : c > calls => runs[c] = 0 /\ outcome[c] = "none"
    /\ \A c \in Calls : c > calls \/ (c = calls /\ busy # "no")
                          => returned[c] = NoReturn

LEMMA HistoryInit == MaxCalls \in Nat /\ Init => History
BY DEF Init, History, Calls

LEMMA HistoryNext ==
    ASSUME MaxCalls \in Nat, History, [Next]_vars
    PROVE  History'
<1> USE DEF History, Calls
<1>1. ASSUME NEW kind \in {"query", "submit"}, Begin(kind) PROVE History'
  BY <1>1 DEF Begin
<1>2. ASSUME NEW id \in ServerIDs, Open(id) PROVE History'
  BY <1>2 DEF Open
<1>3. ASSUME NEW r \in Responses, Execute(r) PROVE History'
  BY <1>3 DEF Execute
<1>4. ASSUME NEW c \in Calls, NEW r \in Responses, ExecuteLate(c, r)
      PROVE  History'
  BY <1>4 DEF ExecuteLate
<1>5. CASE ReturnVersion
  BY <1>5 DEF ReturnVersion
<1>6. CASE ReturnPacket
  BY <1>6 DEF ReturnPacket
<1>7. CASE Throw
  BY <1>7 DEF Throw
<1>8. CASE Close
  BY <1>8 DEF Close
<1>9. CASE UNCHANGED vars
  BY <1>9 DEF vars
<1>. QED
  BY <1>1, <1>2, <1>3, <1>4, <1>5, <1>6, <1>7, <1>8, <1>9 DEF Next

-----------------------------------------------------------------------------
(* The view of the call in progress. *)

LEMMA SameVersions ==
    /\ Call!NoVersion = NoVersion
    /\ \A id : Call!versionMatch(id, AnyVersion) = versionMatch(id, AnyVersion)
BY Zenon DEF NoVersion, Call!NoVersion, versionMatch, Call!versionMatch

LEMMA ViewInit == Init => Call!Init
BY SameVersions DEF Init, Call!Init, Running

\* Every step of a session is one of RserveCall, or changes nothing that the
\* call in progress sees.
LEMMA ViewNext ==
    ASSUME MaxCalls \in Nat, History, [Next]_vars
    PROVE  [Call!Next]_(Call!vars)
<1> USE DEF History, Calls, Call!vars, Running
<1>1. ASSUME NEW kind \in {"query", "submit"}, Begin(kind)
      PROVE  Call!Begin(kind)
  <2>1. /\ busy = "no" /\ busy' = kind /\ calls' = calls + 1
        /\ UNCHANGED <<session, version, runs, answer, returned>>
        /\ calls + 1 \in Calls /\ calls + 1 > calls /\ calls + 1 > 0
    BY <1>1 DEF Begin
  <2>2. returned[calls + 1] = NoReturn /\ runs[calls + 1] = 0
    BY <2>1
  <2>. QED
    BY <2>1, <2>2 DEF Call!Begin
<1>2. ASSUME NEW id \in ServerIDs, Open(id) PROVE Call!Open(id)
  <2>1. calls \in Calls
    BY <1>2 DEF Open
  <2>2. calls # NoSession
    BY <2>1 DEF NoSession
  <2>. QED
    BY <1>2, <2>2, SameVersions DEF Open, Call!Open
<1>3. ASSUME NEW r \in Responses, Execute(r) PROVE Call!Execute(Bare(r))
  <2>1. runs'[calls] = 1 /\ answer'[calls] = r /\ runs[calls] = 0
    BY <1>3 DEF Execute
  <2>. QED
    BY <1>3, <2>1 DEF Execute, Call!Execute
<1>4. ASSUME NEW c \in Calls, NEW r \in Responses, ExecuteLate(c, r)
      PROVE  UNCHANGED Call!vars
  <2>1. busy = "submit" => c # calls
    BY <1>4 DEF ExecuteLate
  <2>2. busy = "submit" =>
          runs'[calls] = runs[calls] /\ answer'[calls] = answer[calls]
    BY <1>4, <2>1 DEF ExecuteLate
  <2>. QED
    BY <1>4, <2>2 DEF ExecuteLate
<1>5. ASSUME ReturnVersion PROVE Call!ReturnVersion
  BY <1>5 DEF ReturnVersion, Call!ReturnVersion, Call!Ends
<1>6. ASSUME ReturnPacket PROVE Call!ReturnPacket
  <2>1. /\ busy = "submit" /\ runs[calls] = 1 /\ busy' = "no"
        /\ calls \in Calls /\ calls > 0
        /\ returned'[calls] = Content(calls, answer[calls])
        /\ UNCHANGED <<session, version, calls>>
    BY <1>6 DEF ReturnPacket
  <2>2. Bare(Content(calls, answer[calls])) = Bare(answer[calls])
    BY DEF Bare, Content
  <2>. QED
    BY <2>1, <2>2 DEF Call!ReturnPacket, Call!Ends
<1>7. ASSUME Throw PROVE Call!Throw
  BY <1>7, SameVersions DEF Throw, Call!Throw, Call!Ends
<1>8. ASSUME Close PROVE Call!Close
  BY <1>8, SameVersions DEF Close, Call!Close
<1>9. UNCHANGED vars => UNCHANGED Call!vars
  BY DEF vars
<1>10. ASSUME NEW r \in Responses PROVE Bare(r) \in {Bare(s) : s \in Responses}
  OBVIOUS
<1>. QED
  BY <1>1, <1>2, <1>3, <1>4, <1>5, <1>6, <1>7, <1>8, <1>9, <1>10
  DEF Next, Call!Next

\* Whoever only looks at the call in progress sees RserveCall: requests that
\* are executed late never touch the present session.
THEOREM SessionImplementsCall == MaxCalls \in Nat => (Spec => ImplementsCall)
<1> SUFFICES ASSUME MaxCalls \in Nat PROVE Spec => ImplementsCall
  OBVIOUS
<1>1. Init => History
  BY HistoryInit
<1>2. History /\ [Next]_vars => History'
  BY HistoryNext
<1>3. History /\ [Next]_vars => [Call!Next]_(Call!vars)
  BY ViewNext
<1>. QED
  BY <1>1, <1>2, <1>3, ViewInit, PTL
  DEF Spec, ImplementsCall, Call!Spec
=============================================================================
