-------------------------- MODULE MemoryTiersProofs --------------------------
(***************************************************************************)
(* What the memory router promises of its backends, for any number of      *)
(* calls, recalls and processes, any settings and any number of faults.    *)
(* Nothing here rests on the bounds of the model.                          *)
(***************************************************************************)
EXTENDS MemoryTiers, FiniteSetTheorems, SequenceTheorems, WellFoundedInduction, TLAPS

-------------------------------------------------------------------------------
\* Types

LEMMA TypeInit == Init => TypeOK
<1>1. "turn" \in Events
  BY DEF Events, WriteMap
<1>2. <<>> \in Seq(Keys) /\ <<>> \in Seq(Line) /\ <<>> \in Seq(Calls)
  OBVIOUS
<1> SUFFICES ASSUME Init PROVE TypeOK
  OBVIOUS
<1>3. /\ at \in [Calls -> Steps] /\ event \in [Calls -> Events] /\ payload \in [Calls -> Payloads]
      /\ todo \in [Calls -> Seq(Keys)]
  BY <1>1, <1>2 DEF Init, Steps, Payloads
<1>4. said \in [Calls -> [Keys -> {"nothing", "yes", "no"}]]
  BY DEF Init, Unsaid
<1>5. /\ facts \in [Calls -> Nat] /\ failures \in [Processes -> Nat]
      /\ lines \in [Files -> Seq(Line)] /\ open \in [Files -> BOOLEAN] /\ turns \in Seq(Calls)
  BY <1>2 DEF Init
<1>6. /\ reading \in [Recalls -> {"idle", "letta", "local", "done", "failed"}]
      /\ before \in [Recalls -> SUBSET Calls] /\ fits \in [Recalls -> SUBSET Calls]
      /\ got \in [Recalls -> SUBSET Calls]
      /\ source \in [Recalls -> {"none", "letta", "operational_store"}]
  BY DEF Init
<1> QED
  BY <1>3, <1>4, <1>5, <1>6 DEF Init, TypeOK

\* The targets of an event are keys, and only a turn's are Redis.
LEMMA Targets ==
    ASSUME NEW e \in Events
    PROVE  /\ WriteMap[e] \in Seq(Keys)
           /\ (\E i \in DOMAIN WriteMap[e] : WriteMap[e][i] = "redis") =>
                e = "turn" /\ WriteMap[e] = <<"redis">>
<1>1. e \in {"fact", "belief", "lesson", "preference", "record", "turn", "error"}
  BY DEF Events, WriteMap
<1>2. /\ "hindsight" \in Keys /\ "letta" \in Keys /\ "postgres" \in Keys
      /\ "redis" \in Keys /\ "guardian_log" \in Keys
  BY DEF Keys, Files
<1>3. \/ \E a \in Keys \ {"redis"} : WriteMap[e] = <<a>>
      \/ \E a, b \in Keys \ {"redis"} : WriteMap[e] = <<a, b>>
      \/ e = "turn" /\ WriteMap[e] = <<"redis">>
  BY <1>1, <1>2 DEF WriteMap
<1>4. CASE \E a \in Keys \ {"redis"} : WriteMap[e] = <<a>>
  <2> PICK a \in Keys \ {"redis"} : WriteMap[e] = <<a>>
    BY <1>4
  <2>1. <<a>> \in Seq(Keys) /\ \A i \in DOMAIN <<a>> : <<a>>[i] # "redis"
    OBVIOUS
  <2> QED
    BY <2>1
<1>5. CASE \E a, b \in Keys \ {"redis"} : WriteMap[e] = <<a, b>>
  <2> PICK a, b \in Keys \ {"redis"} : WriteMap[e] = <<a, b>>
    BY <1>5
  <2>1. <<a, b>> \in Seq(Keys) /\ \A i \in DOMAIN <<a, b>> : <<a, b>>[i] # "redis"
    OBVIOUS
  <2> QED
    BY <2>1
<1>6. CASE e = "turn" /\ WriteMap[e] = <<"redis">>
  <2>1. <<"redis">> \in Seq(Keys)
    BY <1>2
  <2> QED
    BY <1>6, <2>1
<1> QED
  BY <1>3, <1>4, <1>5, <1>6

LEMMA AnswerType ==
    ASSUME TypeOK, NEW c \in Calls, NEW k \in Keys, NEW o, Says(c, k, o)
    PROVE  said' \in [Calls -> [Keys -> {"nothing", "yes", "no"}]]
BY DEF TypeOK, Says

LEMMA GoType ==
    ASSUME TypeOK, NEW c \in Calls, NEW s \in Steps, GoTo(c, s)
    PROVE  at' \in [Calls -> Steps] /\ todo' \in [Calls -> Seq(Keys)]
BY DEF TypeOK, GoTo

LEMMA NextType ==
    ASSUME TypeOK, NEW c \in Calls, todo[c] # <<>>, NextTarget(c)
    PROVE  at' \in [Calls -> Steps] /\ todo' \in [Calls -> Seq(Keys)]
<1>1. at \in [Calls -> Steps] /\ todo \in [Calls -> Seq(Keys)] /\ todo[c] \in Seq(Keys)
  BY DEF TypeOK
<1>2. Tail(todo[c]) \in Seq(Keys)
  BY <1>1
<1> QED
  BY <1>1, <1>2 DEF NextTarget, Steps

LEMMA CountType ==
    ASSUME TypeOK, NEW c \in Calls, NEW o, Counted(c, o)
    PROVE  failures' \in [Processes -> Nat]
<1>1. failures \in [Processes -> Nat] /\ Home[c] \in Processes
  BY CallsAreCalls DEF TypeOK
<1> QED
  BY <1>1 DEF Counted

LEMMA FaultType == ASSUME TypeOK, NEW o, Outcome(o) PROVE faults' \in Nat
BY DEF TypeOK, Outcome

\* A file grows by lines; a half line is nobody's.
OpenIsNobodys ==
    \A f \in Files : open[f] => /\ lines[f] # <<>>
                                /\ lines[f][Len(lines[f])].of = None

Written(f, c) == \E i \in DOMAIN lines[f] : lines[f][i].of = c

Has(L, d) == \E i \in DOMAIN L : L[i].of = d

LEMMA LineAdded ==
    ASSUME NEW L \in Seq(Line), NEW x \in Line
    PROVE  /\ Append(L, x) \in Seq(Line) /\ Has(Append(L, x), x.of)
           /\ Append(L, x) # <<>> /\ Append(L, x)[Len(Append(L, x))] = x
           /\ \A d : Has(L, d) => Has(Append(L, x), d)
<1> DEFINE M == Append(L, x)
<1>1. /\ M \in Seq(Line) /\ M # <<>> /\ Len(M) = Len(L) + 1 /\ Len(L) \in Nat
      /\ \A i \in 1 .. Len(L) : M[i] = L[i]
      /\ M[Len(L) + 1] = x
  BY AppendProperties, LenProperties
<1>2. DOMAIN L = 1 .. Len(L) /\ DOMAIN M = 1 .. Len(M)
  BY <1>1, LenProperties
<1> HIDE DEF M
<1>3. Has(M, x.of) /\ M[Len(M)] = x
  BY <1>1, <1>2 DEF Has
<1>4. \A d : Has(L, d) => Has(M, d)
  BY <1>1, <1>2 DEF Has
<1> QED
  BY <1>1, <1>3, <1>4 DEF M

LEMMA LineEnded ==
    ASSUME NEW L \in Seq(Line), L # <<>>, L[Len(L)].of = None, NEW c \in Calls
    PROVE  LET M == [L EXCEPT ![Len(L)].of = c]
           IN  /\ M \in Seq(Line) /\ Has(M, c)
               /\ \A d \in Calls : Has(L, d) => Has(M, d)
<1> DEFINE n == Len(L)  x == [of |-> c, whole |-> L[n].whole]  M == [L EXCEPT ![n] = x]
<1>1. DOMAIN L = 1 .. n /\ n \in 1 .. n /\ None \notin Calls
  BY LenProperties, EmptySeq, CallsAreCalls
<1>2. L[n] \in Line
  BY <1>1, ElementOfSeq
<1>3. x \in Line /\ [L[n] EXCEPT !.of = c] = x
  BY <1>2 DEF Line
<1>4. [L EXCEPT ![n].of = c] = M
  BY <1>3
<1>5. M \in Seq(Line) /\ Len(M) = n /\ \A j \in 1 .. n : M[j] = IF j = n THEN x ELSE L[j]
  BY <1>1, <1>3, ExceptSeq
<1>6. DOMAIN M = 1 .. n
  BY <1>5, LenProperties
<1> HIDE DEF M, n
<1>7. Has(M, c)
  BY <1>1, <1>5, <1>6 DEF Has
<1>8. \A d \in Calls : Has(L, d) => Has(M, d)
  <2> SUFFICES ASSUME NEW d \in Calls, NEW i \in DOMAIN L, L[i].of = d PROVE Has(M, d)
    BY DEF Has
  <2>1. i # n
    BY <1>1 DEF n
  <2> QED
    BY <1>1, <1>5, <1>6, <2>1 DEF Has
<1> QED
  BY <1>4, <1>5, <1>7, <1>8 DEF n

LEMMA AppendedLines ==
    ASSUME TypeOK, OpenIsNobodys, NEW f \in Files, NEW c \in Calls, Appended(f, c)
    PROVE  /\ lines' \in [Files -> Seq(Line)] /\ open' \in [Files -> BOOLEAN]
           /\ OpenIsNobodys' /\ Written(f, c)'
           /\ \A g \in Files, d \in Calls : Written(g, d) => Written(g, d)'
<1>1. /\ lines \in [Files -> Seq(Line)] /\ open \in [Files -> BOOLEAN]
      /\ lines[f] \in Seq(Line)
  BY DEF TypeOK
<1>2. PICK M \in Seq(Line) :
        /\ lines' = [lines EXCEPT ![f] = M] /\ Has(M, c)
        /\ \A d \in Calls : Has(lines[f], d) => Has(M, d)
  <2>1. CASE open[f]
    <3> DEFINE M == [lines[f] EXCEPT ![Len(lines[f])].of = c]
    <3>1. /\ M \in Seq(Line) /\ Has(M, c)
          /\ \A d \in Calls : Has(lines[f], d) => Has(M, d)
      BY <1>1, <2>1, LineEnded DEF OpenIsNobodys
    <3>2. lines' = [lines EXCEPT ![f] = M]
      BY <2>1 DEF Appended
    <3> QED
      BY <3>1, <3>2
  <2>2. CASE ~open[f]
    <3> DEFINE x == [of |-> c, whole |-> TRUE]  M == Append(lines[f], x)
    <3>1. x \in Line /\ x.of = c
      BY DEF Line
    <3> HIDE DEF x
    <3>2. /\ M \in Seq(Line) /\ Has(M, c)
          /\ \A d : Has(lines[f], d) => Has(M, d)
      BY <1>1, <3>1, LineAdded
    <3>3. lines' = [lines EXCEPT ![f] = M]
      BY <2>2 DEF Appended, x
    <3> QED
      BY <3>2, <3>3
  <2> QED
    BY <2>1, <2>2
<1>3. open' = [open EXCEPT ![f] = FALSE]
  BY DEF Appended
<1> QED
  BY <1>1, <1>2, <1>3 DEF OpenIsNobodys, Written, Has

LEMMA TornLines ==
    ASSUME TypeOK, OpenIsNobodys, NEW f \in Files, Torn(f)
    PROVE  /\ lines' \in [Files -> Seq(Line)] /\ open' \in [Files -> BOOLEAN]
           /\ OpenIsNobodys'
           /\ \A g \in Files, d \in Calls : Written(g, d) => Written(g, d)'
<1>1. /\ lines \in [Files -> Seq(Line)] /\ open \in [Files -> BOOLEAN]
      /\ lines[f] \in Seq(Line)
  BY DEF TypeOK
<1>2. PICK M \in Seq(Line) :
        /\ lines' = [lines EXCEPT ![f] = M] /\ M # <<>> /\ M[Len(M)].of = None
        /\ \A d \in Calls : Has(lines[f], d) => Has(M, d)
  <2>1. CASE open[f]
    BY <1>1, <2>1 DEF Torn, OpenIsNobodys
  <2>2. CASE ~open[f]
    <3> DEFINE x == [of |-> None, whole |-> FALSE]  M == Append(lines[f], x)
    <3>1. x \in Line /\ x.of = None
      BY DEF Line
    <3> HIDE DEF x
    <3>2. /\ M \in Seq(Line) /\ M # <<>> /\ M[Len(M)].of = None
          /\ \A d : Has(lines[f], d) => Has(M, d)
      BY <1>1, <3>1, LineAdded
    <3>3. lines' = [lines EXCEPT ![f] = M]
      BY <2>2 DEF Torn, x
    <3> QED
      BY <3>2, <3>3
  <2> QED
    BY <2>1, <2>2
<1>3. open' = [open EXCEPT ![f] = TRUE]
  BY DEF Torn
<1> QED
  BY <1>1, <1>2, <1>3 DEF OpenIsNobodys, Written, Has

\* A call with a step to take has a target to take it for.
Busy(c) == at[c] \in {"unanswered", "store", "trim", "expire"} => todo[c] # <<>>

BaseInv == TypeOK /\ OpenIsNobodys /\ \A c \in Calls : Busy(c)

\* What a retain's step keeps: every variable's type, the lines that were
\* there, and the other calls.
Framed(c) ==
    /\ BaseInv'
    /\ \A g \in Files, d \in Calls : Written(g, d) => Written(g, d)'
    /\ \A d \in Calls \ {c} : /\ at'[d] = at[d] /\ todo'[d] = todo[d] /\ said'[d] = said[d]
                              /\ event'[d] = event[d] /\ payload'[d] = payload[d]
                              /\ facts'[d] = facts[d]

\* The variables of calls, as a step leaves them.
CallsAsTyped ==
    /\ at' \in [Calls -> Steps] /\ todo' \in [Calls -> Seq(Keys)]
    /\ said' \in [Calls -> [Keys -> {"nothing", "yes", "no"}]]
    /\ facts' \in [Calls -> Nat]
    /\ failures' \in [Processes -> Nat] /\ faults' \in Nat

OtherCalls(c) ==
    \A d \in Calls \ {c} :
        at'[d] = at[d] /\ todo'[d] = todo[d] /\ said'[d] = said[d] /\ facts'[d] = facts[d]

LEMMA Frame ==
    ASSUME BaseInv, NEW c \in Calls, CallsAsTyped, OtherCalls(c), Busy(c)',
           UNCHANGED <<env, event, payload, recallVars, died>>,
           turns' \in Seq(Calls), expires' \in BOOLEAN,
           letta' \subseteq Calls, rows' \subseteq Calls,
           UNCHANGED <<lines, open>> \/ \E f \in Files : Appended(f, c) \/ Torn(f)
    PROVE  Framed(c)
<1>1. /\ lines' \in [Files -> Seq(Line)] /\ open' \in [Files -> BOOLEAN]
      /\ OpenIsNobodys' /\ \A g \in Files, d \in Calls : Written(g, d) => Written(g, d)'
  <2>1. CASE UNCHANGED <<lines, open>>
    BY <2>1 DEF BaseInv, TypeOK, OpenIsNobodys, Written
  <2>2. CASE \E f \in Files : Appended(f, c)
    BY <2>2, AppendedLines DEF BaseInv
  <2>3. CASE \E f \in Files : Torn(f)
    BY <2>3, TornLines DEF BaseInv
  <2> QED
    BY <2>1, <2>2, <2>3
<1>2. TypeOK'
  BY <1>1 DEF BaseInv, TypeOK, CallsAsTyped, recallVars
<1>3. \A d \in Calls : Busy(d)'
  BY DEF BaseInv, Busy, OtherCalls
<1> QED
  BY <1>1, <1>2, <1>3 DEF Framed, BaseInv, OtherCalls

\* A step that answers and turns to the next target, or goes on with this one.
LEMMA Answers ==
    ASSUME BaseInv, NEW c \in Calls, todo[c] # <<>>, NEW k \in Keys, NEW o,
           \/ Says(c, k, o) /\ NextTarget(c)
           \/ /\ UNCHANGED said \/ Says(c, k, o)
              /\ \E s \in {"unanswered", "store", "trim", "expire"} : GoTo(c, s),
           UNCHANGED facts \/ facts' = [facts EXCEPT ![c] = @ + 1],
           Outcome(o) \/ UNCHANGED faults, Counted(c, o) \/ UNCHANGED failures
    PROVE  CallsAsTyped /\ OtherCalls(c) /\ Busy(c)'
<1>1. /\ at \in [Calls -> Steps] /\ todo \in [Calls -> Seq(Keys)]
      /\ said \in [Calls -> [Keys -> {"nothing", "yes", "no"}]]
      /\ facts \in [Calls -> Nat] /\ failures \in [Processes -> Nat] /\ faults \in Nat /\ TypeOK
  BY DEF BaseInv, TypeOK
<1>2. /\ at' \in [Calls -> Steps] /\ todo' \in [Calls -> Seq(Keys)] /\ Busy(c)'
      /\ \A d \in Calls \ {c} : at'[d] = at[d] /\ todo'[d] = todo[d]
  <2>1. CASE NextTarget(c)
    BY <1>1, <2>1, NextType DEF NextTarget, Busy
  <2>2. CASE \E s \in {"unanswered", "store", "trim", "expire"} : GoTo(c, s)
    BY <1>1, <2>2, GoType DEF GoTo, Busy, Steps
  <2> QED
    BY <2>1, <2>2
<1>3. /\ said' \in [Calls -> [Keys -> {"nothing", "yes", "no"}]]
      /\ \A d \in Calls \ {c} : said'[d] = said[d]
  BY <1>1, AnswerType DEF Says
<1>4. facts' \in [Calls -> Nat] /\ \A d \in Calls \ {c} : facts'[d] = facts[d]
  <2>1. facts[c] + 1 \in Nat
    BY <1>1
  <2>2. CASE facts' = facts
    BY <1>1, <2>2
  <2>3. CASE facts' = [facts EXCEPT ![c] = @ + 1]
    BY <1>1, <2>1, <2>3
  <2> QED
    BY <2>2, <2>3
<1>5. failures' \in [Processes -> Nat] /\ faults' \in Nat
  BY <1>1, CountType, FaultType
<1> QED
  BY <1>2, <1>3, <1>4, <1>5 DEF CallsAsTyped, OtherCalls

\* The three ways to Hindsight.
LEMMA BridgeFramed == ASSUME BaseInv, NEW c \in Calls, PostBridge(c) PROVE Framed(c)
<1>1. PICK o \in {"ok", "refused", "lost", "down"} :
        /\ Turn(c, "hindsight") /\ Outcome(o) /\ Retained(c, o)
        /\ \/ Says(c, "hindsight", o) /\ Counted(c, o) /\ NextTarget(c)
           \/ GoTo(c, "unanswered") /\ UNCHANGED <<said, failures>>
        /\ UNCHANGED <<env, event, payload, recallVars, turns, expires, letta, rows,
                       lines, open, died>>
  BY DEF PostBridge
<1>2. CallsAsTyped /\ OtherCalls(c) /\ Busy(c)'
  BY <1>1, Answers DEF Turn, Retained, Keys
<1> QED
  BY <1>1, <1>2, Frame DEF BaseInv, TypeOK

LEMMA ExecFramed == ASSUME BaseInv, NEW c \in Calls, ExecBridge(c) PROVE Framed(c)
<1>1. PICK o \in {"ok", "lost", "down"} :
        /\ todo[c] # <<>> /\ (Outcome(o) \/ UNCHANGED faults) /\ Retained(c, o)
        /\ Says(c, "hindsight", o) /\ Counted(c, o) /\ NextTarget(c)
        /\ UNCHANGED <<env, event, payload, recallVars, turns, expires, letta, rows,
                       lines, open, died>>
  BY DEF ExecBridge, Turn, BaseInv, Busy
<1>2. CallsAsTyped /\ OtherCalls(c) /\ Busy(c)'
  BY <1>1, Answers DEF Retained, Keys
<1> QED
  BY <1>1, <1>2, Frame DEF BaseInv, TypeOK

LEMMA DirectFramed == ASSUME BaseInv, NEW c \in Calls, RetainDirect(c) PROVE Framed(c)
<1>1. PICK o \in {"ok", "lost", "down"} :
        /\ todo[c] # <<>> /\ Outcome(o) /\ Retained(c, o)
        /\ Says(c, "hindsight", o) /\ Counted(c, o) /\ NextTarget(c)
        /\ UNCHANGED <<env, event, payload, recallVars, turns, expires, letta, rows,
                       lines, open, died>>
  BY DEF RetainDirect, Turn
<1>2. CallsAsTyped /\ OtherCalls(c) /\ Busy(c)'
  BY <1>1, Answers DEF Retained, Keys
<1> QED
  BY <1>1, <1>2, Frame DEF BaseInv, TypeOK

\* The tiers that answer at once.
LEMMA LettaFramed == ASSUME BaseInv, NEW c \in Calls, RetainLetta(c) PROVE Framed(c)
<1>1. PICK o \in {"ok", "lost", "down"} :
        /\ todo[c] # <<>> /\ Outcome(o) /\ Says(c, "letta", o) /\ Counted(c, o)
        /\ letta' \subseteq letta \cup {c} /\ GoTo(c, "store")
        /\ UNCHANGED <<env, event, payload, recallVars, turns, expires, facts, rows,
                       lines, open, died>>
  BY DEF RetainLetta, Turn
<1>2. CallsAsTyped /\ OtherCalls(c) /\ Busy(c)'
  BY <1>1, Answers DEF Keys
<1> QED
  BY <1>1, <1>2, Frame DEF BaseInv, TypeOK

LEMMA StructuredFramed == ASSUME BaseInv, NEW c \in Calls, RetainStructured(c) PROVE Framed(c)
<1>1. PICK o \in {"ok", "lost", "down"} :
        /\ todo[c] # <<>> /\ Outcome(o) /\ Says(c, "postgres", o)
        /\ rows' \subseteq rows \cup {c} /\ NextTarget(c)
        /\ UNCHANGED <<env, event, payload, recallVars, turns, expires, facts, letta,
                       lines, open, failures, died>>
  BY DEF RetainStructured, Turn
<1>2. CallsAsTyped /\ OtherCalls(c) /\ Busy(c)'
  BY <1>1, Answers DEF Keys
<1> QED
  BY <1>1, <1>2, Frame DEF BaseInv, TypeOK

\* An append, of whichever outcome.
LEMMA AppendFramed ==
    ASSUME BaseInv, NEW c \in Calls, AppendOperational(c) \/ AppendGuardian(c)
    PROVE  Framed(c)
<1>1. PICK o \in {"ok", "down", "torn"}, f \in Files :
        /\ todo[c] # <<>> /\ (Outcome(o) \/ UNCHANGED faults) /\ AppendTo(f, c, o)
        /\ Says(c, f, o) /\ NextTarget(c)
        /\ UNCHANGED <<env, event, payload, recallVars, turns, expires, facts, letta,
                       rows, failures, died>>
  BY DEF AppendOperational, AppendGuardian, Turn, BaseInv, Busy, Files
<1>2. CallsAsTyped /\ OtherCalls(c) /\ Busy(c)'
  BY <1>1, Answers DEF Keys
<1>3. UNCHANGED <<lines, open>> \/ \E g \in Files : Appended(g, c) \/ Torn(g)
  BY <1>1 DEF AppendTo
<1> QED
  BY <1>1, <1>2, <1>3, Frame DEF BaseInv, TypeOK

\* The three commands of a turn.
LEMMA RedisFramed ==
    ASSUME BaseInv, NEW c \in Calls, Push(c) \/ Trim(c) \/ SetExpiry(c)
    PROVE  Framed(c)
<1>1. PICK o \in {"ok", "lost", "down"} :
        /\ todo[c] # <<>> /\ Outcome(o)
        /\ \/ Says(c, "redis", o) /\ NextTarget(c)
           \/ UNCHANGED said /\ \E s \in {"trim", "expire"} : GoTo(c, s)
        /\ UNCHANGED <<env, event, payload, recallVars, facts, letta, rows, lines, open,
                       failures, died>>
  BY DEF Push, Trim, SetExpiry, RedisStep, Turn, BaseInv, Busy
<1>2. CallsAsTyped /\ OtherCalls(c) /\ Busy(c)'
  BY <1>1, Answers DEF Keys
<1>3. turns \in Seq(Calls) /\ expires \in BOOLEAN /\ MaxTurns \in Nat
  BY BoundsAreNat DEF BaseInv, TypeOK
<1>4. turns' \in Seq(Calls)
  <2>1. <<c>> \o turns \in Seq(Calls)
    BY <1>3
  <2>2. Len(turns) > MaxTurns => SubSeq(turns, 1, MaxTurns) \in Seq(Calls)
    BY <1>3
  <2>3. CASE Push(c)
    BY <1>3, <2>1, <2>3 DEF Push
  <2>4. CASE Trim(c)
    <3>1. turns' = turns \/ (Len(turns) > MaxTurns /\ turns' = SubSeq(turns, 1, MaxTurns))
      BY <1>3, <2>4 DEF Trim
    <3> QED
      BY <1>3, <2>2, <3>1
  <2>5. CASE SetExpiry(c)
    BY <1>3, <2>5 DEF SetExpiry
  <2> QED
    BY <2>3, <2>4, <2>5
<1>5. expires' \in BOOLEAN
  BY <1>3 DEF Push, Trim, SetExpiry
<1> QED
  BY <1>1, <1>2, <1>4, <1>5, Frame DEF BaseInv, TypeOK

\* What touches no store.
LEMMA PlainFramed ==
    ASSUME BaseInv, NEW c \in Calls, PassOver(c) \/ End(c) \/ RefuseBacklog(c)
    PROVE  Framed(c)
<1>1. UNCHANGED <<env, event, payload, recallVars, stores, failures, faults, died>>
  BY DEF PassOver, End, RefuseBacklog
<1>2. CASE PassOver(c) \/ RefuseBacklog(c)
  <2>1. todo[c] # <<>> /\ NextTarget(c) /\ (UNCHANGED said \/ Says(c, "hindsight", "refused"))
    BY <1>2 DEF PassOver, RefuseBacklog, Turn
  <2>2. CallsAsTyped /\ OtherCalls(c) /\ Busy(c)'
    <3>1. at' \in [Calls -> Steps] /\ todo' \in [Calls -> Seq(Keys)]
      BY <2>1, NextType DEF BaseInv
    <3>2. said' \in [Calls -> [Keys -> {"nothing", "yes", "no"}]]
      BY <2>1, AnswerType DEF BaseInv, TypeOK, Keys
    <3>3. OtherCalls(c) /\ Busy(c)'
      BY <1>1, <2>1 DEF BaseInv, TypeOK, Says, NextTarget, OtherCalls, Busy, stores
    <3> QED
      BY <1>1, <3>1, <3>2, <3>3 DEF CallsAsTyped, BaseInv, TypeOK, stores
  <2> QED
    BY <1>1, <2>2, Frame DEF BaseInv, TypeOK, stores
<1>3. CASE End(c)
  <2>1. GoTo(c, "done") /\ UNCHANGED said
    BY <1>3 DEF End
  <2>2. CallsAsTyped /\ OtherCalls(c) /\ Busy(c)'
    BY <1>1, <2>1, GoType DEF BaseInv, TypeOK, GoTo, OtherCalls, CallsAsTyped, Busy, Steps, stores
  <2> QED
    BY <1>1, <2>2, Frame DEF BaseInv, TypeOK, stores
<1> QED
  BY <1>2, <1>3

\* A retain begins with the targets of its event.
LEMMA BeginFramed == ASSUME BaseInv, NEW c \in Calls, Begin(c) PROVE Framed(c)
<1>1. PICK i \in Inputs[Home[c]] :
        /\ event' = [event EXCEPT ![c] = i[1]] /\ payload' = [payload EXCEPT ![c] = i[2]]
        /\ todo' = [todo EXCEPT ![c] = WriteMap[i[1]]] /\ at' = [at EXCEPT ![c] = "next"]
        /\ UNCHANGED <<env, said, recallVars, stores, failures, faults, died>>
  BY DEF Begin
<1>2. i[1] \in Events /\ i[2] \in Payloads
  BY CallsAreCalls, InputsAreInputs
<1>3. WriteMap[i[1]] \in Seq(Keys)
  BY <1>2, Targets
<1>4. TypeOK
  BY DEF BaseInv
<1>5. /\ at' \in [Calls -> Steps] /\ todo' \in [Calls -> Seq(Keys)]
      /\ event' \in [Calls -> Events] /\ payload' \in [Calls -> Payloads]
  BY <1>1, <1>2, <1>3, <1>4 DEF TypeOK, Steps
<1>6. TypeOK'
  BY <1>1, <1>4, <1>5 DEF TypeOK, recallVars, stores
<1>7. at'[c] = "next" /\ \A d \in Calls \ {c} : /\ at'[d] = at[d] /\ todo'[d] = todo[d]
                                                /\ event'[d] = event[d] /\ payload'[d] = payload[d]
  BY <1>1, <1>4 DEF TypeOK
<1>8. \A d \in Calls : Busy(d)'
  BY <1>7 DEF BaseInv, Busy
<1>9. OpenIsNobodys' /\ \A g \in Files, d \in Calls : Written(g, d) => Written(g, d)'
  BY <1>1 DEF BaseInv, OpenIsNobodys, Written, stores
<1> QED
  BY <1>1, <1>6, <1>7, <1>8, <1>9 DEF Framed, BaseInv, stores

LEMMA RetainFramed == ASSUME BaseInv, NEW c \in Calls, Retain(c) PROVE Framed(c)
BY BeginFramed, PlainFramed, BridgeFramed, ExecFramed, DirectFramed, LettaFramed, AppendFramed,
   StructuredFramed, RedisFramed DEF Retain

\* Recalls, deaths and the end of the window leave the calls' answers alone.
LEMMA OtherStep ==
    ASSUME BaseInv,
           \/ \E r \in Recalls : Recall(r)
           \/ \E p \in Processes : Die(p)
           \/ WindowExpires
           \/ UNCHANGED vars
    PROVE  /\ BaseInv'
           /\ \A g \in Files, d \in Calls : Written(g, d) => Written(g, d)'
           /\ UNCHANGED <<env, event, payload, todo, said, facts, letta, rows>>
           /\ \A d \in Calls : at'[d] = at[d] \/ (at'[d] = "dead" /\ at[d] # "idle")
<1> USE DEF BaseInv
<1>1. CASE \E r \in Recalls : Recall(r)
  <2> PICK r \in Recalls : Recall(r)
    BY <1>1
  <2>1. UNCHANGED <<env, callVars, stores, failures, died>>
    BY DEF Recall, Open, SearchLetta, ReadStore
  <2>2. /\ reading' \in [Recalls -> {"idle", "letta", "local", "done", "failed"}]
        /\ before' \in [Recalls -> SUBSET Calls] /\ fits' \in [Recalls -> SUBSET Calls]
        /\ got' \in [Recalls -> SUBSET Calls]
        /\ source' \in [Recalls -> {"none", "letta", "operational_store"}]
    <3>1. CASE Open(r)
      <4>1. PICK q \in Queries : fits' = [fits EXCEPT ![r] = q]
        BY <3>1 DEF Open
      <4>2. q \in SUBSET Calls
        BY QueriesFitCalls
      <4> QED
        BY <3>1, <4>1, <4>2 DEF Open, TypeOK
    <3>2. CASE SearchLetta(r)
      <4>1. PICK s \in SUBSET letta :
              /\ \/ reading' = [reading EXCEPT ![r] = "local"] /\ UNCHANGED <<got, source>>
                 \/ reading' = [reading EXCEPT ![r] = "done"] /\ Gets(r, s, "letta")
              /\ UNCHANGED <<before, fits>>
        BY <3>2 DEF SearchLetta
      <4>2. s \in SUBSET Calls
        BY DEF TypeOK
      <4> QED
        BY <4>1, <4>2 DEF Gets, TypeOK
    <3>3. CASE ReadStore(r)
      <4>1. Newest("operational_store", fits[r], Limit) \subseteq Calls
        BY DEF Newest, Readable, TypeOK
      <4>2. \E s \in SUBSET Calls : Gets(r, s, "operational_store")
        BY <3>3, <4>1 DEF ReadStore
      <4>3. reading' \in [Recalls -> {"idle", "letta", "local", "done", "failed"}]
            /\ before' = before /\ fits' = fits
        BY <3>3 DEF ReadStore, TypeOK
      <4>4. PICK s \in SUBSET Calls : Gets(r, s, "operational_store")
        BY <4>2
      <4> QED
        BY <4>3, <4>4 DEF Gets, TypeOK
    <3> QED
      BY <3>1, <3>2, <3>3 DEF Recall
  <2>4. faults' \in Nat
    BY FaultType DEF Recall, Open, SearchLetta, ReadStore, TypeOK
  <2>5. TypeOK'
    BY <2>1, <2>2, <2>4 DEF TypeOK, callVars, stores
  <2> QED
    BY <2>1, <2>5 DEF OpenIsNobodys, Busy, Written, callVars, stores
<1>2. CASE \E p \in Processes : Die(p)
  <2> PICK p \in Processes : Die(p)
    BY <1>2
  <2>1. /\ at' = [c \in Calls |-> IF Home[c] = p /\ InFlight(c) THEN "dead" ELSE at[c]]
        /\ failures' = [failures EXCEPT ![p] = 0] /\ died' = died \cup {p}
        /\ UNCHANGED <<lines, open>> \/ \E f \in Files : Torn(f)
        /\ UNCHANGED <<env, event, payload, todo, said, recallVars, turns, expires, facts,
                       letta, rows, faults>>
    BY DEF Die
  <2>2. /\ lines' \in [Files -> Seq(Line)] /\ open' \in [Files -> BOOLEAN]
        /\ OpenIsNobodys' /\ \A g \in Files, d \in Calls : Written(g, d) => Written(g, d)'
    <3>1. CASE UNCHANGED <<lines, open>>
      BY <3>1 DEF TypeOK, OpenIsNobodys, Written
    <3> QED
      BY <2>1, <3>1, TornLines
  <2>3. at' \in [Calls -> Steps] /\ failures' \in [Processes -> Nat] /\ died' \subseteq Processes
    BY <2>1 DEF TypeOK, Steps
  <2>4. TypeOK'
    BY <2>1, <2>2, <2>3 DEF TypeOK, recallVars
  <2>5. \A d \in Calls : at'[d] = at[d] \/ (at'[d] = "dead" /\ at[d] # "idle")
    BY <2>1 DEF InFlight
  <2>6. \A d \in Calls : Busy(d)'
    BY <2>1, <2>5 DEF Busy
  <2> QED
    BY <2>1, <2>2, <2>4, <2>5, <2>6
<1>3. CASE WindowExpires
  <2>1. <<>> \in Seq(Calls)
    OBVIOUS
  <2> QED
    BY <1>3, <2>1 DEF WindowExpires, TypeOK, OpenIsNobodys, Busy, Written, callVars, recallVars
<1>4. CASE UNCHANGED vars
  BY <1>4 DEF vars, TypeOK, OpenIsNobodys, Busy, Written, callVars, recallVars, stores
<1> QED
  BY <1>1, <1>2, <1>3, <1>4

LEMMA BaseStep == ASSUME BaseInv, [Next]_vars PROVE BaseInv'
BY RetainFramed, OtherStep DEF Next, Framed

LEMMA BaseInit == Init => BaseInv
<1> SUFFICES ASSUME Init PROVE BaseInv
  OBVIOUS
<1>1. OpenIsNobodys /\ \A c \in Calls : Busy(c)
  BY DEF Init, OpenIsNobodys, Busy
<1> QED
  BY <1>1, TypeInit DEF BaseInv

\* Every variable keeps its type.
THEOREM TypeCorrect == Spec => []TypeOK
<1>1. BaseInv => TypeOK
  BY DEF BaseInv
<1> QED
  BY <1>1, BaseInit, BaseStep, PTL DEF Spec

-------------------------------------------------------------------------------
\* A yes is kept

\* What a step that answers call c under key k must have done.
Stored(c, k) ==
    /\ k = "hindsight" => facts[c] > 0
    /\ k = "letta" => c \in letta
    /\ k = "postgres" => c \in rows
    /\ k \in Files => Written(k, c)

Grows(c) == facts'[c] >= facts[c] /\ letta \subseteq letta' /\ rows \subseteq rows'

\* YesIsKept, one call and one key at a time.
Keeps == \A c \in Calls, k \in Keys : said[c][k] = "yes" => Stored(c, k)

LEMMA KeepsIsEnough == Keeps => YesIsKept
BY DEF Keeps, YesIsKept, Stored, Keys, Files, Written

LEMMA KeepsStep ==
    ASSUME BaseInv, Keeps, NEW c \in Calls, Framed(c), Grows(c),
           NEW k \in Keys, NEW o, UNCHANGED said \/ Says(c, k, o),
           Says(c, k, o) /\ o = "ok" => Stored(c, k)'
    PROVE  Keeps'
<1> SUFFICES ASSUME NEW d \in Calls, NEW j \in Keys, said'[d][j] = "yes" PROVE Stored(d, j)'
  BY DEF Keeps
<1>1. CASE said[d][j] = "yes"
  <2>1. Stored(d, j)
    BY <1>1 DEF Keeps
  <2>2. facts[d] \in Nat /\ facts'[d] \in Nat /\ facts'[d] >= facts[d]
    <3>1. facts \in [Calls -> Nat] /\ facts' \in [Calls -> Nat]
      BY DEF BaseInv, TypeOK, Framed
    <3>2. CASE d = c
      BY <3>1, <3>2 DEF Grows
    <3>3. CASE d # c
      <4>1. facts'[d] = facts[d]
        BY <3>3 DEF Framed
      <4> QED
        BY <3>1, <4>1
    <3> QED
      BY <3>2, <3>3
  <2> QED
    BY <2>1, <2>2 DEF Stored, Framed, Grows
<1>2. CASE said[d][j] # "yes"
  <2>1. d = c /\ j = k /\ o = "ok" /\ Says(c, k, o)
    BY <1>2 DEF Says, BaseInv, TypeOK
  <2> QED
    BY <2>1
<1> QED
  BY <1>1, <1>2

LEMMA FactsGrow ==
    ASSUME BaseInv, NEW c \in Calls, NEW o, Retained(c, o)
    PROVE  facts'[c] >= facts[c] /\ (o = "ok" => facts'[c] > 0)
<1>1. facts \in [Calls -> Nat] /\ facts[c] \in Nat
  BY DEF BaseInv, TypeOK
<1>2. facts'[c] = facts[c] \/ facts'[c] = facts[c] + 1
  BY <1>1 DEF Retained
<1>3. o = "ok" => facts'[c] = facts[c] + 1
  BY <1>1 DEF Retained
<1> QED
  BY <1>1, <1>2, <1>3

LEMMA RetainKeeps == ASSUME BaseInv, Keeps, NEW c \in Calls, Retain(c) PROVE Keeps'
<1>1. Framed(c) /\ facts[c] \in Nat
  BY RetainFramed DEF BaseInv, TypeOK
<1>2. "hindsight" \in Keys \ Files /\ "letta" \in Keys \ Files
      /\ "postgres" \in Keys \ Files /\ "redis" \in Keys \ Files /\ Files \subseteq Keys
  BY DEF Keys, Files
<1>3. CASE Begin(c) \/ PassOver(c) \/ End(c) \/ RefuseBacklog(c)
  <2>1. (UNCHANGED said \/ Says(c, "hindsight", "refused")) /\ Grows(c)
    BY <1>1, <1>3 DEF Begin, PassOver, End, RefuseBacklog, stores, Grows
  <2> QED
    BY <1>1, <1>2, <2>1, KeepsStep
<1>4. CASE PostBridge(c) \/ ExecBridge(c) \/ RetainDirect(c)
  <2>1. PICK o : /\ Retained(c, o) /\ (UNCHANGED said \/ Says(c, "hindsight", o))
                 /\ UNCHANGED <<letta, rows>>
    BY <1>4 DEF PostBridge, ExecBridge, RetainDirect
  <2>2. facts'[c] >= facts[c] /\ (o = "ok" => facts'[c] > 0)
    BY <2>1, FactsGrow
  <2>3. Grows(c) /\ (o = "ok" => Stored(c, "hindsight")')
    BY <1>2, <2>1, <2>2 DEF Grows, Stored
  <2> QED
    BY <1>1, <1>2, <2>1, <2>3, KeepsStep
<1>5. CASE RetainLetta(c)
  <2>1. PICK o : /\ Says(c, "letta", o) /\ UNCHANGED <<facts, rows>>
                 /\ letta \subseteq letta' /\ (o = "ok" => c \in letta')
    BY <1>5 DEF RetainLetta
  <2>2. Grows(c) /\ (o = "ok" => Stored(c, "letta")')
    BY <1>1, <1>2, <2>1 DEF Grows, Stored
  <2> QED
    BY <1>1, <1>2, <2>1, <2>2, KeepsStep
<1>6. CASE RetainStructured(c)
  <2>1. PICK o : /\ Says(c, "postgres", o) /\ UNCHANGED <<facts, letta>>
                 /\ rows \subseteq rows' /\ (o = "ok" => c \in rows')
    BY <1>6 DEF RetainStructured
  <2>2. Grows(c) /\ (o = "ok" => Stored(c, "postgres")')
    BY <1>1, <1>2, <2>1 DEF Grows, Stored
  <2> QED
    BY <1>1, <1>2, <2>1, <2>2, KeepsStep
<1>7. CASE AppendOperational(c) \/ AppendGuardian(c)
  <2>1. PICK f \in Files, o \in {"ok", "down", "torn"} :
          Says(c, f, o) /\ AppendTo(f, c, o) /\ UNCHANGED <<facts, letta, rows>>
    BY <1>7 DEF AppendOperational, AppendGuardian, Files
  <2>2. o = "ok" => Written(f, c)'
    BY <2>1, AppendedLines DEF AppendTo, BaseInv
  <2>3. Grows(c) /\ (o = "ok" => Stored(c, f)')
    BY <1>1, <1>2, <2>1, <2>2 DEF Grows, Stored
  <2> QED
    BY <1>1, <1>2, <2>1, <2>3, KeepsStep
<1>8. CASE Push(c) \/ Trim(c) \/ SetExpiry(c)
  <2>1. PICK o : /\ UNCHANGED said \/ Says(c, "redis", o)
                 /\ UNCHANGED <<facts, letta, rows>>
    BY <1>8 DEF Push, Trim, SetExpiry, RedisStep
  <2>2. Grows(c) /\ Stored(c, "redis")'
    BY <1>1, <1>2, <2>1 DEF Grows, Stored
  <2> QED
    BY <1>1, <1>2, <2>1, <2>2, KeepsStep
<1> QED
  BY <1>3, <1>4, <1>5, <1>6, <1>7, <1>8 DEF Retain

LEMMA KeepsNext == ASSUME BaseInv, Keeps, [Next]_vars PROVE Keeps'
<1>1. ASSUME UNCHANGED <<said, facts, letta, rows>>,
             \A g \in Files, d \in Calls : Written(g, d) => Written(g, d)'
      PROVE  Keeps'
  BY <1>1 DEF Keeps, Stored
<1> QED
  BY <1>1, RetainKeeps, OtherStep DEF Next

\* A retain that answers yes has stored what it was given (router.py:94).
THEOREM YesStays == Spec => []YesIsKept
<1>1. Init => Keeps
  BY DEF Init, Keeps, Unsaid
<1>2. BaseInv /\ Keeps /\ [Next]_vars => (BaseInv /\ Keeps)'
  BY BaseStep, KeepsNext
<1> QED
  BY <1>1, <1>2, BaseInit, KeepsIsEnough, PTL DEF Spec

-------------------------------------------------------------------------------
\* The backlog

\* No caller passes a payload whose only text is backlog in a field that the
\* check does not look at: with one, NeverBacklog is violated.
Summed == \A p \in Processes : \A i \in Inputs[p] : i[2] # "unsummed"

\* What has gone to Hindsight, or is on its way, was looked at.
Looked ==
    \A c \in Calls :
        /\ at[c] = "idle" => facts[c] = 0
        /\ facts[c] > 0 \/ at[c] = "unanswered" => payload[c] # "backlog"
        /\ payload[c] # "unsummed"

LEMMA LookedIsEnough == Looked => NeverBacklog
BY DEF Looked, NeverBacklog, KeptText

LEMMA LookedStep ==
    ASSUME BaseInv, Looked, Summed, NEW c \in Calls, Retain(c)
    PROVE  Looked'
<1>1. Framed(c) /\ TypeOK /\ facts[c] \in Nat
  BY RetainFramed DEF BaseInv, TypeOK
<1> SUFFICES /\ at'[c] = "idle" => facts'[c] = 0
             /\ facts'[c] > 0 \/ at'[c] = "unanswered" => payload'[c] # "backlog"
             /\ payload'[c] # "unsummed"
  BY <1>1 DEF Looked, Framed
<1>2. CASE Begin(c)
  <2>1. PICK i \in Inputs[Home[c]] :
          /\ payload' = [payload EXCEPT ![c] = i[2]] /\ at' = [at EXCEPT ![c] = "next"]
          /\ at[c] = "idle" /\ facts' = facts
    BY <1>2 DEF Begin, stores
  <2>2. payload'[c] # "unsummed" /\ at'[c] = "next" /\ facts'[c] = 0
    BY <1>1, <2>1, CallsAreCalls DEF Summed, TypeOK, Looked
  <2> QED
    BY <2>2
<1>3. CASE PostBridge(c) \/ ExecBridge(c) \/ RetainDirect(c)
  <2>1. payload[c] # "backlog" /\ payload' = payload
    BY <1>3 DEF PostBridge, ExecBridge, RetainDirect, HasBacklog, Looked
  <2>2. at'[c] \in {"next", "unanswered"}
    BY <1>1, <1>3 DEF PostBridge, ExecBridge, RetainDirect, NextTarget, GoTo, TypeOK
  <2> QED
    BY <2>1, <2>2 DEF Looked
<1>4. CASE PassOver(c) \/ End(c) \/ RefuseBacklog(c)
  <2>1. payload' = payload /\ facts' = facts /\ at'[c] \in {"next", "done"}
    BY <1>1, <1>4 DEF PassOver, End, RefuseBacklog, NextTarget, GoTo, TypeOK, stores
  <2> QED
    BY <2>1 DEF Looked
<1>5. CASE \/ RetainLetta(c) \/ AppendOperational(c) \/ RetainStructured(c)
           \/ AppendGuardian(c) \/ Push(c) \/ Trim(c) \/ SetExpiry(c)
  <2>1. payload' = payload /\ facts' = facts
    BY <1>5 DEF RetainLetta, AppendOperational, RetainStructured, AppendGuardian, Push, Trim,
                SetExpiry
  <2>2. at'[c] \in {"next", "store", "trim", "expire"}
    <3>1. NextTarget(c) \/ \E s \in {"store", "trim", "expire"} : GoTo(c, s)
      BY <1>5 DEF RetainLetta, AppendOperational, RetainStructured, AppendGuardian, Push, Trim,
                  SetExpiry, RedisStep
    <3> QED
      BY <1>1, <3>1 DEF NextTarget, GoTo, TypeOK
  <2> QED
    BY <2>1, <2>2 DEF Looked
<1> QED
  BY <1>2, <1>3, <1>4, <1>5 DEF Retain

LEMMA LookedNext == ASSUME BaseInv, Looked, Summed, [Next]_vars PROVE Looked'
<1>1. ASSUME UNCHANGED <<facts, payload>>,
             \A d \in Calls : at'[d] = at[d] \/ (at'[d] = "dead" /\ at[d] # "idle")
      PROVE  Looked'
  BY <1>1 DEF Looked
<1> QED
  BY <1>1, LookedStep, OtherStep DEF Next

\* No fleet backlog is retained in Hindsight, whichever way the call takes and
\* whatever is lost on it (hindsight.py:226, write_targets.py:102).
THEOREM BacklogStaysOut == ASSUME Summed PROVE Spec => []NeverBacklog
<1>1. Init => Looked
  BY DEF Init, Looked
<1>2. BaseInv /\ Looked /\ [Next]_vars => (BaseInv /\ Looked)'
  BY BaseStep, LookedNext
<1> QED
  BY <1>1, <1>2, BaseInit, LookedIsEnough, PTL DEF Spec

-------------------------------------------------------------------------------
\* The window of turns

\* The calls that may have left a turn too many, and those that may have left
\* the list without an end.
Lates == {c \in Calls : at[c] = "trim" \/ Cut(c)}
Waits(c) == at[c] \in {"trim", "expire"} \/ Cut(c)

\* Only a turn goes to Redis, and it has no answer before its last command.
Redis(c) == \E i \in DOMAIN todo[c] : todo[c][i] = "redis"
Shape(c) ==
    /\ at[c] = "idle" => said[c]["redis"] = "nothing"
    /\ Redis(c) /\ at[c] # "idle" =>
         event[c] = "turn" /\ todo[c] = <<"redis">> /\ said[c]["redis"] = "nothing"
    /\ at[c] \in {"trim", "expire"} => Redis(c)
Shaped == \A c \in Calls : Shape(c)

LEMMA TailShape ==
    ASSUME NEW s \in Seq(Keys), s # <<>>
    PROVE  /\ (\E i \in DOMAIN Tail(s) : Tail(s)[i] = "redis") => \E i \in DOMAIN s : s[i] = "redis"
           /\ s = <<"redis">> => ~\E i \in DOMAIN Tail(s) : Tail(s)[i] = "redis"
           /\ Head(s) = "redis" => \E i \in DOMAIN s : s[i] = "redis"
<1> DEFINE t == Tail(s)
<1>1. /\ t \in Seq(Keys) /\ Len(t) = Len(s) - 1 /\ Len(s) \in Nat
      /\ \A i \in 1 .. Len(t) : t[i] = s[i + 1]
  BY HeadTailProperties, LenProperties
<1>2. DOMAIN t = 1 .. Len(t) /\ DOMAIN s = 1 .. Len(s) /\ Len(s) # 0
  BY <1>1, LenProperties, EmptySeq
<1>3. s = <<"redis">> => Len(s) = 1
  OBVIOUS
<1>4. Head(s) = s[1]
  BY <1>2
<1> HIDE DEF t
<1> QED
  BY <1>1, <1>2, <1>3, <1>4 DEF t

\* Whatever is not Redis's leaves its answer and the window alone.
LEMMA ShapeStep ==
    ASSUME BaseInv, Shaped, NEW c \in Calls, Retain(c)
    PROVE  Shaped'
<1>1. /\ Framed(c) /\ TypeOK /\ todo[c] \in Seq(Keys)
      /\ said[c] \in [Keys -> {"nothing", "yes", "no"}] /\ "redis" \in Keys
  BY RetainFramed DEF BaseInv, TypeOK, Keys
<1> SUFFICES Shape(c)'
  BY <1>1 DEF Shaped, Shape, Redis, Framed
<1>2. CASE Begin(c)
  <2>1. PICK i \in Inputs[Home[c]] :
          /\ event' = [event EXCEPT ![c] = i[1]] /\ todo' = [todo EXCEPT ![c] = WriteMap[i[1]]]
          /\ at[c] = "idle" /\ at' = [at EXCEPT ![c] = "next"] /\ said' = said
    BY <1>2 DEF Begin
  <2>2. i[1] \in Events
    BY CallsAreCalls, InputsAreInputs
  <2>3. /\ event'[c] = i[1] /\ todo'[c] = WriteMap[i[1]] /\ at'[c] = "next"
        /\ said'[c]["redis"] = "nothing"
    BY <1>1, <2>1 DEF TypeOK, Shaped, Shape
  <2> QED
    BY <2>2, <2>3, Targets DEF Shape, Redis
<1>3. ASSUME event' = event, at[c] # "idle", todo[c] # <<>>, NextTarget(c),
             said'[c]["redis"] = said[c]["redis"] \/ Redis(c)
      PROVE  Shape(c)'
  <2>1. todo'[c] = Tail(todo[c]) /\ at'[c] = "next" /\ event'[c] = event[c]
    BY <1>1, <1>3 DEF NextTarget, TypeOK
  <2>2. Redis(c) => todo[c] = <<"redis">>
    BY <1>3 DEF Shaped, Shape
  <2>3. ~Redis(c)'
    BY <1>1, <1>3, <2>1, <2>2, TailShape DEF Redis
  <2> QED
    BY <2>1, <2>3 DEF Shape
<1>4. ASSUME event' = event, at[c] # "idle", NEW s, s # "idle", GoTo(c, s),
             said'[c]["redis"] = said[c]["redis"], s \in {"trim", "expire"} => Redis(c)
      PROVE  Shape(c)'
  BY <1>1, <1>4 DEF GoTo, TypeOK, Shaped, Shape, Redis
<1>5. \A k \in Keys \ {"redis"} : \A o : Says(c, k, o) => said'[c]["redis"] = said[c]["redis"]
  BY <1>1 DEF Says, TypeOK
<1>6. CASE PassOver(c) \/ End(c) \/ RefuseBacklog(c)
  <2>1. /\ event' = event /\ at[c] # "idle"
        /\ (todo[c] # <<>> /\ NextTarget(c)) \/ GoTo(c, "done")
        /\ UNCHANGED said \/ Says(c, "hindsight", "refused")
    BY <1>6 DEF PassOver, End, RefuseBacklog, Turn
  <2> QED
    BY <1>3, <1>4, <1>5, <2>1 DEF Keys
<1>7. CASE \/ PostBridge(c) \/ ExecBridge(c) \/ RetainDirect(c) \/ RetainLetta(c)
           \/ AppendOperational(c) \/ RetainStructured(c) \/ AppendGuardian(c)
  <2>1. /\ event' = event /\ at[c] # "idle" /\ todo[c] # <<>>
        /\ NextTarget(c) \/ GoTo(c, "unanswered") \/ GoTo(c, "store")
    BY <1>7 DEF PostBridge, ExecBridge, RetainDirect, RetainLetta, AppendOperational,
                RetainStructured, AppendGuardian, Turn, BaseInv, Busy
  <2>2. UNCHANGED said \/ \E k \in Keys \ {"redis"} : \E o : Says(c, k, o)
    BY <1>7 DEF PostBridge, ExecBridge, RetainDirect, RetainLetta, AppendOperational,
                RetainStructured, AppendGuardian, Keys, Files
  <2> QED
    BY <1>3, <1>4, <1>5, <2>1, <2>2
<1>8. CASE Push(c) \/ Trim(c) \/ SetExpiry(c)
  <2>1. /\ event' = event /\ at[c] # "idle" /\ todo[c] # <<>>
        /\ NextTarget(c) \/ (UNCHANGED said /\ \E s \in {"trim", "expire"} : GoTo(c, s))
    BY <1>8 DEF Push, Trim, SetExpiry, RedisStep, Turn, BaseInv, Busy
  <2>2. Redis(c)
    <3>1. at[c] \in {"trim", "expire"} \/ Head(todo[c]) = "redis"
      BY <1>8 DEF Push, Trim, SetExpiry, Turn
    <3> QED
      BY <1>1, <2>1, <3>1, TailShape DEF Shaped, Shape, Redis
  <2> QED
    BY <1>3, <1>4, <2>1, <2>2
<1> QED
  BY <1>2, <1>6, <1>7, <1>8 DEF Retain

LEMMA ShapeNext == ASSUME BaseInv, Shaped, [Next]_vars PROVE Shaped'
<1>1. ASSUME UNCHANGED <<event, todo, said>>,
             \A d \in Calls : at'[d] = at[d] \/ (at'[d] = "dead" /\ at[d] # "idle")
      PROVE  Shaped'
  BY <1>1 DEF Shaped, Shape, Redis
<1> QED
  BY <1>1, ShapeStep, OtherStep DEF Next

\* One more turn at most, and then one more call that may have left it.
LEMMA LatesGrow ==
    ASSUME IsFiniteSet(Calls), Lates \subseteq Lates', turns \in Seq(Calls), turns' \in Seq(Calls),
           Len(turns) <= MaxTurns + Cardinality(Lates),
           \/ Len(turns') <= Len(turns) \/ Len(turns') <= MaxTurns
           \/ /\ Len(turns') = Len(turns) + 1
              /\ \E c \in Calls : c \notin Lates /\ c \in Lates'
    PROVE  Len(turns') <= MaxTurns + Cardinality(Lates)'
<1> DEFINE A == Lates  B == Lates'
<1>1. A \in SUBSET B /\ B \in SUBSET Calls
  BY DEF Lates
<1>2. IsFiniteSet(A) /\ IsFiniteSet(B) /\ Cardinality(A) \in Nat /\ Cardinality(B) \in Nat
  BY <1>1, FS_Subset, FS_CardinalityType
<1>3. Cardinality(A) <= Cardinality(B)
  BY <1>1, <1>2, FS_Subset
<1>4. ASSUME NEW c \in Calls, c \notin A, c \in B PROVE Cardinality(A) + 1 <= Cardinality(B)
  <2>1. Cardinality(A \cup {c}) = Cardinality(A) + 1
    BY <1>2, <1>4, FS_AddElement
  <2>2. A \cup {c} \in SUBSET B
    BY <1>1, <1>4
  <2> QED
    BY <1>2, <2>1, <2>2, FS_Subset
<1>5. Len(turns) \in Nat /\ Len(turns') \in Nat /\ MaxTurns \in Nat
  BY LenProperties, BoundsAreNat
<1>6. Cardinality(Lates)' = Cardinality(B)
  OBVIOUS
<1> HIDE DEF A, B
<1>7. Len(turns) <= MaxTurns + Cardinality(A)
  BY DEF A
<1>8. (\E c \in Calls : c \notin A /\ c \in B) => Cardinality(A) + 1 <= Cardinality(B)
  BY <1>4
<1>9. (\E c \in Calls : c \notin Lates /\ c \in Lates') => \E c \in Calls : c \notin A /\ c \in B
  BY DEF A, B
<1> QED
  BY <1>2, <1>3, <1>5, <1>6, <1>7, <1>8, <1>9

\* What the window's steps do to the call they are of.
Ends == turns # <<>> => expires \/ \E c \in Calls : Waits(c)
Window == Len(turns) <= MaxTurns + Cardinality(Lates) /\ Ends

LEMMA WindowIsKept == Window => WindowKept
BY DEF Window, WindowKept, Ends, Lates, Waits

LEMMA WindowStep ==
    ASSUME BaseInv, Shaped, Window, IsFiniteSet(Calls), NEW c \in Calls, Retain(c)
    PROVE  Window'
<1>1. /\ Framed(c) /\ TypeOK /\ TypeOK' /\ todo[c] \in Seq(Keys) /\ Shape(c)
      /\ turns \in Seq(Calls) /\ turns' \in Seq(Calls) /\ MaxTurns \in Nat /\ Len(turns) \in Nat
  <2>1. Framed(c) /\ TypeOK /\ TypeOK' /\ Shape(c) /\ MaxTurns \in Nat
    BY RetainFramed, BoundsAreNat DEF BaseInv, Framed, Shaped
  <2> QED
    BY <2>1, LenProperties DEF TypeOK
<1>2. \A d \in Calls \ {c} : /\ (at[d] = "trim" \/ Cut(d)) = (at[d] = "trim" \/ Cut(d))'
                             /\ Waits(d) = Waits(d)'
  BY <1>1 DEF Framed, Cut, Waits
<1>3. ASSUME Cut(c) => Cut(c)', at[c] \notin {"trim", "expire"}, UNCHANGED <<turns, expires>>
      PROVE  Window'
  <2>1. Lates \subseteq Lates'
    BY <1>2, <1>3 DEF Lates
  <2>2. Ends'
    BY <1>2, <1>3 DEF Window, Ends, Waits
  <2> QED
    BY <1>1, <1>3, <2>1, <2>2, LatesGrow DEF Window
<1>4. CASE Begin(c)
  <2>1. ~Cut(c) /\ at[c] = "idle" /\ UNCHANGED <<turns, expires>>
    BY <1>1, <1>4 DEF Begin, Cut, Shape, stores
  <2> QED
    BY <1>3, <2>1
<1>5. CASE \/ PassOver(c) \/ End(c) \/ RefuseBacklog(c)
           \/ PostBridge(c) \/ ExecBridge(c) \/ RetainDirect(c) \/ RetainLetta(c)
           \/ AppendOperational(c) \/ RetainStructured(c) \/ AppendGuardian(c)
  <2>1. /\ at[c] \in {"next", "unanswered", "store"} /\ UNCHANGED <<turns, expires, event>>
        /\ UNCHANGED said \/ \E k \in Keys \ {"redis"} : \E o : Says(c, k, o)
    BY <1>5 DEF PassOver, End, RefuseBacklog, PostBridge, ExecBridge, RetainDirect, RetainLetta,
       AppendOperational, RetainStructured, AppendGuardian, Turn, stores, Keys, Files
  <2>2. said'[c]["redis"] = said[c]["redis"]
    BY <1>1, <2>1 DEF Says, TypeOK, Keys
  <2> QED
    BY <1>3, <2>1, <2>2 DEF Cut
<1>6. ASSUME Push(c) \/ Trim(c) \/ SetExpiry(c)
      PROVE  /\ event'[c] = "turn" /\ ~Cut(c)
             /\ \A o : o # "ok" /\ Says(c, "redis", o) => Cut(c)'
  <2>1. Redis(c) /\ at[c] # "idle" /\ at[c] # "dead" /\ event' = event
    <3>1. /\ at[c] \in {"trim", "expire"} \/ (todo[c] # <<>> /\ Head(todo[c]) = "redis")
          /\ at[c] \in {"next", "trim", "expire"} /\ event' = event
      BY <1>6 DEF Push, Trim, SetExpiry, Turn
    <3> QED
      BY <1>1, <3>1, TailShape DEF Shape, Redis
  <2>2. event[c] = "turn" /\ said[c]["redis"] = "nothing"
    BY <1>1, <2>1 DEF Shape
  <2> QED
    BY <1>1, <2>1, <2>2 DEF Cut, Says, TypeOK, Keys
<1>7. CASE Push(c)
  <2>1. PICK o : /\ RedisStep(c, o, "trim") /\ at[c] = "next" /\ expires' = expires
                 /\ turns' = turns \/ turns' = <<c>> \o turns
    BY <1>7 DEF Push, Turn
  <2>2. at'[c] = "trim" \/ Cut(c)'
    BY <1>1, <1>6, <1>7, <2>1 DEF RedisStep, GoTo, TypeOK
  <2>3. Lates \subseteq Lates' /\ c \notin Lates /\ c \in Lates'
    BY <1>2, <1>6, <1>7, <2>1, <2>2 DEF Lates
  <2>4. Len(turns') = Len(turns) \/ Len(turns') = Len(turns) + 1
    BY <1>1, <2>1
  <2>5. Ends'
    BY <2>2 DEF Ends, Waits
  <2> QED
    BY <1>1, <2>3, <2>4, <2>5, LatesGrow DEF Window
<1>8. CASE Trim(c)
  <2>1. PICK o : /\ RedisStep(c, o, "expire") /\ at[c] = "trim" /\ expires' = expires
                 /\ turns' = IF o = "down" \/ Len(turns) <= MaxTurns THEN turns
                            ELSE SubSeq(turns, 1, MaxTurns)
    BY <1>8 DEF Trim
  <2>2. at'[c] = "expire" \/ Cut(c)'
    BY <1>1, <1>6, <1>8, <2>1 DEF RedisStep, GoTo, TypeOK
  <2>3. Ends'
    BY <2>2 DEF Ends, Waits
  <2>4. CASE o = "down"
    <3>1. Cut(c)' /\ turns' = turns
      BY <1>6, <1>8, <2>1, <2>4 DEF RedisStep
    <3>2. Lates \subseteq Lates'
      BY <1>2, <3>1 DEF Lates
    <3> QED
      BY <1>1, <2>3, <3>1, <3>2, LatesGrow DEF Window
  <2>5. CASE o # "down"
    <3>1. Len(turns') <= MaxTurns
      <4>1. Len(turns) > MaxTurns => Len(SubSeq(turns, 1, MaxTurns)) = MaxTurns
        BY <1>1
      <4> QED
        BY <1>1, <2>1, <2>5, <4>1
    <3>2. Lates' \in SUBSET Calls
      BY DEF Lates
    <3>3. Cardinality(Lates') \in Nat
      BY <3>2, FS_Subset, FS_CardinalityType
    <3>4. Len(turns') \in Nat
      BY <1>1
    <3> QED
      BY <1>1, <2>3, <3>1, <3>3, <3>4 DEF Window
  <2> QED
    BY <2>4, <2>5
<1>9. CASE SetExpiry(c)
  <2>1. PICK o : /\ RedisStep(c, o, "done") /\ at[c] = "expire" /\ turns' = turns
                 /\ expires' = (expires \/ (o # "down" /\ turns # <<>>))
    BY <1>9 DEF SetExpiry
  <2>2. Lates \subseteq Lates'
    BY <1>2, <1>6, <1>9, <2>1 DEF Lates
  <2>3. Ends'
    <3>1. o = "ok" => (turns # <<>> => expires')
      BY <2>1
    <3>2. o # "ok" => Cut(c)'
      BY <1>6, <1>9, <2>1 DEF RedisStep
    <3> QED
      BY <2>1, <3>1, <3>2 DEF Ends, Waits
  <2> QED
    BY <1>1, <2>1, <2>2, <2>3, LatesGrow DEF Window
<1> QED
  BY <1>4, <1>5, <1>7, <1>8, <1>9 DEF Retain

LEMMA WindowNext ==
    ASSUME BaseInv, Shaped, Window, IsFiniteSet(Calls), [Next]_vars PROVE Window'
<1>1. CASE \E c \in Calls : Retain(c)
  BY <1>1, WindowStep
<1>2. CASE \/ \E r \in Recalls : Recall(r)
           \/ \E p \in Processes : Die(p)
           \/ WindowExpires
           \/ UNCHANGED vars
  <2>1. /\ BaseInv' /\ UNCHANGED <<event, said, todo>>
        /\ \A d \in Calls : at'[d] = at[d] \/ (at'[d] = "dead" /\ at[d] # "idle")
    BY <1>2, OtherStep
  <2>2. \A d \in Calls : at[d] \in {"trim", "expire"} => event[d] = "turn"
    BY DEF Shaped, Shape
  <2>3. \A d \in Calls : /\ Waits(d) => Waits(d)'
                         /\ at[d] = "trim" \/ Cut(d) => (at[d] = "trim" \/ Cut(d))'
    BY <2>1, <2>2 DEF Waits, Cut
  <2>4. Lates \subseteq Lates'
    BY <2>3 DEF Lates
  <2>5. UNCHANGED <<turns, expires>> \/ turns' = <<>>
    BY <1>2 DEF Recall, Open, SearchLetta, ReadStore, Die, WindowExpires, vars, stores
  <2>6. Ends'
    BY <2>3, <2>5 DEF Window, Ends
  <2>7. Len(turns') <= Len(turns)
    BY <2>5, LenProperties, EmptySeq DEF BaseInv, TypeOK
  <2> QED
    BY <2>1, <2>4, <2>6, <2>7, LatesGrow DEF Window, BaseInv, TypeOK
<1> QED
  BY <1>1, <1>2 DEF Next

\* The window is as long as it may be, and ends, but for the retains that were
\* cut short on the way (redis_store.py:81).
THEOREM WindowStays == ASSUME IsFiniteSet(Calls) PROVE Spec => []WindowKept
<1>1. Init => Shaped /\ Window
  <2> SUFFICES ASSUME Init PROVE Shaped /\ Window
    OBVIOUS
  <2>1. \A c \in Calls : said[c]["redis"] = "nothing" /\ at[c] = "idle" /\ todo[c] = <<>>
    BY DEF Init, Unsaid, Keys
  <2>2. Lates = {}
    BY <2>1 DEF Lates, Cut
  <2>3. Cardinality(Lates) = 0 /\ Len(turns) = 0
    BY <2>2, FS_EmptySet DEF Init
  <2> QED
    BY <2>1, <2>3, BoundsAreNat DEF Shaped, Shape, Redis, Window, Ends, Init
<1>2. BaseInv /\ Shaped /\ Window /\ [Next]_vars => (BaseInv /\ Shaped /\ Window)'
  BY BaseStep, ShapeNext, WindowNext
<1> QED
  BY <1>1, <1>2, BaseInit, WindowIsKept, PTL DEF Spec

-------------------------------------------------------------------------------
\* What a call may still be answered

InTodo(c, k) == \E i \in DOMAIN todo[c] : todo[c][i] = k
Live(c) == at[c] \notin {"idle", "dead"}

\* No target is answered twice: what is yet to be written has no answer, but
\* for Letta's between its answer and the local store's.  What the local store
\* said yes to was offered to Letta first, where Letta is enabled.
Told(c) ==
    /\ at[c] = "idle" => \A k \in Keys : said[c][k] = "nothing"
    /\ \A i, j \in DOMAIN todo[c] : todo[c][i] = todo[c][j] => i = j
    /\ Live(c) =>
         /\ InTodo(c, "hindsight") => said[c]["hindsight"] = "nothing"
         /\ InTodo(c, "letta") /\ at[c] # "store" => said[c]["letta"] = "nothing"
    /\ at[c] = "unanswered" => Head(todo[c]) = "hindsight" /\ ~HasBacklog(payload[c])
    /\ at[c] = "store" => Head(todo[c]) = "letta" /\ said[c]["letta"] # "nothing"
    /\ said[c]["operational_store"] = "yes" =>
         env.store /\ (env.letta => said[c]["letta"] # "nothing")
AllTold == \A c \in Calls : Told(c)

LEMMA TodoTail ==
    ASSUME NEW s \in Seq(Keys), s # <<>>, \A i, j \in DOMAIN s : s[i] = s[j] => i = j
    PROVE  /\ \A i, j \in DOMAIN Tail(s) : Tail(s)[i] = Tail(s)[j] => i = j
           /\ \A i \in DOMAIN Tail(s) :
                 Tail(s)[i] # Head(s) /\ \E j \in DOMAIN s : s[j] = Tail(s)[i]
           /\ \E i \in DOMAIN s : s[i] = Head(s)
<1> DEFINE t == Tail(s)
<1>1. /\ t \in Seq(Keys) /\ Len(t) = Len(s) - 1 /\ Len(s) \in Nat
      /\ \A i \in 1 .. Len(t) : t[i] = s[i + 1]
  BY HeadTailProperties, LenProperties
<1>2. DOMAIN t = 1 .. Len(t) /\ DOMAIN s = 1 .. Len(s) /\ Len(s) # 0 /\ Len(t) \in Nat
  BY <1>1, LenProperties, EmptySeq
<1>3. Head(s) = s[1] /\ 1 \in DOMAIN s
  BY <1>1, <1>2
<1>4. \A i \in DOMAIN t : i + 1 \in DOMAIN s /\ i + 1 # 1 /\ t[i] = s[i + 1]
  BY <1>1, <1>2
<1> HIDE DEF t
<1>5. \A i, j \in DOMAIN t : t[i] = t[j] => i = j
  <2> SUFFICES ASSUME NEW i \in DOMAIN t, NEW j \in DOMAIN t, t[i] = t[j] PROVE i = j
    OBVIOUS
  <2>1. i + 1 = j + 1
    BY <1>4
  <2> QED
    BY <1>2, <2>1
<1>6. \A i \in DOMAIN t : t[i] # Head(s) /\ \E j \in DOMAIN s : s[j] = t[i]
  BY <1>3, <1>4
<1> QED
  BY <1>3, <1>5, <1>6 DEF t

LEMMA TargetsDiffer ==
    ASSUME NEW e \in Events
    PROVE  \A i, j \in DOMAIN WriteMap[e] : WriteMap[e][i] = WriteMap[e][j] => i = j
<1>1. e \in {"fact", "belief", "lesson", "preference", "record", "turn", "error"}
  BY DEF Events, WriteMap
<1>2. (\E a : WriteMap[e] = <<a>>) \/ (\E a, b : a # b /\ WriteMap[e] = <<a, b>>)
  BY <1>1 DEF WriteMap
<1>3. \A a : \A i, j \in DOMAIN <<a>> : i = j
  OBVIOUS
<1>4. \A a, b : a # b => \A i, j \in DOMAIN <<a, b>> : <<a, b>>[i] = <<a, b>>[j] => i = j
  OBVIOUS
<1> QED
  BY <1>2, <1>3, <1>4

\* A step of a retain that has begun passes a target over, answers one and
\* turns to the next, goes on with the same target, or answers for Letta and
\* turns to the local store.
PassedOver(c) == todo[c] # <<>> /\ NextTarget(c) /\ UNCHANGED <<said, failures>>

Answered(c, k, o) ==
    /\ todo[c] # <<>> /\ NextTarget(c) /\ Says(c, k, o)
    /\ k = Head(todo[c]) \/ k \notin {"hindsight", "letta"}
    /\ k # "letta"
    /\ IF k = "hindsight" /\ ~HasBacklog(payload[c]) THEN Counted(c, o)
       ELSE UNCHANGED failures
    /\ k = "operational_store" =>
         /\ Head(todo[c]) = "letta" /\ (env.letta => at[c] = "store")
         /\ o = "ok" => env.store

GoesOn(c, s) ==
    /\ GoTo(c, s) /\ UNCHANGED <<said, failures>>
    /\ at[c] # "store"
    /\ s = "unanswered" => Head(todo[c]) = "hindsight" /\ ~HasBacklog(payload[c])

ToStore(c, o) ==
    /\ at[c] = "next" /\ todo[c] # <<>> /\ Head(todo[c]) = "letta"
    /\ GoTo(c, "store") /\ Says(c, "letta", o) /\ Counted(c, o)

LEMMA RetainShape ==
    ASSUME BaseInv, NEW c \in Calls, Told(c), Retain(c), ~Begin(c)
    PROVE  /\ Live(c) /\ at[c] # "done" /\ UNCHANGED <<env, event, payload, recallVars, died>>
           /\ \/ PassedOver(c)
              \/ \E k \in Keys, o \in {"ok", "refused", "lost", "down", "torn"} : Answered(c, k, o)
              \/ \E s \in {"unanswered", "trim", "expire", "done"} : GoesOn(c, s)
              \/ \E o \in {"ok", "lost", "down"} : ToStore(c, o)
<1> DEFINE Out == \/ PassedOver(c)
                  \/ \E k \in Keys, o \in {"ok", "refused", "lost", "down", "torn"} : Answered(c, k, o)
                  \/ \E s \in {"unanswered", "trim", "expire", "done"} : GoesOn(c, s)
                  \/ \E o \in {"ok", "lost", "down"} : ToStore(c, o)
<1>0. /\ "hindsight" \in Keys /\ "letta" \in Keys /\ "postgres" \in Keys /\ "redis" \in Keys
      /\ "operational_store" \in Keys /\ "guardian_log" \in Keys
  BY DEF Keys, Files
<1>1. Live(c) /\ at[c] # "done" /\ UNCHANGED <<env, event, payload, recallVars, died>>
  BY DEF Retain, PassOver, End, RefuseBacklog, PostBridge, ExecBridge, RetainDirect, RetainLetta,
         AppendOperational, RetainStructured, AppendGuardian, Push, Trim, SetExpiry, Turn, Live
<1> SUFFICES Out
  BY <1>1
<1>2. at[c] \in {"unanswered", "store", "trim", "expire"} => todo[c] # <<>>
  BY DEF BaseInv, Busy
<1>3. CASE PassOver(c)
  BY <1>3 DEF PassOver, PassedOver, stores
<1>4. CASE End(c)
  BY <1>4 DEF End, GoesOn, stores
<1>5. CASE RefuseBacklog(c)
  <2>1. Answered(c, "hindsight", "refused")
    BY <1>5 DEF RefuseBacklog, Answered, Turn, stores
  <2> QED
    BY <1>0, <2>1
<1>6. CASE PostBridge(c)
  <2>1. PICK o \in {"ok", "refused", "lost", "down"} :
          /\ Turn(c, "hindsight") /\ ~HasBacklog(payload[c])
          /\ \/ Says(c, "hindsight", o) /\ Counted(c, o) /\ NextTarget(c)
             \/ GoTo(c, "unanswered") /\ UNCHANGED <<said, failures>>
    BY <1>6 DEF PostBridge
  <2>2. Answered(c, "hindsight", o) \/ GoesOn(c, "unanswered")
    BY <2>1 DEF Answered, GoesOn, Turn
  <2> QED
    BY <1>0, <2>2
<1>7. CASE ExecBridge(c) \/ RetainDirect(c)
  <2>1. PICK o \in {"ok", "lost", "down"} :
          /\ at[c] = "unanswered" \/ (Turn(c, "hindsight") /\ ~HasBacklog(payload[c]))
          /\ Says(c, "hindsight", o) /\ Counted(c, o) /\ NextTarget(c)
    BY <1>7 DEF ExecBridge, RetainDirect
  <2>2. Answered(c, "hindsight", o)
    BY <1>2, <2>1 DEF Answered, Turn, Told
  <2> QED
    BY <1>0, <2>2
<1>8. CASE RetainLetta(c)
  BY <1>8 DEF RetainLetta, ToStore, Turn
<1>9. CASE AppendOperational(c)
  <2>1. PICK o \in {"ok", "down", "torn"} :
          /\ at[c] = "store" \/ (Turn(c, "letta") /\ ~env.letta)
          /\ o = "ok" => env.store
          /\ Says(c, "operational_store", o) /\ NextTarget(c) /\ UNCHANGED failures
    BY <1>9 DEF AppendOperational
  <2>2. Answered(c, "operational_store", o)
    BY <1>2, <2>1 DEF Answered, Turn, Told
  <2> QED
    BY <1>0, <2>2
<1>10. CASE RetainStructured(c) \/ AppendGuardian(c)
  <2>1. PICK k \in {"postgres", "guardian_log"}, o \in {"ok", "lost", "down", "torn"} :
          todo[c] # <<>> /\ Says(c, k, o) /\ NextTarget(c) /\ UNCHANGED failures
    BY <1>10 DEF RetainStructured, AppendGuardian, Turn
  <2>2. Answered(c, k, o)
    BY <2>1 DEF Answered
  <2> QED
    BY <1>0, <2>2
<1>11. CASE Push(c) \/ Trim(c) \/ SetExpiry(c)
  <2>1. PICK o \in {"ok", "lost", "down"} :
          /\ todo[c] # <<>> /\ at[c] # "store" /\ UNCHANGED failures
          /\ \/ Says(c, "redis", o) /\ NextTarget(c)
             \/ UNCHANGED said /\ \E s \in {"trim", "expire"} : GoTo(c, s)
    BY <1>2, <1>11 DEF Push, Trim, SetExpiry, RedisStep, Turn
  <2>2. Answered(c, "redis", o) \/ \E s \in {"trim", "expire"} : GoesOn(c, s)
    BY <2>1 DEF Answered, GoesOn
  <2> QED
    BY <1>0, <2>2
<1> QED
  BY <1>1, <1>3, <1>4, <1>5, <1>6, <1>7, <1>8, <1>9, <1>10, <1>11 DEF Retain

LEMMA ToldStep ==
    ASSUME BaseInv, AllTold, NEW c \in Calls, Retain(c)
    PROVE  AllTold'
<1>1. /\ Framed(c) /\ TypeOK /\ todo[c] \in Seq(Keys) /\ Told(c)
      /\ said \in [Calls -> [Keys -> {"nothing", "yes", "no"}]]
      /\ at \in [Calls -> Steps] /\ todo \in [Calls -> Seq(Keys)]
      /\ "hindsight" \in Keys /\ "letta" \in Keys /\ "operational_store" \in Keys
  BY RetainFramed DEF BaseInv, TypeOK, Keys, Files, AllTold
<1>0. env' = env
  BY DEF Retain, Begin, PassOver, End, RefuseBacklog, PostBridge, ExecBridge, RetainDirect,
         RetainLetta, AppendOperational, RetainStructured, AppendGuardian, Push, Trim, SetExpiry
<1> SUFFICES Told(c)'
  BY <1>0, <1>1 DEF AllTold, Told, InTodo, Live, Framed
<1>2. CASE Begin(c)
  <2>1. PICK i \in Inputs[Home[c]] :
          /\ todo' = [todo EXCEPT ![c] = WriteMap[i[1]]]
          /\ at[c] = "idle" /\ at' = [at EXCEPT ![c] = "next"] /\ said' = said
    BY <1>2 DEF Begin
  <2>2. i[1] \in Events
    BY CallsAreCalls, InputsAreInputs
  <2>3. todo'[c] = WriteMap[i[1]] /\ at'[c] = "next" /\ \A k \in Keys : said'[c][k] = "nothing"
    BY <1>1, <2>1 DEF Told
  <2> QED
    BY <1>1, <2>2, <2>3, TargetsDiffer DEF Told
<1>3. CASE ~Begin(c)
  <2>0. Live(c) /\ payload' = payload
    BY <1>1, <1>3, RetainShape
  <2>1. ASSUME todo[c] # <<>>, NextTarget(c)
        PROVE  /\ at'[c] = "next"
               /\ \A i, j \in DOMAIN todo'[c] : todo'[c][i] = todo'[c][j] => i = j
               /\ \A k : InTodo(c, k)' => InTodo(c, k) /\ k # Head(todo[c])
    <3>1. at'[c] = "next" /\ todo'[c] = Tail(todo[c])
      BY <1>1, <2>1 DEF NextTarget
    <3>2. \A i, j \in DOMAIN todo[c] : todo[c][i] = todo[c][j] => i = j
      BY <1>1 DEF Told
    <3> QED
      BY <1>1, <2>1, <3>1, <3>2, TodoTail DEF InTodo
  <2>2. CASE PassedOver(c)
    BY <1>0, <1>1, <2>0, <2>1, <2>2 DEF Told, PassedOver, Live
  <2>3. ASSUME NEW k \in Keys, NEW o, Answered(c, k, o) PROVE Told(c)'
    <3>1. \A j \in Keys : said'[c][j] = IF j = k THEN IF o = "ok" THEN "yes" ELSE "no"
                                       ELSE said[c][j]
      BY <1>1, <2>3 DEF Answered, Says
    <3>2. at'[c] = "next" /\ \A i, j \in DOMAIN todo'[c] : todo'[c][i] = todo'[c][j] => i = j
      BY <2>1, <2>3 DEF Answered
    <3>3. InTodo(c, "hindsight")' => said'[c]["hindsight"] = "nothing"
      BY <1>1, <2>0, <2>1, <2>3, <3>1 DEF Answered, Told
    <3>4. InTodo(c, "letta")' => said'[c]["letta"] = "nothing"
      BY <1>1, <2>0, <2>1, <2>3, <3>1 DEF Answered, Told
    <3>5. said'[c]["operational_store"] = "yes" =>
            env.store /\ (env.letta => said'[c]["letta"] # "nothing")
      BY <1>1, <2>3, <3>1 DEF Answered, Told
    <3> QED
      BY <1>0, <3>2, <3>3, <3>4, <3>5 DEF Told
  <2>4. ASSUME NEW s \in {"unanswered", "trim", "expire", "done"}, GoesOn(c, s) PROVE Told(c)'
    <3>1. at'[c] = s /\ todo'[c] = todo[c] /\ said'[c] = said[c]
      BY <1>1, <2>4 DEF GoesOn, GoTo
    <3> QED
      BY <1>0, <1>1, <2>0, <2>4, <3>1 DEF Told, GoesOn, InTodo, Live
  <2>5. ASSUME NEW o, ToStore(c, o) PROVE Told(c)'
    <3>1. /\ at'[c] = "store" /\ todo'[c] = todo[c]
          /\ \A j \in Keys : said'[c][j] = IF j = "letta" THEN IF o = "ok" THEN "yes" ELSE "no"
                                          ELSE said[c][j]
      BY <1>1, <2>5 DEF ToStore, GoTo, Says
    <3> QED
      BY <1>0, <1>1, <2>0, <2>5, <3>1 DEF Told, ToStore, InTodo, Live
  <2> QED
    BY <1>1, <1>3, <2>2, <2>3, <2>4, <2>5, RetainShape
<1> QED
  BY <1>2, <1>3

LEMMA ToldNext == ASSUME BaseInv, AllTold, [Next]_vars PROVE AllTold'
<1>1. ASSUME UNCHANGED <<env, payload, todo, said>>,
             \A d \in Calls : at'[d] = at[d] \/ (at'[d] = "dead" /\ at[d] # "idle")
      PROVE  AllTold'
  BY <1>1 DEF AllTold, Told, InTodo, Live
<1> QED
  BY <1>1, ToldStep, OtherStep DEF Next

LEMMA ToldInit == Init => AllTold
<1> SUFFICES ASSUME Init, NEW c \in Calls PROVE Told(c)
  BY DEF AllTold
<1>1. /\ at[c] = "idle" /\ todo[c] = <<>> /\ \A k \in Keys : said[c][k] = "nothing"
      /\ "operational_store" \in Keys
  BY DEF Init, Unsaid, Keys, Files
<1> QED
  BY <1>1 DEF Told, Live

-------------------------------------------------------------------------------
\* The failures that are counted

\* The answer of c under key k is a failure of the backend.
Lost(c, k) == said[c][k] = "no" /\ (k = "hindsight" => ~HasBacklog(payload[c]))

LEMMA CountSame ==
    ASSUME FailuresCounted, UNCHANGED <<failures, died>>,
           \A c \in Calls, k \in {"hindsight", "letta"} : Lost(c, k)' <=> Lost(c, k)
    PROVE  FailuresCounted'
<1>1. \A p \in Processes, k \in {"hindsight", "letta"} : Failed(p, k)' = Failed(p, k)
  BY DEF Failed, Lost
<1> QED
  BY <1>1 DEF FailuresCounted

LEMMA CountOne ==
    ASSUME IsFiniteSet(Calls), BaseInv, FailuresCounted, NEW c \in Calls, NEW o,
           NEW k \in {"hindsight", "letta"}, said[c][k] = "nothing",
           k = "hindsight" => ~HasBacklog(payload[c]),
           Says(c, k, o), Counted(c, o), UNCHANGED <<payload, died>>
    PROVE  FailuresCounted'
<1>1. /\ said \in [Calls -> [Keys -> {"nothing", "yes", "no"}]] /\ failures \in [Processes -> Nat]
      /\ k \in Keys /\ "hindsight" \in Keys /\ "letta" \in Keys
      /\ Home[c] \in Processes
  BY CallsAreCalls DEF BaseInv, TypeOK, Keys
<1>2. \A d \in Calls, j \in {"hindsight", "letta"} :
         said'[d][j] = IF d = c /\ j = k THEN IF o = "ok" THEN "yes" ELSE "no" ELSE said[d][j]
  BY <1>1 DEF Says
<1>3. CASE o = "ok"
  <2>1. \A d \in Calls, j \in {"hindsight", "letta"} : Lost(d, j)' <=> Lost(d, j)
    BY <1>2, <1>3 DEF Lost
  <2> QED
    BY <1>3, <2>1, CountSame DEF Counted
<1>4. CASE o # "ok"
  <2>1. \A d \in Calls, j \in {"hindsight", "letta"} :
           Lost(d, j)' <=> Lost(d, j) \/ (d = c /\ j = k)
    BY <1>2, <1>4 DEF Lost
  <2>2. \A p \in Processes, j \in {"hindsight", "letta"} :
           Failed(p, j)' = IF p = Home[c] /\ j = k THEN Failed(p, j) \cup {c} ELSE Failed(p, j)
    BY <2>1 DEF Failed, Lost
  <2>3. \A p \in Processes, j \in {"hindsight", "letta"} :
           IsFiniteSet(Failed(p, j)) /\ Cardinality(Failed(p, j)) \in Nat
    <3>1. \A p \in Processes, j \in {"hindsight", "letta"} : Failed(p, j) \in SUBSET Calls
      BY DEF Failed
    <3> QED
      BY <3>1, FS_Subset, FS_CardinalityType
  <2>4. c \notin Failed(Home[c], k)
    BY DEF Failed
  <2>5. Cardinality(Failed(Home[c], k) \cup {c}) = Cardinality(Failed(Home[c], k)) + 1
    BY <1>1, <2>3, <2>4, FS_AddElement
  <2> SUFFICES ASSUME NEW p \in Processes \ died
               PROVE  failures'[p] = Cardinality(Failed(p, "hindsight")')
                                     + Cardinality(Failed(p, "letta")')
    BY DEF FailuresCounted
  <2>6. /\ failures[p] = Cardinality(Failed(p, "hindsight")) + Cardinality(Failed(p, "letta"))
        /\ failures'[p] = IF p = Home[c] THEN failures[p] + 1 ELSE failures[p]
    BY <1>1, <1>4 DEF FailuresCounted, Counted
  <2>7. CASE p # Home[c]
    BY <2>2, <2>6, <2>7
  <2>8. CASE p = Home[c]
    <3>1. \A j \in {"hindsight", "letta"} :
             Cardinality(Failed(p, j)') = IF j = k THEN Cardinality(Failed(p, j)) + 1
                                          ELSE Cardinality(Failed(p, j))
      BY <2>2, <2>5, <2>8
    <3> DEFINE h == Cardinality(Failed(p, "hindsight"))  l == Cardinality(Failed(p, "letta"))
               hh == Cardinality(Failed(p, "hindsight")')  ll == Cardinality(Failed(p, "letta")')
    <3>2. h \in Nat /\ l \in Nat
      BY <2>3
    <3>3. (hh = h + 1 /\ ll = l) \/ (hh = h /\ ll = l + 1)
      BY <3>1
    <3>4. failures[p] = h + l /\ failures'[p] = failures[p] + 1
      BY <2>6, <2>8
    <3> HIDE DEF h, l, hh, ll
    <3>5. failures'[p] = hh + ll
      BY <3>2, <3>3, <3>4
    <3> QED
      BY <3>5 DEF hh, ll
  <2> QED
    BY <2>7, <2>8
<1> QED
  BY <1>3, <1>4

LEMMA CountStep ==
    ASSUME IsFiniteSet(Calls), BaseInv, AllTold, FailuresCounted, NEW c \in Calls, Retain(c)
    PROVE  FailuresCounted'
<1>1. /\ said \in [Calls -> [Keys -> {"nothing", "yes", "no"}]] /\ Told(c)
      /\ todo[c] \in Seq(Keys) /\ "hindsight" \in Keys /\ "letta" \in Keys
  BY DEF BaseInv, TypeOK, Keys, AllTold
<1>2. CASE Begin(c)
  <2>1. /\ UNCHANGED <<said, failures, died>> /\ at[c] = "idle"
        /\ \A d \in Calls \ {c} : payload'[d] = payload[d]
    BY <1>2 DEF Begin, BaseInv, TypeOK
  <2>2. \A k \in Keys : said[c][k] = "nothing"
    BY <1>1, <2>1 DEF Told
  <2>3. \A d \in Calls, j \in {"hindsight", "letta"} : Lost(d, j)' <=> Lost(d, j)
    BY <1>1, <2>1, <2>2 DEF Lost
  <2> QED
    BY <2>1, <2>3, CountSame
<1>3. CASE ~Begin(c)
  <2>0. Live(c) /\ UNCHANGED <<payload, died>>
    BY <1>1, <1>3, RetainShape
  <2>1. ASSUME UNCHANGED <<said, failures>> PROVE FailuresCounted'
    <3>1. \A d \in Calls, j \in {"hindsight", "letta"} : Lost(d, j)' <=> Lost(d, j)
      BY <2>0, <2>1 DEF Lost
    <3> QED
      BY <2>0, <2>1, <3>1, CountSame
  <2>2. ASSUME todo[c] # <<>> PROVE InTodo(c, Head(todo[c]))
    BY <1>1, <2>2, TodoTail DEF Told, InTodo
  <2>3. ASSUME NEW k \in Keys, NEW o, Answered(c, k, o) PROVE FailuresCounted'
    <3>1. CASE k = "hindsight" /\ ~HasBacklog(payload[c])
      <4>1. said[c]["hindsight"] = "nothing" /\ Says(c, "hindsight", o) /\ Counted(c, o)
        BY <1>1, <2>0, <2>2, <2>3, <3>1 DEF Answered, Told
      <4> QED
        BY <2>0, <3>1, <4>1, CountOne
    <3>2. CASE ~(k = "hindsight" /\ ~HasBacklog(payload[c]))
      <4>1. UNCHANGED failures /\ k # "letta" /\ Says(c, k, o)
        BY <2>3, <3>2 DEF Answered
      <4>2. \A d \in Calls, j \in {"hindsight", "letta"} :
               said'[d][j] = said[d][j] \/ (d = c /\ j = "hindsight" /\ k = "hindsight")
        BY <1>1, <4>1 DEF Says
      <4>3. \A d \in Calls, j \in {"hindsight", "letta"} : Lost(d, j)' <=> Lost(d, j)
        BY <2>0, <3>2, <4>2 DEF Lost
      <4> QED
        BY <2>0, <4>1, <4>3, CountSame
    <3> QED
      BY <3>1, <3>2
  <2>4. ASSUME NEW o, ToStore(c, o) PROVE FailuresCounted'
    <3>1. said[c]["letta"] = "nothing" /\ Says(c, "letta", o) /\ Counted(c, o)
      BY <1>1, <2>0, <2>2, <2>4 DEF ToStore, Told
    <3> QED
      BY <2>0, <3>1, CountOne
  <2> QED
    BY <1>1, <1>3, <2>1, <2>3, <2>4, RetainShape DEF PassedOver, GoesOn
<1> QED
  BY <1>2, <1>3

LEMMA CountNext ==
    ASSUME IsFiniteSet(Calls), BaseInv, AllTold, FailuresCounted, [Next]_vars
    PROVE  FailuresCounted'
<1>1. CASE \E c \in Calls : Retain(c)
  BY <1>1, CountStep
<1>2. ASSUME UNCHANGED <<said, payload>>
      PROVE  \A p \in Processes, k \in {"hindsight", "letta"} : Failed(p, k)' = Failed(p, k)
  BY <1>2 DEF Failed
<1>3. ASSUME NEW p \in Processes, Die(p) PROVE FailuresCounted'
  <2>1. UNCHANGED <<said, payload>> /\ died' = died \cup {p} /\ failures' = [failures EXCEPT ![p] = 0]
    BY <1>3 DEF Die
  <2> QED
    BY <1>2, <2>1 DEF FailuresCounted, BaseInv, TypeOK
<1>4. CASE (\E r \in Recalls : Recall(r)) \/ WindowExpires \/ UNCHANGED vars
  <2>1. UNCHANGED <<said, payload, failures, died>>
    BY <1>4 DEF Recall, Open, SearchLetta, ReadStore, WindowExpires, vars, callVars
  <2> QED
    BY <1>2, <2>1 DEF FailuresCounted
<1> QED
  BY <1>1, <1>3, <1>4 DEF Next

\* The diagnostics count every retain a backend failed, once, as long as the
\* process lives: a bridge that does not answer and docker exec after it are
\* one failure, and a refusal by policy none (retain_metrics.py:21).
THEOREM FailuresStayCounted == ASSUME IsFiniteSet(Calls) PROVE Spec => []FailuresCounted
<1>1. Init => FailuresCounted
  <2> SUFFICES ASSUME Init, NEW p \in Processes
               PROVE  failures[p] = Cardinality(Failed(p, "hindsight"))
                                    + Cardinality(Failed(p, "letta"))
    BY DEF FailuresCounted
  <2>1. Failed(p, "hindsight") = {} /\ Failed(p, "letta") = {}
    BY DEF Init, Unsaid, Failed, Keys
  <2>2. Cardinality(Failed(p, "hindsight")) = 0 /\ Cardinality(Failed(p, "letta")) = 0
    BY <2>1, FS_EmptySet
  <2> QED
    BY <2>2 DEF Init
<1>2. BaseInv /\ AllTold /\ FailuresCounted /\ [Next]_vars
        => (BaseInv /\ AllTold /\ FailuresCounted)'
  BY BaseStep, ToldNext, CountNext
<1> QED
  BY <1>1, <1>2, BaseInit, ToldInit, PTL DEF Spec

-------------------------------------------------------------------------------
\* The newest of a range

LEMMA LeastNatural ==
    ASSUME NEW T \in SUBSET Nat, T # {}
    PROVE  \E m \in T : \A k \in T : m <= k
<1> DEFINE R == OpToRel(<, Nat)
<1>1. IsWellFoundedOn(R, Nat)
  BY NatLessThanWellFounded
<1>2. \A x, y \in Nat : x < y => <<x, y>> \in R
  BY DEF OpToRel
<1> HIDE DEF R
<1>3. PICK m \in T : \A y \in T : ~(<<y, m>> \in R)
  BY <1>1, WFMin
<1>4. \A k \in T : m <= k
  <2> SUFFICES ASSUME NEW k \in T PROVE m <= k
    OBVIOUS
  <2>1. ~(k < m)
    BY <1>2, <1>3
  <2> QED
    BY <2>1
<1> QED
  BY <1>4

LEMMA GreatestOfRange ==
    ASSUME NEW n \in Nat, NEW T \in SUBSET (1 .. n), T # {}
    PROVE  \E m \in T : \A k \in T : k <= m
<1> DEFINE D == {d \in Nat : \E k \in T : k = n - d}
<1>1. \A k \in T : n - k \in D /\ k = n - (n - k)
  OBVIOUS
<1>2. PICK d \in D : \A e \in D : d <= e
  BY <1>1, LeastNatural
<1>3. PICK m \in T : m = n - d
  OBVIOUS
<1>4. \A k \in T : d <= n - k
  BY <1>1, <1>2
<1> QED
  BY <1>3, <1>4

LEMMA TopOfRange ==
    ASSUME NEW n \in Nat, NEW T \in SUBSET (1 .. n), NEW l \in Nat, l <= Cardinality(T)
    PROVE  l <= Cardinality({j \in T : Cardinality({k \in T : k > j}) < l})
<1> DEFINE Above(j) == {k \in T : k > j}  Top == {j \in T : Cardinality(Above(j)) < l}
<1>1. IsFiniteSet(1 .. n)
  BY FS_Interval
<1>2. IsFiniteSet(T) /\ \A S \in SUBSET T : IsFiniteSet(S) /\ Cardinality(S) \in Nat
  BY <1>1, FS_Subset, FS_CardinalityType
<1>3. Top \in SUBSET T /\ \A j \in T : Above(j) \in SUBSET T
  OBVIOUS
<1>a. \A j \in T : j \in Top \/ ~(Cardinality(Above(j)) < l)
  OBVIOUS
<1>b. \A j, k \in T : k \in Above(j) => k > j
  OBVIOUS
<1>c. T \subseteq Nat
  OBVIOUS
<1> SUFFICES l <= Cardinality(Top)
  OBVIOUS
<1> HIDE DEF Top, Above
<1>4. Cardinality(Top) \in Nat
  BY <1>2, <1>3
<1> SUFFICES ASSUME Cardinality(Top) < l PROVE FALSE
  BY <1>4
<1>5. T \ Top # {}
  <2> SUFFICES ASSUME T = Top PROVE FALSE
    BY <1>3
  <2> QED
    BY <1>4
<1>6. PICK m \in T \ Top : \A k \in T \ Top : k <= m
  BY <1>5, GreatestOfRange
<1>7. Above(m) \in SUBSET Top
  <2> SUFFICES ASSUME NEW k \in Above(m), k \notin Top PROVE FALSE
    OBVIOUS
  <2>1. k \in T /\ k > m /\ k <= m
    BY <1>3, <1>6, <1>b
  <2> QED
    BY <2>1, <1>c
<1>8. Cardinality(Above(m)) <= Cardinality(Top)
  BY <1>2, <1>3, <1>7, FS_Subset
<1>9. Cardinality(Above(m)) < l
  <2>1. Cardinality(Above(m)) \in Nat
    BY <1>2, <1>3, <1>6
  <2> QED
    BY <2>1, <1>4, <1>8
<1> QED
  BY <1>6, <1>9, <1>a

-------------------------------------------------------------------------------
\* The lines of the local store

Stock == lines["operational_store"]
Pending(c) == at[c] = "idle" \/ (Live(c) /\ InTodo(c, "letta"))

\* A whole line is some call's, a call has one line, and none before it has
\* been offered to the store.
StockInv ==
    /\ \A i \in DOMAIN Stock : Stock[i].whole => Stock[i].of \in Calls
    /\ \A i, j \in DOMAIN Stock : Stock[i].of \in Calls /\ Stock[i].of = Stock[j].of => i = j
    /\ \A c \in Calls : Pending(c) => ~Written("operational_store", c)

\* One line more, or the half line at the end made x's.
Grown(x) ==
    \E n \in DOMAIN Stock' :
        /\ DOMAIN Stock' = DOMAIN Stock \cup {n}
        /\ \A i \in DOMAIN Stock \ {n} : Stock'[i] = Stock[i]
        /\ n \in DOMAIN Stock => Stock[n].of = None
        /\ Stock'[n].of = x
        /\ Stock'[n].whole => x \in Calls

LEMMA AppendGrows ==
    ASSUME NEW L \in Seq(Line), NEW x \in Line
    PROVE  LET M == Append(L, x)  n == Len(L) + 1
           IN  /\ DOMAIN M = DOMAIN L \cup {n} /\ n \in DOMAIN M /\ n \notin DOMAIN L
               /\ (\A i \in DOMAIN L : M[i] = L[i]) /\ M[n] = x
<1> DEFINE M == Append(L, x)
<1>1. /\ M \in Seq(Line) /\ Len(M) = Len(L) + 1 /\ Len(L) \in Nat
      /\ \A i \in 1 .. Len(L) : M[i] = L[i]
      /\ M[Len(L) + 1] = x
  BY AppendProperties, LenProperties
<1>2. DOMAIN L = 1 .. Len(L) /\ DOMAIN M = 1 .. Len(M)
  BY <1>1, LenProperties
<1> HIDE DEF M
<1> QED
  BY <1>1, <1>2 DEF M

LEMMA EndGrows ==
    ASSUME NEW L \in Seq(Line), L # <<>>, NEW c
    PROVE  LET n == Len(L)  M == [L EXCEPT ![n].of = c]
           IN  /\ DOMAIN M = DOMAIN L /\ n \in DOMAIN L
               /\ \A i \in DOMAIN L \ {n} : M[i] = L[i]
               /\ M[n].of = c
<1>1. DOMAIN L = 1 .. Len(L) /\ Len(L) \in DOMAIN L
  BY LenProperties, EmptySeq
<1>2. L[Len(L)] \in Line
  BY <1>1, ElementOfSeq
<1>3. [L[Len(L)] EXCEPT !.of = c].of = c
  BY <1>2 DEF Line
<1> QED
  BY <1>1, <1>3

LEMMA StockAppended ==
    ASSUME TypeOK, OpenIsNobodys, NEW c \in Calls, Appended("operational_store", c)
    PROVE  Grown(c)
<1> DEFINE f == "operational_store"
<1>1. lines \in [Files -> Seq(Line)] /\ f \in Files /\ lines[f] \in Seq(Line)
  BY DEF TypeOK, Files
<1>2. CASE open[f]
  <2>1. lines[f] # <<>> /\ lines[f][Len(lines[f])].of = None
    BY <1>1, <1>2 DEF OpenIsNobodys
  <2>2. lines'[f] = [lines[f] EXCEPT ![Len(lines[f])].of = c]
    BY <1>1, <1>2 DEF Appended
  <2> QED
    BY <1>1, <2>1, <2>2, EndGrows DEF Grown, Stock
<1>3. CASE ~open[f]
  <2> DEFINE x == [of |-> c, whole |-> TRUE]
  <2>1. x \in Line /\ x.of = c
    BY DEF Line
  <2>2. lines'[f] = Append(lines[f], x)
    BY <1>1, <1>3 DEF Appended
  <2> HIDE DEF x
  <2> QED
    BY <1>1, <2>1, <2>2, AppendGrows DEF Grown, Stock
<1> QED
  BY <1>2, <1>3

LEMMA StockTorn ==
    ASSUME TypeOK, NEW f \in Files, Torn(f)
    PROVE  Stock' = Stock \/ Grown(None)
<1>1. lines \in [Files -> Seq(Line)] /\ lines[f] \in Seq(Line)
  BY DEF TypeOK
<1>2. CASE open[f] \/ f # "operational_store"
  BY <1>1, <1>2 DEF Torn, Stock
<1>3. CASE ~open[f] /\ f = "operational_store"
  <2> DEFINE x == [of |-> None, whole |-> FALSE]
  <2>1. x \in Line /\ x.of = None /\ ~x.whole
    BY DEF Line
  <2>2. lines'[f] = Append(lines[f], x)
    BY <1>1, <1>3 DEF Torn
  <2> HIDE DEF x
  <2> QED
    BY <1>1, <1>3, <2>1, <2>2, AppendGrows DEF Grown, Stock
<1> QED
  BY <1>2, <1>3

\* Only a call that still has Letta's target to write adds its line.
LEMMA StockStep ==
    ASSUME BaseInv, AllTold, [Next]_vars
    PROVE  \/ Stock' = Stock
           \/ Grown(None)
           \/ \E c \in Calls : Grown(c) /\ Pending(c) /\ ~Pending(c)'
<1>1. TypeOK /\ OpenIsNobodys
  BY DEF BaseInv
<1>2. ASSUME NEW c \in Calls, AppendOperational(c)
      PROVE  \/ Stock' = Stock
             \/ Grown(None)
             \/ Grown(c) /\ Pending(c) /\ ~Pending(c)'
  <2>1. PICK o \in {"ok", "down", "torn"} :
          /\ at[c] = "store" \/ Turn(c, "letta")
          /\ AppendTo("operational_store", c, o) /\ NextTarget(c)
    BY <1>2 DEF AppendOperational
  <2>2. /\ todo[c] # <<>> /\ Head(todo[c]) = "letta" /\ todo[c] \in Seq(Keys)
        /\ \A i, j \in DOMAIN todo[c] : todo[c][i] = todo[c][j] => i = j
        /\ at[c] \in {"store", "next"}
    BY <2>1 DEF BaseInv, TypeOK, Busy, AllTold, Told, Turn
  <2>3. todo'[c] = Tail(todo[c]) /\ at'[c] = "next"
    BY <1>1, <2>1 DEF NextTarget, TypeOK
  <2>4. Pending(c) /\ ~Pending(c)'
    BY <2>2, <2>3, TodoTail DEF Pending, Live, InTodo
  <2>5. CASE o = "ok"
    BY <1>1, <2>1, <2>4, <2>5, StockAppended DEF AppendTo
  <2>6. CASE o = "down"
    BY <2>1, <2>6 DEF AppendTo, Stock
  <2>7. CASE o = "torn"
    BY <1>1, <2>1, <2>7, StockTorn DEF AppendTo, Files
  <2> QED
    BY <2>5, <2>6, <2>7
<1>3. ASSUME NEW c \in Calls, AppendGuardian(c) PROVE Stock' = Stock
  BY <1>1, <1>3 DEF AppendGuardian, AppendTo, Appended, Torn, Stock, TypeOK, Files
<1>4. ASSUME NEW c \in Calls, Retain(c), ~AppendOperational(c), ~AppendGuardian(c)
      PROVE  Stock' = Stock
  BY <1>4 DEF Retain, Begin, PassOver, End, RefuseBacklog, PostBridge, ExecBridge, RetainDirect,
       RetainLetta, RetainStructured, Push, Trim, SetExpiry, stores, Stock
<1>5. ASSUME NEW p \in Processes, Die(p) PROVE Stock' = Stock \/ Grown(None)
  <2>1. UNCHANGED lines \/ \E f \in Files : Torn(f)
    BY <1>5 DEF Die
  <2> QED
    BY <1>1, <2>1, StockTorn DEF Stock
<1>6. CASE (\E r \in Recalls : Recall(r)) \/ WindowExpires \/ UNCHANGED vars
  BY <1>6 DEF Recall, Open, SearchLetta, ReadStore, WindowExpires, vars, stores, Stock
<1> QED
  BY <1>2, <1>3, <1>4, <1>5, <1>6 DEF Next

\* No call comes to have Letta's target to write a second time.
LEMMA PendingEnds ==
    ASSUME BaseInv, AllTold, [Next]_vars, NEW d \in Calls, Pending(d)'
    PROVE  Pending(d)
<1>1. ASSUME NEW c \in Calls, Retain(c) PROVE Pending(d)
  <2>1. Framed(c) /\ Told(c) /\ todo[c] \in Seq(Keys) /\ TypeOK
    BY <1>1, RetainFramed DEF AllTold, BaseInv, TypeOK
  <2>2. CASE d # c
    BY <2>1, <2>2 DEF Framed, Pending, Live, InTodo
  <2>3. CASE d = c /\ Begin(c)
    BY <2>3 DEF Begin, Pending
  <2>4. CASE d = c /\ ~Begin(c)
    <3>1. Live(c) /\ at'[c] # "idle"
      <4>1. Live(c) /\ (NextTarget(c) \/ \E s \in {"unanswered", "trim", "expire", "done", "store"} : GoTo(c, s))
        BY <1>1, <2>1, <2>4, RetainShape DEF PassedOver, Answered, GoesOn, ToStore
      <4> QED
        BY <2>1, <4>1 DEF NextTarget, GoTo, TypeOK
    <3>2. CASE todo[c] # <<>> /\ NextTarget(c)
      <4>1. todo'[c] = Tail(todo[c])
        BY <2>1, <3>2 DEF NextTarget, TypeOK
      <4>2. InTodo(c, "letta")'
        BY <2>4, <3>1 DEF Pending
      <4>3. InTodo(c, "letta")
        BY <2>1, <3>2, <4>1, <4>2, TodoTail DEF InTodo, Told
      <4> QED
        BY <2>4, <3>1, <4>3 DEF Pending
    <3>3. CASE todo' = todo
      BY <2>4, <3>1, <3>3 DEF Pending, InTodo
    <3> QED
      BY <1>1, <2>1, <2>4, <3>2, <3>3, RetainShape DEF PassedOver, Answered, GoesOn, ToStore, GoTo
  <2> QED
    BY <2>2, <2>3, <2>4
<1>2. ASSUME todo' = todo, at'[d] = at[d] \/ at'[d] = "dead" PROVE Pending(d)
  BY <1>2 DEF Pending, Live, InTodo
<1> QED
  BY <1>1, <1>2, OtherStep DEF Next

LEMMA StockNext ==
    ASSUME BaseInv, AllTold, StockInv, [Next]_vars
    PROVE  StockInv' /\ \A c \in Calls : Glued(c) => Glued(c)'
<1>1. \A d \in Calls : Pending(d)' => Pending(d)
  BY PendingEnds
<1>2. CASE Stock' = Stock
  BY <1>1, <1>2 DEF StockInv, Stock, Written, Glued
<1>3. ASSUME NEW x \in Calls \cup {None}, Grown(x), x \in Calls => Pending(x) /\ ~Pending(x)'
      PROVE  StockInv' /\ \A c \in Calls : Glued(c) => Glued(c)'
  <2>1. PICK n \in DOMAIN Stock' :
          /\ DOMAIN Stock' = DOMAIN Stock \cup {n}
          /\ \A i \in DOMAIN Stock \ {n} : Stock'[i] = Stock[i]
          /\ n \in DOMAIN Stock => Stock[n].of = None
          /\ Stock'[n].of = x
          /\ Stock'[n].whole => x \in Calls
    BY <1>3 DEF Grown
  <2>2. None \notin Calls
    BY CallsAreCalls
  <2>3. x \in Calls => \A i \in DOMAIN Stock : Stock[i].of # x
    BY <1>3 DEF StockInv, Written, Stock
  <2>4. \A i \in DOMAIN Stock' : Stock'[i].whole => Stock'[i].of \in Calls
    BY <2>1 DEF StockInv
  <2>5. \A i, j \in DOMAIN Stock' :
           Stock'[i].of \in Calls /\ Stock'[i].of = Stock'[j].of => i = j
    <3> SUFFICES ASSUME NEW i \in DOMAIN Stock', NEW j \in DOMAIN Stock',
                        Stock'[i].of \in Calls, Stock'[i].of = Stock'[j].of
                 PROVE  i = j
      OBVIOUS
    <3>1. CASE i # n /\ j # n
      BY <2>1, <3>1 DEF StockInv
    <3>2. CASE i = n \/ j = n
      BY <2>1, <2>3, <3>2
    <3> QED
      BY <3>1, <3>2
  <2>6. ASSUME NEW c \in Calls, Pending(c)' PROVE ~Written("operational_store", c)'
    <3>1. c # x /\ \A i \in DOMAIN Stock : Stock[i].of # c
      BY <1>1, <1>3, <2>6 DEF StockInv, Written, Stock
    <3>2. \A i \in DOMAIN Stock' : Stock'[i].of # c
      BY <2>1, <3>1
    <3> QED
      BY <3>2 DEF Written, Stock
  <2>7. ASSUME NEW c \in Calls, Glued(c) PROVE Glued(c)'
    <3>1. PICK i \in DOMAIN Stock : Stock[i] = [of |-> c, whole |-> FALSE]
      BY <2>7 DEF Glued, Stock
    <3>2. i # n /\ i \in DOMAIN Stock'
      BY <2>1, <2>2, <3>1
    <3>3. Stock'[i] = [of |-> c, whole |-> FALSE]
      BY <2>1, <3>1, <3>2
    <3> QED
      BY <3>2, <3>3 DEF Glued, Stock
  <2> QED
    BY <2>4, <2>5, <2>6, <2>7 DEF StockInv
<1> QED
  BY <1>2, <1>3, StockStep, CallsAreCalls

-------------------------------------------------------------------------------
\* What a recall brings back

\* What lies in a range of numbers is finite.
LEMMA PartOfRange ==
    ASSUME NEW n \in Nat, NEW S \in SUBSET (1 .. n)
    PROVE  IsFiniteSet(S) /\ Cardinality(S) \in Nat
<1>1. IsFiniteSet(1 .. n)
  BY FS_Interval
<1>2. IsFiniteSet(S)
  BY <1>1, FS_Subset
<1> QED
  BY <1>2, FS_CardinalityType

\* A line of the store that fits a query is among the newest that do, or those
\* are as many as asked for, or it is glued to a half one.
LEMMA NewestAreEnough ==
    ASSUME TypeOK, StockInv, NEW q \in SUBSET Calls, NEW c \in q,
           Written("operational_store", c), ~Glued(c)
    PROVE  LET N == Newest("operational_store", q, Limit)
           IN  c \in N \/ Cardinality(N) >= Limit
<1> DEFINE N == Newest("operational_store", q, Limit)
           n == Len(Stock)
           W == {j \in DOMAIN Stock : Stock[j].whole /\ Stock[j].of \in q}
           After(i) == {j \in DOMAIN Stock : j > i /\ Stock[j].whole /\ Stock[j].of \in q}
<1> SUFFICES c \in N \/ Cardinality(N) >= Limit
  OBVIOUS
<1>1. Stock \in Seq(Line) /\ Limit \in Nat
  BY BoundsAreNat DEF Stock, TypeOK, Files
<1>2. n \in Nat /\ DOMAIN Stock = 1 .. n /\ \A j \in 1 .. n : Stock[j] \in Line
  BY <1>1, LenProperties, ElementOfSeq
<1>in. /\ W \in SUBSET (1 .. n)
       /\ \A i : After(i) \in SUBSET (1 .. n) /\ After(i) \subseteq W
  <2>1. DOMAIN Stock = 1 .. n
    BY <1>2
  <2>2. W \subseteq DOMAIN Stock /\ \A i : After(i) \subseteq W
    OBVIOUS
  <2> HIDE DEF W, n, After
  <2> QED
    BY <2>1, <2>2
<1>3. \A j \in W : Stock[j].of \in q /\ Stock[j] = [of |-> Stock[j].of, whole |-> TRUE]
  <2> SUFFICES ASSUME NEW j \in W
               PROVE  Stock[j].of \in q /\ Stock[j] = [of |-> Stock[j].of, whole |-> TRUE]
    OBVIOUS
  <2>1. Stock[j] \in Line /\ Stock[j].whole /\ Stock[j].of \in q
    BY <1>2
  <2>2. \A l \in Line : l.whole => l = [of |-> l.of, whole |-> TRUE]
    BY DEF Line
  <2> QED
    BY <2>1, <2>2
<1>4. \A d : d \in N <=> /\ d \in q
                         /\ \E i \in DOMAIN Stock : Stock[i] = [of |-> d, whole |-> TRUE]
                         /\ \E i \in DOMAIN Stock : Stock[i].of = d /\ Cardinality(After(i)) < Limit
  BY DEF Newest, Readable, Stock
<1>5. PICK i \in DOMAIN Stock : Stock[i].of = c
  BY DEF Written, Stock
<1>6. i \in W
  <2>1. \A l \in Line : ~l.whole => l = [of |-> l.of, whole |-> FALSE]
    BY DEF Line
  <2>2. Stock[i] \in Line
    BY <1>2
  <2> SUFFICES ASSUME ~Stock[i].whole PROVE FALSE
    BY <1>5
  <2>3. Stock[i] = [of |-> c, whole |-> FALSE]
    BY <1>5, <2>1, <2>2
  <2> QED
    BY <2>3 DEF Glued, Stock
<1>7. CASE Cardinality(After(i)) < Limit
  BY <1>3, <1>4, <1>5, <1>6, <1>7
<1>8. CASE ~(Cardinality(After(i)) < Limit)
  <2> DEFINE T == After(i)
             Top == {j \in T : Cardinality({k \in T : k > j}) < Limit}
  <2>1. T \in SUBSET (1 .. n) /\ T \subseteq W
    <3> HIDE DEF After, W, n
    <3> QED
      BY <1>in
  <2>2. IsFiniteSet(T) /\ Cardinality(T) \in Nat
    <3> HIDE DEF T, n
    <3> QED
      BY <1>2, <2>1, PartOfRange
  <2>3. Limit <= Cardinality(T)
    BY <1>1, <1>8, <2>2
  <2>4. Limit <= Cardinality(Top)
    BY <1>1, <1>2, <2>1, <2>3, TopOfRange
  <2>5. \A j \in T : {k \in T : k > j} = After(j)
    <3> SUFFICES ASSUME NEW j \in T PROVE {k \in T : k > j} = After(j)
      OBVIOUS
    <3>1. j \in 1 .. n /\ j > i /\ i \in 1 .. n
      BY <1>2
    <3>2. \A k \in 1 .. n : k > j => k > i
      BY <1>2, <3>1
    <3> QED
      BY <1>2, <3>2
  <2>6. \A j \in Top : j \in W /\ Stock[j].of \in N
    <3> SUFFICES ASSUME NEW j \in Top PROVE j \in W /\ Stock[j].of \in N
      OBVIOUS
    <3>1. j \in T /\ j \in W /\ Cardinality(After(j)) < Limit
      BY <2>1, <2>5
    <3> QED
      BY <1>3, <1>4, <3>1
  <2> DEFINE g == [j \in Top |-> Stock[j].of]
  <2>7. \A j, k \in Top : Stock[j].of = Stock[k].of => j = k
    BY <1>3, <2>6 DEF StockInv
  <2>8. g \in Injection(Top, N)
    <3>1. g \in [Top -> N]
      BY <2>6
    <3>2. \A j, k \in Top : g[j] = g[k] => j = k
      BY <2>7
    <3> HIDE DEF g, Top, N
    <3> QED
      BY <3>1, <3>2 DEF Injection, IsInjective
  <2>9. IsFiniteSet(N)
    <3> DEFINE R == {d \in q : \E j \in W : Stock[j].of = d}
               h == [j \in W |-> Stock[j].of]
    <3>1. h \in Surjection(W, R)
      <4>1. h \in [W -> R]
        BY <1>3
      <4>2. \A d \in R : \E j \in W : h[j] = d
        OBVIOUS
      <4> HIDE DEF h, W, R
      <4> QED
        BY <4>1, <4>2 DEF Surjection
    <3>2. IsFiniteSet(W)
      <4> HIDE DEF W, n, After
      <4> QED
        BY <1>2, <1>in, PartOfRange
    <3>3. IsFiniteSet(R)
      BY <3>1, <3>2, FS_Surjection
    <3>4. N \in SUBSET R
      <4> SUFFICES ASSUME NEW d \in N PROVE d \in R
        OBVIOUS
      <4>1. d \in q /\ \E j \in DOMAIN Stock : Stock[j] = [of |-> d, whole |-> TRUE]
        BY <1>4
      <4>2. PICK j \in DOMAIN Stock : Stock[j] = [of |-> d, whole |-> TRUE]
        BY <4>1
      <4>3. j \in W /\ Stock[j].of = d
        BY <4>1, <4>2
      <4> QED
        BY <4>1, <4>3
    <3> QED
      BY <3>3, <3>4, FS_Subset
  <2>10. Cardinality(Top) <= Cardinality(N) /\ Cardinality(N) \in Nat /\ Cardinality(Top) \in Nat
    BY <2>8, <2>9, FS_Injection, FS_CardinalityType
  <2>11. \A l, t, m \in Nat : l <= t /\ t <= m => m >= l
    OBVIOUS
  <2>12. Cardinality(N) >= Limit
    <3> HIDE DEF N, Top
    <3> QED
      BY <1>1, <2>4, <2>10, <2>11
  <2> QED
    BY <2>12
<1> QED
  BY <1>7, <1>8

\* What a recall looks back at has ended.
BeforeInv ==
    \A r \in Recalls :
        /\ reading[r] = "letta" => env.letta
        /\ \A c \in before[r] : at[c] = "done"

\* A call that has ended is never changed again.
LEMMA DoneStays ==
    ASSUME BaseInv, AllTold, [Next]_vars, NEW c \in Calls, at[c] = "done"
    PROVE  at'[c] = "done" /\ said'[c] = said[c]
<1>1. ASSUME NEW d \in Calls, Retain(d) PROVE at'[c] = "done" /\ said'[c] = said[c]
  <2>1. c # d
    BY <1>1, RetainShape DEF AllTold, Begin
  <2> QED
    BY <1>1, <2>1, RetainFramed DEF Framed
<1>2. ASSUME NEW p \in Processes, Die(p) PROVE at'[c] = "done" /\ said'[c] = said[c]
  BY <1>2 DEF Die, InFlight
<1>3. CASE (\E r \in Recalls : Recall(r)) \/ WindowExpires \/ UNCHANGED vars
  BY <1>3 DEF Recall, Open, SearchLetta, ReadStore, WindowExpires, vars, callVars
<1> QED
  BY <1>1, <1>2, <1>3 DEF Next

Covered(r, c) ==
    \/ c \in got[r] \/ Cardinality(got[r]) >= Limit \/ Glued(c)
    \/ said[c]["operational_store"] # "yes" \/ said[c]["letta"] = "no"

LEMMA RecallStep ==
    ASSUME BaseInv, Keeps, AllTold, StockInv, BeforeInv, RecallIsComplete,
           NEW r \in Recalls, Recall(r)
    PROVE  BeforeInv' /\ RecallIsComplete'
<1>1. /\ TypeOK /\ UNCHANGED <<env, callVars, stores>>
      /\ before \in [Recalls -> SUBSET Calls] /\ fits \in [Recalls -> SUBSET Calls]
      /\ got \in [Recalls -> SUBSET Calls]
      /\ reading \in [Recalls -> {"idle", "letta", "local", "done", "failed"}] /\ Limit \in Nat
  BY BoundsAreNat DEF Recall, Open, SearchLetta, ReadStore, BaseInv, TypeOK
<1>2. \A q \in Recalls \ {r} : /\ reading'[q] = reading[q] /\ before'[q] = before[q]
                              /\ fits'[q] = fits[q] /\ got'[q] = got[q]
  BY <1>1 DEF Recall, Open, SearchLetta, ReadStore, Gets
<1>3. \A c : Glued(c)' <=> Glued(c)
  BY <1>1 DEF Glued, stores
<1>4. ASSUME /\ reading'[r] = "letta" => env.letta
             /\ \A c \in before'[r] : at[c] = "done"
             /\ reading'[r] = "done" => \A c \in before'[r] \cap fits'[r] :
                   \/ c \in got'[r] \/ Cardinality(got'[r]) >= Limit \/ Glued(c)
                   \/ said[c]["operational_store"] # "yes" \/ said[c]["letta"] = "no"
      PROVE  BeforeInv' /\ RecallIsComplete'
  <2>1. BeforeInv'
    BY <1>1, <1>2, <1>4 DEF BeforeInv, callVars
  <2>2. RecallIsComplete'
    BY <1>1, <1>2, <1>3, <1>4 DEF RecallIsComplete, callVars
  <2> QED
    BY <2>1, <2>2
<1>5. ASSUME NEW c \in before[r], said[c]["operational_store"] = "yes"
      PROVE  /\ c \in Calls /\ Written("operational_store", c) /\ env.store
             /\ env.letta /\ said[c]["letta"] # "no" => c \in letta
  <2>1. c \in Calls /\ Told(c) /\ "letta" \in Keys /\ "operational_store" \in Keys
        /\ "operational_store" \in Files
    BY <1>1 DEF AllTold, Keys, Files
  <2>2. Stored(c, "operational_store") /\ (said[c]["letta"] = "yes" => Stored(c, "letta"))
    BY <1>5, <2>1 DEF Keeps
  <2>3. said[c]["letta"] \in {"nothing", "yes", "no"}
    BY <1>1, <2>1 DEF TypeOK
  <2> QED
    BY <1>5, <2>1, <2>2, <2>3 DEF Stored, Told
<1>6. CASE Open(r)
  <2>1. before'[r] = {c \in Calls : at[c] = "done"} /\ reading'[r] = IF env.letta THEN "letta" ELSE "local"
    BY <1>1, <1>6 DEF Open
  <2> QED
    BY <1>4, <2>1
<1>7. CASE SearchLetta(r)
  <2>1. PICK s \in SUBSET letta :
          /\ UNCHANGED <<before, fits>> /\ env.letta
          /\ \/ s = {} /\ reading'[r] = "local"
             \/ /\ s # {} /\ (s = letta \/ Cardinality(s) = Limit)
                /\ got'[r] = s
    BY <1>1, <1>7 DEF SearchLetta, Gets, BeforeInv
  <2>2. Cardinality(s) = Limit => Cardinality(s) >= Limit
    BY <1>1
  <2>3. CASE s = {} /\ reading'[r] = "local"
    BY <1>4, <2>1, <2>3 DEF BeforeInv
  <2>4. CASE (s = letta \/ Cardinality(s) = Limit) /\ got'[r] = s
    BY <1>4, <1>5, <2>1, <2>2, <2>4 DEF BeforeInv
  <2> QED
    BY <2>1, <2>3, <2>4
<1>8. CASE ReadStore(r)
  <2>1. /\ UNCHANGED <<before, fits>> /\ reading'[r] \in {"done", "failed"}
        /\ reading'[r] = "done" /\ env.store => got'[r] = Newest("operational_store", fits[r], Limit)
    BY <1>1, <1>8 DEF ReadStore, Gets
  <2>2. ASSUME reading'[r] = "done", NEW c \in before'[r] \cap fits'[r], ~Glued(c),
               said[c]["operational_store"] = "yes"
        PROVE  c \in got'[r] \/ Cardinality(got'[r]) >= Limit
    <3>1. /\ c \in fits[r] /\ fits[r] \in SUBSET Calls
          /\ Written("operational_store", c) /\ env.store
      BY <1>1, <1>5, <2>1, <2>2
    <3> QED
      BY <1>1, <2>1, <2>2, <3>1, NewestAreEnough
  <2> QED
    BY <1>4, <2>1, <2>2 DEF BeforeInv
<1> QED
  BY <1>6, <1>7, <1>8 DEF Recall

LEMMA RecallNext ==
    ASSUME BaseInv, Keeps, AllTold, StockInv, BeforeInv, RecallIsComplete, [Next]_vars
    PROVE  BeforeInv' /\ RecallIsComplete'
<1>1. CASE \E r \in Recalls : Recall(r)
  BY <1>1, RecallStep
<1>2. CASE ~\E r \in Recalls : Recall(r)
  <2>1. UNCHANGED <<env, reading, before, fits, got>>
    BY <1>2 DEF Next, Retain, Begin, PassOver, End, RefuseBacklog, PostBridge, ExecBridge,
       RetainDirect, RetainLetta, AppendOperational, RetainStructured, AppendGuardian, Push, Trim,
       SetExpiry, Die, WindowExpires, vars, recallVars
  <2>2. \A r \in Recalls : \A c \in before[r] :
           c \in Calls /\ at[c] = "done" /\ at'[c] = "done" /\ said'[c] = said[c]
    BY DoneStays DEF BeforeInv, BaseInv, TypeOK
  <2>3. \A c \in Calls : Glued(c) => Glued(c)'
    BY StockNext
  <2> QED
    BY <2>1, <2>2, <2>3 DEF BeforeInv, RecallIsComplete
<1> QED
  BY <1>1, <1>2

\* A recall that is answered has every lesson its query fits that had been kept
\* before it began, through Letta or, where Letta is off or empty, the local
\* store (operational_bridge.py:11), or as many passages as it asked for: for
\* any number of retains that go on meanwhile, whatever the query fits.
THEOREM RecallStaysComplete == Spec => []RecallIsComplete
<1>1. Init => Keeps /\ StockInv /\ BeforeInv /\ RecallIsComplete
  <2> SUFFICES ASSUME Init PROVE Keeps /\ StockInv /\ BeforeInv /\ RecallIsComplete
    OBVIOUS
  <2>1. Keeps
    BY DEF Init, Keeps, Unsaid
  <2>2. Stock = <<>> /\ DOMAIN Stock = {}
    <3>1. Stock = <<>>
      BY DEF Init, Stock, Files
    <3> QED
      BY <3>1
  <2>3. StockInv
    BY <2>2 DEF StockInv, Written, Stock
  <2>4. BeforeInv /\ RecallIsComplete
    BY DEF Init, BeforeInv, RecallIsComplete
  <2> QED
    BY <2>1, <2>3, <2>4
<1> DEFINE I == BaseInv /\ Keeps /\ AllTold /\ StockInv /\ BeforeInv /\ RecallIsComplete
<1>2. I /\ [Next]_vars => I'
  BY BaseStep, KeepsNext, ToldNext, StockNext, RecallNext
<1> QED
  BY <1>1, <1>2, BaseInit, ToldInit, PTL DEF Spec
===============================================================================
