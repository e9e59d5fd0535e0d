---------------------------- MODULE ManagementProofs ----------------------------
(***************************************************************************)
(* Proofs about the whole of MCManagement: the specification TLC runs is   *)
(* the nine components side by side, so that what is proved of one of them *)
(* holds of it, and every variable keeps its type.  The reports are        *)
(* instantiated there, so what is proved of them is proved here: the types *)
(* of their log, and that their sums agree.                                *)
(***************************************************************************)
EXTENDS MCManagement, CompanyProofs, ScreenProofs, FiniteSetTheorems, TLAPS

-----------------------------------------------------------------------------
(* A step of the whole is one of a component, or leaves it alone. *)
LEMMA LocationProjected == [ManagementNext]_managementVars => [LocationNext]_locationVars
BY DEF ManagementNext, managementVars, LocationStep, SchedulingStep, RosterStep, PlanStep,
       SettingsStep, ReportsStep, PageStep, ListStep, DialogStep

LEMMA SchedulesProjected == [ManagementNext]_managementVars => [SchedulesNext]_scheduleVars
BY DEF ManagementNext, managementVars, LocationStep, SchedulingStep, RosterStep, PlanStep,
       SettingsStep, ReportsStep, PageStep, ListStep, DialogStep

LEMMA RosterProjected == [ManagementNext]_managementVars => [RosterNext]_rosterVars
BY DEF ManagementNext, managementVars, LocationStep, SchedulingStep, RosterStep, PlanStep,
       SettingsStep, ReportsStep, PageStep, ListStep, DialogStep

LEMMA PlanProjected == [ManagementNext]_managementVars => [PlanNext]_planVars
BY DEF ManagementNext, managementVars, LocationStep, SchedulingStep, RosterStep, PlanStep,
       SettingsStep, ReportsStep, PageStep, ListStep, DialogStep

LEMMA SettingsProjected == [ManagementNext]_managementVars => [SettingsNext]_settingsVars
BY DEF ManagementNext, managementVars, LocationStep, SchedulingStep, RosterStep, PlanStep,
       SettingsStep, ReportsStep, PageStep, ListStep, DialogStep

LEMMA ReportsProjected ==
  [ManagementNext]_managementVars => [TheReports!Next]_(TheReports!vars)
BY DEF ManagementNext, managementVars, reportVars, TheReports!vars, LocationStep, SchedulingStep,
       RosterStep, PlanStep, SettingsStep, ReportsStep, PageStep, ListStep, DialogStep

LEMMA PageProjected == [ManagementNext]_managementVars => [PageNext]_pageVars
BY DEF ManagementNext, managementVars, LocationStep, SchedulingStep, RosterStep, PlanStep,
       SettingsStep, ReportsStep, PageStep, ListStep, DialogStep

LEMMA ListProjected == [ManagementNext]_managementVars => [ListNext]_listVars
BY DEF ManagementNext, managementVars, LocationStep, SchedulingStep, RosterStep, PlanStep,
       SettingsStep, ReportsStep, PageStep, ListStep, DialogStep

LEMMA DialogProjected == [ManagementNext]_managementVars => [DialogNext]_dialogVars
BY DEF ManagementNext, managementVars, LocationStep, SchedulingStep, RosterStep, PlanStep,
       SettingsStep, ReportsStep, PageStep, ListStep, DialogStep

(* Every behaviour of the whole is, seen through the variables of a component, *)
(* a behaviour of that component: what is proved of the component holds of the *)
(* whole.                                                                      *)
THEOREM ManagementIsItsParts ==
  ManagementSpec =>
    /\ LocationSpec /\ SchedulesSpec /\ RosterSpec /\ PlanSpec /\ SettingsSpec
    /\ TheReports!Spec /\ PageSpec /\ ListSpec /\ DialogSpec
<1>1. ManagementInit =>
        /\ LocationInit /\ SchedulesInit /\ RosterInit /\ PlanInit /\ SettingsInit
        /\ TheReports!Init /\ PageInit /\ ListInit /\ DialogInit
  BY DEF ManagementInit
<1>2. QED
  BY <1>1, LocationProjected, SchedulesProjected, RosterProjected, PlanProjected,
     SettingsProjected, ReportsProjected, PageProjected, ListProjected, DialogProjected, PTL
  DEF ManagementSpec, LocationSpec, SchedulesSpec, RosterSpec, PlanSpec, SettingsSpec,
      TheReports!Spec, PageSpec, ListSpec, DialogSpec

-----------------------------------------------------------------------------
(* The log of the readers, the places of the students and the bus of the       *)
(* reader keep their types.                                                    *)
LEMMA ReportsTypeCorrect == TheReports!Spec => []TheReports!TypeOK
<1>1. TheReports!Init => TheReports!TypeOK
  BY DEF TheReports!Init, TheReports!TypeOK
<1>2. TheReports!TypeOK /\ [TheReports!Next]_(TheReports!vars) => TheReports!TypeOK'
  <2> SUFFICES ASSUME TheReports!TypeOK, [TheReports!Next]_(TheReports!vars)
               PROVE  TheReports!TypeOK'
    OBVIOUS
  <2> USE DEF TheReports!TypeOK
  <2>1. ASSUME NEW type \in TheReports!Types, NEW s \in Riders \cup {None},
               NEW t \in 0 .. Horizon, TheReports!Record(type, s, t)
        PROVE  TheReports!TypeOK'
    BY <2>1 DEF TheReports!Record
  <2>2. ASSUME NEW s \in Riders, TheReports!MoveStudent(s)
        PROVE  TheReports!TypeOK'
    BY <2>2 DEF TheReports!MoveStudent
  <2>3. ASSUME NEW s \in Riders, TheReports!DeactivateStudent(s)
        PROVE  TheReports!TypeOK'
    BY <2>3 DEF TheReports!DeactivateStudent
  <2>4. ASSUME TheReports!MoveDevice
        PROVE  TheReports!TypeOK'
    BY <2>4 DEF TheReports!MoveDevice
  <2>5. ASSUME UNCHANGED TheReports!vars
        PROVE  TheReports!TypeOK'
    BY <2>5 DEF TheReports!vars
  <2>6. QED
    BY <2>1, <2>2, <2>3, <2>4, <2>5 DEF TheReports!Next
<1>3. QED
  BY <1>1, <1>2, PTL DEF TheReports!Spec

-----------------------------------------------------------------------------
(* The sums of the reports.  A sum over a finite set is defined by one element *)
(* after another, so that it is the number of the things counted in the rows   *)
(* is an induction over the sets of rows: no set of rows is a smallest one     *)
(* about which two such sums differ.                                          *)

(* What defines the sum over every part of a set. *)
IsSum(g, f, S) ==
  g = [s \in SUBSET S |->
         IF s = {} THEN 0 ELSE LET x == CHOOSE x \in s : TRUE IN f[x] + g[s \ {x}]]

(* The sum is a function with that definition. *)
LEMMA SumIsFold ==
  ASSUME NEW f
  PROVE  SumFunction(f) = (CHOOSE g : IsSum(g, f, DOMAIN f))[DOMAIN f]
BY DEF SumFunction, SumFunctionOnSet, FoldFunctionOnSet, MapThenFoldSet, IsSum

(* Two functions with that definition agree. *)
LEMMA OneSum ==
  ASSUME NEW f, NEW S, IsFiniteSet(S), NEW g, NEW h, IsSum(g, f, S), IsSum(h, f, S)
  PROVE  g[S] = h[S]
<1> DEFINE Differ == {s \in SUBSET S : g[s] # h[s]}
<1> SUFFICES ASSUME Differ # {} PROVE FALSE
  OBVIOUS
<1>1. Differ \subseteq FiniteSubsetsOf(S)
  BY FS_Subset DEF FiniteSubsetsOf
<1>2. PICK s \in Differ : \A t \in Differ : <<t, s>> \notin StrictSubsetOrdering(S)
  <2> HIDE DEF Differ
  <2> QED
    BY <1>1, FS_StrictSubsetOrderingWellFounded, WFMin
<1>3. s # {}
  BY DEF IsSum
<1> DEFINE x == CHOOSE x \in s : TRUE
<1>4. x \in s
  BY <1>3
<1>5. g[s] = f[x] + g[s \ {x}] /\ h[s] = f[x] + h[s \ {x}]
  BY <1>3 DEF IsSum
<1>6. s \ {x} \in Differ
  BY <1>4, <1>5
<1>7. <<s \ {x}, s>> \in StrictSubsetOrdering(S)
  BY <1>4 DEF StrictSubsetOrdering
<1>8. QED
  BY <1>2, <1>6, <1>7

(* What the rows of s count: R[d] is the part of E counted in the row d. *)
Counted(s, E, R) == {p \in s \X E : p[2] \in R[p[1]]}

(* One row counts its part, the other rows the rest. *)
LEMMA CountedInARow ==
  ASSUME NEW S, IsFiniteSet(S), NEW E, IsFiniteSet(E), NEW R \in [S -> SUBSET E],
         NEW s \in SUBSET S, NEW x \in s
  PROVE  /\ IsFiniteSet(Counted(s, E, R)) /\ IsFiniteSet(R[x])
         /\ Cardinality(Counted(s, E, R))
              = Cardinality(R[x]) + Cardinality(Counted(s \ {x}, E, R))
<1> DEFINE P == {<<x, e>> : e \in R[x]}
           Q == Counted(s \ {x}, E, R)
<1>1. IsFiniteSet(s) /\ IsFiniteSet(s \ {x}) /\ IsFiniteSet(R[x])
  BY FS_Subset
<1>2. IsFiniteSet(s \X E) /\ IsFiniteSet((s \ {x}) \X E)
  BY <1>1, FS_Product
<1>3. IsFiniteSet(Counted(s, E, R)) /\ IsFiniteSet(Q)
  BY <1>2, FS_Subset DEF Counted
<1>4. ExistsBijection(R[x], P)
  <2> DEFINE pair == [e \in R[x] |-> <<x, e>>]
  <2>1. pair \in [R[x] -> P]
    OBVIOUS
  <2>2. pair \in Injection(R[x], P) /\ pair \in Surjection(R[x], P)
    BY <2>1 DEF Injection, IsInjective, Surjection
  <2>3. QED
    BY <2>2 DEF ExistsBijection, Bijection
<1>5. IsFiniteSet(P) /\ Cardinality(P) = Cardinality(R[x])
  BY <1>1, <1>4, FS_Bijection
<1>6. P \cap Q = {} /\ Counted(s, E, R) = P \cup Q
  BY DEF Counted
<1>7. Cardinality(Counted(s, E, R)) = Cardinality(P) + Cardinality(Q) - Cardinality({})
  BY <1>3, <1>5, <1>6, FS_Union
<1>8. QED
  BY <1>1, <1>3, <1>5, <1>7, FS_EmptySet, FS_CardinalityType

(* The sum of the counts of the rows is the number of things the rows count. *)
LEMMA SumOfCounts ==
  ASSUME NEW S, IsFiniteSet(S), NEW E, IsFiniteSet(E), NEW R \in [S -> SUBSET E]
  PROVE  SumFunction([d \in S |-> Cardinality(R[d])]) = Cardinality(Counted(S, E, R))
<1> DEFINE f == [d \in S |-> Cardinality(R[d])]
           g == [s \in SUBSET S |-> Cardinality(Counted(s, E, R))]
<1>1. IsSum(g, f, S)
  <2>1. g[{}] = 0
    <3>1. Counted({}, E, R) = {}
      BY DEF Counted
    <3>2. QED
      BY <3>1, FS_EmptySet
  <2>2. ASSUME NEW s \in SUBSET S, s # {}, NEW x, x = CHOOSE y \in s : TRUE
        PROVE  g[s] = f[x] + g[s \ {x}]
    <3>1. x \in s
      BY <2>2
    <3>2. Cardinality(Counted(s, E, R)) = Cardinality(R[x]) + Cardinality(Counted(s \ {x}, E, R))
      BY <3>1, CountedInARow
    <3>3. QED
      BY <3>1, <3>2
  <2>3. QED
    BY <2>1, <2>2 DEF IsSum
<1>2. SumFunction(f) = g[S]
  <2>1. SumFunction(f) = (CHOOSE h : IsSum(h, f, S))[S]
    BY SumIsFold
  <2> HIDE DEF f, g
  <2>2. QED
    BY <1>1, <2>1, OneSum
<1>3. QED
  BY <1>2

(* Rows that count everything add up to no less; to exactly that when each     *)
(* thing is counted once.                                                     *)
LEMMA RowsCover ==
  ASSUME NEW S, IsFiniteSet(S), NEW E, IsFiniteSet(E), NEW R \in [S -> SUBSET E],
         \A e \in E : \E d \in S : e \in R[d]
  PROVE  /\ Cardinality(E) <= SumFunction([d \in S |-> Cardinality(R[d])])
         /\ (\A e \in E, c, d \in S : e \in R[c] /\ e \in R[d] => c = d)
              => SumFunction([d \in S |-> Cardinality(R[d])]) = Cardinality(E)
<1> DEFINE P == Counted(S, E, R)
           thing == [p \in P |-> p[2]]
<1>1. SumFunction([d \in S |-> Cardinality(R[d])]) = Cardinality(P)
  BY SumOfCounts
<1>2. IsFiniteSet(P)
  BY FS_Product, FS_Subset DEF Counted
<1>3. thing \in Surjection(P, E)
  <2>1. thing \in [P -> E]
    BY DEF Counted
  <2>2. ASSUME NEW e \in E PROVE \E p \in P : thing[p] = e
    <3>1. PICK d \in S : e \in R[d]
      OBVIOUS
    <3>2. <<d, e>> \in P
      BY <3>1 DEF Counted
    <3>3. thing[<<d, e>>] = e
      BY <3>2
    <3>4. QED
      BY <3>2, <3>3
  <2>3. QED
    BY <2>1, <2>2 DEF Surjection
<1>4. Cardinality(E) <= Cardinality(P)
      /\ (Cardinality(E) = Cardinality(P) <=> thing \in Injection(P, E))
  <2> HIDE DEF P, thing
  <2> QED
    BY <1>2, <1>3, FS_Surjection
<1>5. ASSUME \A e \in E, c, d \in S : e \in R[c] /\ e \in R[d] => c = d
      PROVE  thing \in Injection(P, E)
  <2>1. ASSUME NEW p \in P, NEW q \in P, thing[p] = thing[q] PROVE p = q
    <3>1. p = <<p[1], p[2]>> /\ q = <<q[1], q[2]>> /\ p[1] \in S /\ q[1] \in S /\ p[2] \in E
          /\ p[2] \in R[p[1]] /\ q[2] \in R[q[1]]
      BY DEF Counted
    <3>2. p[2] = q[2]
      BY <2>1
    <3>3. p[1] = q[1]
      BY <1>5, <3>1, <3>2
    <3>4. QED
      BY <3>1, <3>2, <3>3
  <2>2. QED
    BY <1>3, <2>1 DEF Injection, IsInjective, Surjection
<1>6. QED
  BY <1>1, <1>4, <1>5

(* The counts and the sums of the reports are those of the lemmas. *)
LEMMA SameCount == ASSUME NEW S PROVE TheReports!Cardinality(S) = Cardinality(S)
BY DEF Cardinality, TheReports!Cardinality

LEMMA SameSum == ASSUME NEW f PROVE TheReports!SumFunction(f) = SumFunction(f)
BY DEF SumFunction, SumFunctionOnSet, FoldFunctionOnSet, MapThenFoldSet,
       TheReports!SumFunction, TheReports!SumFunctionOnSet, TheReports!FoldFunctionOnSet,
       TheReports!MapThenFoldSet

(* The day of an instant, counted from any midnight m: an instant is in a day   *)
(* when it is not before its midnight and before the next.                     *)
LEMMA DayOfInstant ==
  ASSUME NEW D \in Nat \ {0}, NEW m \in Int, NEW t \in Int, NEW a \in Int, NEW b \in Int
  PROVE  /\ (t - m) \div D \in Int
         /\ a * D + m <= t => a <= (t - m) \div D
         /\ t < (b + 1) * D + m => (t - m) \div D <= b
         /\ t < ((t - m) \div D + 1) * D + m
<1> DEFINE n == t - m
           q == n \div D
           r == n % D
<1>1. n \in Int /\ q \in Int /\ r \in 0..(D - 1)
  OBVIOUS
<1>2. n = D * q + r
  BY <1>1
<1> HIDE DEF q, r
<1>3. ASSUME NEW i \in Int, NEW j \in Int, i < j PROVE D * i + D <= j * D
  <2>1. D * (j - i) >= D
    BY <1>3
  <2>2. D * (j - i) = j * D - D * i
    OBVIOUS
  <2>3. QED
    BY <2>1, <2>2
<1>4. ASSUME a * D + m <= t PROVE a <= q
  <2>1. ASSUME q < a PROVE FALSE
    <3>1. D * q + D <= a * D
      BY <1>1, <1>3, <2>1
    <3>2. QED
      BY <1>1, <1>2, <1>4, <3>1
  <2>2. QED
    BY <1>1, <2>1
<1>5. ASSUME t < (b + 1) * D + m PROVE q <= b
  <2>1. ASSUME b < q PROVE FALSE
    <3>1. CASE b + 1 < q
      <4>1. D * (b + 1) + D <= q * D
        BY <1>1, <1>3, <3>1
      <4>2. D * (b + 1) = (b + 1) * D /\ q * D = D * q
        BY <1>1
      <4>3. QED
        BY <1>1, <1>2, <1>5, <4>1, <4>2
    <3>2. CASE b + 1 = q
      <4>1. (b + 1) * D = D * q
        BY <1>1, <3>2
      <4>2. QED
        BY <1>1, <1>2, <1>5, <4>1
    <3>3. QED
      BY <1>1, <2>1, <3>1, <3>2
  <2>2. QED
    BY <1>1, <2>1
<1>6. t < (q + 1) * D + m
  <2>1. (q + 1) * D = D * q + D
    BY <1>1
  <2>2. QED
    BY <1>1, <1>2, <2>1
<1>7. QED
  BY <1>1, <1>4, <1>5, <1>6 DEF q

(* A student who boards is known: only a denial is of a card of nobody. *)
Identified ==
  /\ IsFiniteSet(events)
  /\ \A e \in events : e.student = None => e.type = "DENIED"
ReportsInv == TheReports!TypeOK /\ Identified

LEMMA ReportsInvariant == TheReports!Spec => []ReportsInv
<1>1. TheReports!Init => Identified
  BY FS_EmptySet DEF TheReports!Init, Identified
<1>2. TheReports!TypeOK /\ Identified /\ [TheReports!Next]_(TheReports!vars) => Identified'
  <2> SUFFICES ASSUME TheReports!TypeOK, Identified, [TheReports!Next]_(TheReports!vars)
               PROVE  Identified'
    OBVIOUS
  <2>1. ASSUME NEW type \in TheReports!Types, NEW s \in Riders \cup {None},
               NEW t \in 0 .. Horizon, TheReports!Record(type, s, t)
        PROVE  Identified'
    <3> DEFINE new == [type |-> type, student |-> s, time |-> t]
    <3>1. events' = events \cup {new} /\ (s = None => type = "DENIED")
      BY <2>1 DEF TheReports!Record
    <3>2. IsFiniteSet(events')
      <4> HIDE DEF new
      <4> QED
        BY <3>1, FS_AddElement DEF Identified
    <3>3. QED
      BY <3>1, <3>2 DEF Identified
  <2>2. ASSUME UNCHANGED events
        PROVE  Identified'
    BY <2>2 DEF Identified
  <2>3. QED
    BY <2>1, <2>2
    DEF TheReports!Next, TheReports!vars, TheReports!MoveStudent, TheReports!DeactivateStudent,
        TheReports!MoveDevice
<1>3. QED
  BY <1>1, <1>2, ReportsTypeCorrect, PTL DEF TheReports!Spec, ReportsInv

(* What the reports read: a finite log of events at instants. *)
LEMMA LogFacts ==
  ASSUME ReportsInv
  PROVE  /\ IsFiniteSet(events)
         /\ \A e \in events : e.time \in Int /\ e.student \in Riders \cup {None}
         /\ \A s \in Riders : place[s].group \in Groups /\ place[s].routes \subseteq Routes
         /\ deviceBus \in Buses \cup {None}
<1>1. (CHOOSE g \in Groups : TRUE) \in Groups /\ (CHOOSE r \in Routes : TRUE) \in Routes
  BY ReportsAssumption
<1>2. \A p \in Places : p.group \in Groups /\ p.routes \subseteq Routes
  BY <1>1 DEF Places
<1>3. QED
  BY <1>2 DEF ReportsInv, Identified, TheReports!TypeOK

(* The query of a report. *)
LEMMA FilterFacts ==
  ASSUME ReportsInv, NEW f \in TheReports!Filters
  PROVE  /\ f.from \in Int /\ f.to \in Int
         /\ f.group \in Groups \cup {None} /\ f.route \in Routes \cup {None}
         /\ IsFiniteSet(TheReports!Scope(f)) /\ IsFiniteSet(TheReports!Bars(f))
         /\ IsFiniteSet(TheReports!GroupRows(f)) /\ IsFiniteSet(TheReports!RouteRows(f))
<1>1. f.from \in Int /\ f.to \in Int /\ f.group \in Groups \cup {None}
      /\ f.route \in Routes \cup {None}
  BY DEF TheReports!Filters, TheReports!Days
<1>2. IsFiniteSet(TheReports!Scope(f))
  BY ReportsAssumption, FS_Subset DEF TheReports!Scope
<1>3. IsFiniteSet(TheReports!Bars(f))
  BY <1>1, FS_Interval DEF TheReports!Bars
<1>4. IsFiniteSet(TheReports!GroupRows(f)) /\ IsFiniteSet(TheReports!RouteRows(f))
  BY ReportsAssumption, FS_Singleton DEF TheReports!GroupRows, TheReports!RouteRows
<1>5. QED
  BY <1>1, <1>2, <1>3, <1>4

(* A chart adds up to the boardings it is drawn from, when the midnights of its *)
(* bars are those of the period.                                               *)
LEMMA ChartAddsUp ==
  ASSUME ReportsInv, Zone = Fixed, NEW f \in TheReports!Filters, NEW E \in SUBSET events,
         \A e \in E : TheReports!InPeriod(e, f)
  PROVE  /\ TheReports!ChartTotal(E, f) = Cardinality(TheReports!Boardings(E))
         /\ IsFiniteSet(TheReports!Boardings(E))
<1> DEFINE B == TheReports!Boardings(E)
           S == TheReports!Bars(f)
           R == [d \in S |-> {e \in B : TheReports!DateKey(e.time) = d}]
<1>1. IsFiniteSet(B)
  BY LogFacts, FS_Subset DEF TheReports!Boardings
<1>2. \A e \in B : TheReports!DateKey(e.time) \in S
  <2> SUFFICES ASSUME NEW e \in B PROVE TheReports!DateKey(e.time) \in S
    OBVIOUS
  <2>1. e \in E /\ e.time \in Int
    BY LogFacts DEF TheReports!Boardings
  <2>2. f.from * DayLength + Zone <= e.time /\ e.time < (f.to + 1) * DayLength + Zone
    BY <2>1, FilterFacts, ReportsAssumption DEF TheReports!InPeriod
  <2>3. f.from \in Int /\ f.to \in Int
    BY FilterFacts
  <2>4. LET day == (e.time - Zone) \div DayLength
        IN  day \in Int /\ f.from <= day /\ day <= f.to
    BY <2>1, <2>2, <2>3, ReportsAssumption, DayOfInstant
  <2>5. QED
    BY <2>3, <2>4 DEF TheReports!DateKey, TheReports!Bars
<1>3. R \in [S -> SUBSET B]
  OBVIOUS
<1>4. IsFiniteSet(S)
  BY FilterFacts
<1>5. \A e \in B : \E d \in S : e \in R[d]
  BY <1>2
<1>6. \A e \in B, c, d \in S : e \in R[c] /\ e \in R[d] => c = d
  OBVIOUS
<1>7. SumFunction([d \in S |-> Cardinality(R[d])]) = Cardinality(B)
  <2> HIDE DEF B, S, R
  <2> QED
    BY <1>1, <1>3, <1>4, <1>5, <1>6, RowsCover
<1>8. TheReports!ChartTotal(E, f) = SumFunction([d \in S |-> Cardinality(R[d])])
  <2>1. ASSUME NEW d \in S PROVE TheReports!Bar(B, d) = Cardinality(R[d])
    BY SameCount DEF TheReports!Bar
  <2>2. [d \in S |-> TheReports!Bar(B, d)] = [d \in S |-> Cardinality(R[d])]
    BY <2>1
  <2>3. QED
    BY <2>2, SameSum DEF TheReports!ChartTotal
<1>9. QED
  BY <1>1, <1>7, <1>8

(* Rows of boardings that have them all add up to no less; to exactly that when *)
(* each boarding is in one row.                                                *)
LEMMA RowsAddUp ==
  ASSUME NEW S, IsFiniteSet(S), NEW B, IsFiniteSet(B), NEW R \in [S -> SUBSET B],
         \A e \in B : \E d \in S : e \in R[d],
         NEW counts, counts = [d \in S |-> TheReports!Cardinality(R[d])]
  PROVE  /\ Cardinality(B) <= TheReports!SumFunction(counts)
         /\ (\A e \in B, c, d \in S : e \in R[c] /\ e \in R[d] => c = d)
              => TheReports!SumFunction(counts) = Cardinality(B)
<1>1. counts = [d \in S |-> Cardinality(R[d])]
  BY SameCount
<1>2. QED
  BY <1>1, RowsCover, SameSum

(* The boardings of known students in scope, and the totals of the reports of   *)
(* students and groups.                                                        *)
LEMMA StudentsAddUp ==
  ASSUME ReportsInv, NEW f \in TheReports!Filters
  PROVE  TheReports!StudentsTotal(f) = Cardinality(TheReports!Boardings(TheReports!StudentEvents(f)))
<1> DEFINE B == TheReports!Boardings(TheReports!StudentEvents(f))
           S == TheReports!Scope(f)
           R == [s \in S |-> TheReports!StudentRow(s, f)]
           counts == [s \in S |-> TheReports!Cardinality(TheReports!StudentRow(s, f))]
<1>1. IsFiniteSet(S) /\ IsFiniteSet(B)
  BY FilterFacts, LogFacts, FS_Subset DEF TheReports!Boardings, TheReports!StudentEvents
<1>2. R \in [S -> SUBSET B] /\ (\A e \in B : \E s \in S : e \in R[s])
      /\ (\A e \in B, c, d \in S : e \in R[c] /\ e \in R[d] => c = d)
  BY DEF TheReports!StudentRow, TheReports!Boardings, TheReports!StudentEvents
<1>3. counts = [s \in S |-> TheReports!Cardinality(R[s])]
  OBVIOUS
<1>4. TheReports!SumFunction(counts) = Cardinality(B)
  <2> HIDE DEF B, S, R, counts
  <2> QED
    BY <1>1, <1>2, <1>3, RowsAddUp
<1>5. QED
  BY <1>4 DEF TheReports!StudentsTotal

LEMMA GroupsAddUp ==
  ASSUME ReportsInv, NEW f \in TheReports!Filters
  PROVE  TheReports!GroupsTotal(f) = Cardinality(TheReports!Boardings(TheReports!StudentEvents(f)))
<1> DEFINE B == TheReports!Boardings(TheReports!StudentEvents(f))
           S == TheReports!GroupRows(f)
           R == [g \in S |-> TheReports!GroupRow(g, f)]
           counts == [g \in S |-> TheReports!Cardinality(TheReports!GroupRow(g, f))]
<1>1. IsFiniteSet(S) /\ IsFiniteSet(B)
  BY FilterFacts, LogFacts, FS_Subset DEF TheReports!Boardings, TheReports!StudentEvents
<1>2. \A e \in B : place[e.student].group \in S
  BY LogFacts
  DEF TheReports!Boardings, TheReports!StudentEvents, TheReports!Scope, TheReports!InScope,
      TheReports!GroupRows
<1>3. R \in [S -> SUBSET B] /\ (\A e \in B : \E g \in S : e \in R[g])
      /\ (\A e \in B, c, d \in S : e \in R[c] /\ e \in R[d] => c = d)
  BY <1>2 DEF TheReports!GroupRow, TheReports!Boardings
<1>4. counts = [s \in S |-> TheReports!Cardinality(R[s])]
  OBVIOUS
<1>5. TheReports!SumFunction(counts) = Cardinality(B)
  <2> HIDE DEF B, S, R, counts
  <2> QED
    BY <1>1, <1>3, <1>4, RowsAddUp
<1>6. QED
  BY <1>5 DEF TheReports!GroupsTotal

(* An event is in a row for each route of its student, so the rows may add up   *)
(* to more than the events.                                                    *)
LEMMA RoutesAddUp ==
  ASSUME ReportsInv, NEW f \in TheReports!Filters
  PROVE  Cardinality(TheReports!Boardings(TheReports!OfRoutes(f))) <= TheReports!RoutesTotal(f)
<1> DEFINE B == TheReports!Boardings(TheReports!OfRoutes(f))
           S == TheReports!RouteRows(f)
           R == [r \in S |-> TheReports!RouteRow(r, f)]
           counts == [r \in S |-> TheReports!Cardinality(TheReports!RouteRow(r, f))]
<1>1. IsFiniteSet(S) /\ IsFiniteSet(B)
  BY FilterFacts, LogFacts, FS_Subset
  DEF TheReports!Boardings, TheReports!OfRoutes, TheReports!StudentEvents
<1>2. R \in [S -> SUBSET B] /\ (\A e \in B : \E r \in S : e \in R[r])
  BY DEF TheReports!RouteRow, TheReports!Boardings, TheReports!OfRoutes
<1>3. counts = [s \in S |-> TheReports!Cardinality(R[s])]
  OBVIOUS
<1>4. Cardinality(B) <= TheReports!SumFunction(counts)
  <2> HIDE DEF B, S, R, counts
  <2> QED
    BY <1>1, <1>2, <1>3, RowsAddUp
<1>5. QED
  BY <1>4 DEF TheReports!RoutesTotal

(* The rows of the buses: all events are on the bus of the reader.              *)
LEMMA FleetAddsUp ==
  ASSUME ReportsInv, NEW f \in TheReports!Filters
  PROVE  TheReports!FleetTotal(f)
           = IF deviceBus = None THEN 0
             ELSE Cardinality(TheReports!Boardings(TheReports!BoardingEvents(f)))
<1> DEFINE B == TheReports!Boardings(TheReports!FleetEvents(f))
           R == [b \in Buses |-> TheReports!FleetRow(b, f)]
           counts == [b \in Buses |-> TheReports!Cardinality(TheReports!FleetRow(b, f))]
<1>1. IsFiniteSet(Buses) /\ IsFiniteSet(B)
  BY ReportsAssumption, LogFacts, FS_Subset
  DEF TheReports!Boardings, TheReports!FleetEvents, TheReports!BoardingEvents
<1>2. R \in [Buses -> SUBSET B] /\ (\A e \in B : \E b \in Buses : e \in R[b])
      /\ (\A e \in B, c, d \in Buses : e \in R[c] /\ e \in R[d] => c = d)
  BY LogFacts DEF TheReports!FleetRow, TheReports!FleetEvents, TheReports!Boardings
<1>3. counts = [s \in Buses |-> TheReports!Cardinality(R[s])]
  OBVIOUS
<1>4. TheReports!SumFunction(counts) = Cardinality(B)
  <2> HIDE DEF B, R, counts
  <2> QED
    BY <1>1, <1>2, <1>3, RowsAddUp
<1>5. B = IF deviceBus = None THEN {} ELSE TheReports!Boardings(TheReports!BoardingEvents(f))
  BY DEF TheReports!FleetEvents, TheReports!Boardings
<1>6. QED
  BY <1>4, <1>5, FS_EmptySet DEF TheReports!FleetTotal

(* The log ends with the day of its last instant, so what was read since the    *)
(* midnight of that day is what was read on it.                                *)
LEMMA ChangeIsOfTheChart ==
  ASSUME ReportsInv
  PROVE  LET today == TheReports!Today
         IN  TheReports!Change = TheReports!ChartPoint(today) - TheReports!ChartPoint(today - 1)
<1> DEFINE today == TheReports!Today
           B == TheReports!Boardings(events)
           On(d) == {e \in B : e.time \in TheReports!Midnight(d)..(TheReports!Midnight(d + 1) - 1)}
<1>1. today \in Int /\ Horizon < (today + 1) * DayLength + Local
  BY ReportsAssumption, DayOfInstant DEF TheReports!Today
<1>2. \A e \in B : e.time \in Int /\ e.time <= Horizon
  BY DEF TheReports!Boardings, ReportsInv, TheReports!TypeOK
<1>3. ASSUME NEW d \in Int
      PROVE  /\ TheReports!Midnight(d) \in Int
             /\ TheReports!Midnight(d + 1) = TheReports!Midnight(d) + DayLength
  <2>1. (d + 1) * DayLength = d * DayLength + DayLength /\ d * DayLength \in Int
    BY ReportsAssumption
  <2>2. QED
    BY <2>1, ReportsAssumption DEF TheReports!Midnight
<1>4. TheReports!ReadsSince(today) = On(today)
  <2>1. TheReports!Midnight(today) \in Int /\ TheReports!Midnight(today + 1) \in Int
        /\ Horizon < TheReports!Midnight(today + 1)
    BY <1>1, <1>3, ReportsAssumption DEF TheReports!Midnight
  <2> HIDE DEF today, B
  <2>2. QED
    BY <1>2, <2>1, ReportsAssumption DEF TheReports!ReadsSince, B
<1>5. TheReports!ReadsOn(today - 1) = On(today - 1)
  <2>1. today - 1 \in Int
    BY <1>1
  <2>2. /\ TheReports!Midnight(today - 1) \in Int
        /\ TheReports!Midnight((today - 1) + 1) = TheReports!Midnight(today - 1) + DayLength
    BY <1>3, <2>1
  <2> HIDE DEF today
  <2>3. QED
    BY <1>2, <2>2, ReportsAssumption DEF TheReports!ReadsOn, TheReports!ReadsSince
<1>6. QED
  BY <1>4, <1>5 DEF TheReports!Change, TheReports!ChartPoint

(* In every state the five reports tell one story of any query. *)
LEMMA OneStory ==
  ASSUME ReportsInv, Zone = Fixed
  PROVE  TheReports!ReportsAgree
<1>1. TheReports!Change
        = TheReports!ChartPoint(TheReports!Today) - TheReports!ChartPoint(TheReports!Today - 1)
  BY ChangeIsOfTheChart
<1> SUFFICES ASSUME NEW f \in TheReports!Filters
             PROVE  /\ TheReports!ChartTotal(TheReports!BoardingEvents(f), f)
                         = Cardinality(TheReports!Boardings(TheReports!BoardingEvents(f)))
                    /\ TheReports!ChartTotal(TheReports!StudentEvents(f), f)
                         = TheReports!StudentsTotal(f)
                    /\ TheReports!StudentsTotal(f)
                         = Cardinality(TheReports!Boardings(TheReports!BoardingEvents(f)))
                    /\ TheReports!GroupsTotal(f) = TheReports!StudentsTotal(f)
                    /\ TheReports!ChartTotal(TheReports!OfRoutes(f), f)
                         <= TheReports!RoutesTotal(f)
                    /\ (f.route = None /\ \A s \in Riders : place[s].routes # {})
                         => TheReports!ChartTotal(TheReports!OfRoutes(f), f)
                              = TheReports!StudentsTotal(f)
                    /\ TheReports!FleetTotal(f)
                         = IF deviceBus = None THEN 0
                           ELSE Cardinality(TheReports!Boardings(TheReports!BoardingEvents(f)))
  BY <1>1, SameCount DEF TheReports!ReportsAgree
<1>2. TheReports!ChartTotal(TheReports!BoardingEvents(f), f)
        = Cardinality(TheReports!Boardings(TheReports!BoardingEvents(f)))
  <2>1. TheReports!BoardingEvents(f) \subseteq events
        /\ \A e \in TheReports!BoardingEvents(f) : TheReports!InPeriod(e, f)
    BY DEF TheReports!BoardingEvents
  <2>2. QED
    BY <2>1, ChartAddsUp
<1>3. TheReports!ChartTotal(TheReports!StudentEvents(f), f)
        = Cardinality(TheReports!Boardings(TheReports!StudentEvents(f)))
  <2>1. TheReports!StudentEvents(f) \subseteq events
        /\ \A e \in TheReports!StudentEvents(f) : TheReports!InPeriod(e, f)
    BY DEF TheReports!StudentEvents
  <2>2. QED
    BY <2>1, ChartAddsUp
<1>4. TheReports!ChartTotal(TheReports!OfRoutes(f), f)
        = Cardinality(TheReports!Boardings(TheReports!OfRoutes(f)))
  <2>1. TheReports!OfRoutes(f) \subseteq events
        /\ \A e \in TheReports!OfRoutes(f) : TheReports!InPeriod(e, f)
    BY DEF TheReports!OfRoutes, TheReports!StudentEvents
  <2>2. QED
    BY <2>1, ChartAddsUp
(* Without a filter of the student every known student is in scope, and who     *)
(* boards is known.                                                            *)
<1>5. TheReports!Boardings(TheReports!StudentEvents(f))
        = TheReports!Boardings(TheReports!BoardingEvents(f))
  <2>1. ~TheReports!Scoped(f) => TheReports!Scope(f) = Riders
    BY DEF TheReports!Scoped, TheReports!Scope, TheReports!InScope
  <2>2. \A e \in events : e.type = "BOARDING" => e.student \in Riders
    BY LogFacts DEF ReportsInv, Identified
  <2>3. QED
    BY <2>1, <2>2
    DEF TheReports!StudentEvents, TheReports!BoardingEvents, TheReports!Boardings
<1>6. ASSUME f.route = None, \A s \in Riders : place[s].routes # {}
      PROVE  TheReports!OfRoutes(f) = TheReports!StudentEvents(f)
  <2>1. TheReports!RouteRows(f) = Routes
    BY <1>6 DEF TheReports!RouteRows
  <2>2. \A e \in TheReports!StudentEvents(f) : e.student \in Riders
    BY DEF TheReports!StudentEvents, TheReports!Scope
  <2>3. QED
    BY <1>6, <2>1, <2>2, LogFacts DEF TheReports!OfRoutes
<1>7. QED
  BY <1>2, <1>3, <1>4, <1>5, <1>6, StudentsAddUp, GroupsAddUp, RoutesAddUp, FleetAddsUp

(* The five reports tell one story of a query, for any log, company, horizon   *)
(* and length of the day, while the days of APP_TIMEZONE begin at midnight of   *)
(* -03:00, as with its default.  The process may run in any zone.              *)
THEOREM ReportsTellOneStory ==
  ASSUME Zone = Fixed
  PROVE  ManagementSpec => []ReportsAgree
<1>1. ReportsInv => ReportsAgree
  BY OneStory DEF ReportsAgree
<1>2. TheReports!Spec => []ReportsAgree
  BY <1>1, ReportsInvariant, PTL
<1>3. QED
  BY <1>2, ManagementIsItsParts, PTL

-----------------------------------------------------------------------------
(* Every variable of the component that steps keeps its type. *)
THEOREM ManagementTypeCorrect == ManagementSpec => []ManagementTypeOK
<1>1. LocationTypeOK /\ SchedulesTypeOK /\ RosterTypeOK /\ PlanTypeOK /\ SettingsTypeOK
      /\ TheReports!TypeOK /\ PageTypeOK /\ ListTypeOK /\ DialogTypeOK => ManagementTypeOK
  BY Zenon DEF ManagementTypeOK
<1>2. QED
  BY <1>1, ManagementIsItsParts, LocationTypeCorrect, SchedulesTypeCorrect, RosterTypeCorrect,
     PlanTypeCorrect, SettingsTypeCorrect, ReportsTypeCorrect, PageTypeCorrect,
     ListTypeCorrect, DialogTypeCorrect, PTL

(* What the run checks of the whole, for every value of the constants: the      *)
(* slots as long as no two requests are about to write one, the places as long  *)
(* as no two are about one student, and the reports while the days of           *)
(* APP_TIMEZONE begin at midnight of -03:00.                                    *)
THEOREM ManagementIsSafe ==
  ManagementSpec =>
    /\ [](TrailIsOneDrive /\ NoticeExact)
    /\ []OneRequestASlot => []NoSharedSlot
    /\ [](DeactivatedStays /\ PendingKept /\ ReviewedByPlatform)
    /\ [](ShowsWhatIsSaved /\ ShowsItsQuery /\ OneOpening /\ SavedIsListed)
    /\ []OneEditAStudent => NoNewcomers
    /\ Zone = Fixed => []ReportsAgree
<1>1. ManagementSpec => [](TrailIsOneDrive /\ NoticeExact)
  BY ManagementIsItsParts, OneDrive, NoticesAreExact, PTL
<1>2. ManagementSpec => ([]OneRequestASlot => []NoSharedSlot)
  BY ManagementIsItsParts, SlotsAreApart, PTL
<1>3. ManagementSpec => [](DeactivatedStays /\ PendingKept /\ ReviewedByPlatform)
  BY ManagementIsItsParts, DeactivationLasts, StaysPending, ReviewIsOfThePlatform, PTL
<1>4. ManagementSpec => [](ShowsWhatIsSaved /\ ShowsItsQuery /\ OneOpening /\ SavedIsListed)
  BY ManagementIsItsParts, RestingPageShowsOverview, PageShowsItsQuery,
     DialogIsAboutOneOpening, SavedRowsAreListed, PTL
<1>5. ManagementSpec => ([]OneEditAStudent => NoNewcomers)
  BY ManagementIsItsParts, NobodyMovesToTheSealed
<1>6. Zone = Fixed => (ManagementSpec => []ReportsAgree)
  BY ReportsTellOneStory
<1>7. QED
  BY <1>1, <1>2, <1>3, <1>4, <1>5, <1>6
=============================================================================
