--------------------------- MODULE ReferenceProofs ---------------------------
(***************************************************************************)
(* Theorems of ReferenceChecks and ReferenceCompletion, for any objects,   *)
(* any things on the platform and any number of changes during a check.    *)
(*                                                                         *)
(* The chains of each kind of object are brought into one form, ordered    *)
(* chains of checks; what the steps do to them gives the type invariant,   *)
(* then that projects come first and that no check is forgotten.           *)
(*                                                                         *)
(* For valid objects, diagnostics, completion and hover read a reference   *)
(* alike: the checks of an object are listed (CheckTable), each is fitted  *)
(* to the row of the table of references that completion and hover use     *)
(* (TableFits), and each row has its check (ReferencesChecked).            *)
(***************************************************************************)
EXTENDS ReferenceChecks, ReferenceCompletion, SequenceLemmas, FiniteSetTheorems, TLAPS

-----------------------------------------------------------------------------
(* Counts, and the chains of each kind of object.                           *)

\* Lists have a number of elements: an object has finitely many fields.
LEMMA CountsAreNumbers ==
  ASSUME NEW o, IsFiniteSet(DOMAIN o.fields), NEW fields
  PROVE  /\ CountOuter(o, fields) \in Nat
         /\ \A prefix : Count(o, fields, prefix) \in Nat
<1>1. ASSUME NEW prefix
      PROVE  Count(o, fields, prefix) \in Nat
  <2> DEFINE Q == {q \in DOMAIN o.fields :
                     /\ q[1] \in fields
                     /\ Len(q[2]) > Len(prefix)
                     /\ SubSeq(q[2], 1, Len(prefix)) = prefix}
             T == {path[2] : path \in Q}
             f == [path \in Q |-> path[2]]
  <2>1. IsFiniteSet(Q)
    BY FS_Subset
  <2>2. Count(o, fields, prefix) = Cardinality(T)
    BY Zenon DEF Count
  <2> HIDE DEF Q
  <2>3. f \in Surjection(Q, T)
    BY DEF Surjection
  <2>4. Cardinality(T) \in Nat
    BY <2>1, <2>3, FS_Surjection, FS_CardinalityType
  <2>5. QED
    BY <2>2, <2>4
<1>2. CountOuter(o, fields) \in Nat
  <2> DEFINE Q == {q \in DOMAIN o.fields : q[1] \in fields}
             T == {path[2][1] : path \in Q}
             f == [path \in Q |-> path[2][1]]
  <2>1. IsFiniteSet(Q)
    BY FS_Subset
  <2>2. CountOuter(o, fields) = Cardinality(T)
    BY Zenon DEF CountOuter
  <2> HIDE DEF Q
  <2>3. f \in Surjection(Q, T)
    BY DEF Surjection
  <2>4. Cardinality(T) \in Nat
    BY <2>1, <2>3, FS_Surjection, FS_CardinalityType
  <2>5. QED
    BY <2>2, <2>4
<1>3. QED
  BY <1>1, <1>2

EachChain(o, field, kind, project) ==
  {<<Check(o, <<field, <<i>>>>, kind, project)>> : i \in 1..Count(o, {field}, <<>>)}

LocatedChains(o, projectField, nameField, kind, default) ==
  {Located(o, projectField, nameField, <<i>>, kind, default) :
     i \in 1..Count(o, {projectField, nameField}, <<>>)}

ComponentChain(o, i, j) ==
  Append(Located(o, ComponentProject, ComponentSLO, <<i, j>>, "SLO", Empty),
         ObjectiveCheck(o, <<ComponentObjective, <<i, j>>>>,
                        Field(o, <<ComponentSLO, <<i, j>>>>),
                        Field(o, <<ComponentProject, <<i, j>>>>)))

ComponentChains(o) ==
  UNION {{ComponentChain(o, i, j) : j \in 1..Count(o, ComponentFields, <<i>>)} :
           i \in 1..CountOuter(o, ComponentFields)}

ChainSet(o) ==
  CASE o.kind = "SLO" ->
         {<<Check(o, <<"spec.service", <<>>>>, "Service", OwnProject(o))>>}
         \union EachChain(o, "spec.alertPolicies[*]", "AlertPolicy", OwnProject(o))
         \union {Located(o, "spec.indicator.metricSource.project", SourceField, <<>>,
                         SourceKind(o), OwnProject(o))}
         \union LocatedChains(o, "spec.anomalyConfig.noData.alertMethods[*].project",
                              "spec.anomalyConfig.noData.alertMethods[*].name", "AlertMethod",
                              OwnProject(o))
         \union ComponentChains(o)
    [] o.kind = "AlertPolicy" ->
         LocatedChains(o, "spec.alertMethods[*].metadata.project",
                       "spec.alertMethods[*].metadata.name", "AlertMethod", OwnProject(o))
    [] o.kind = "AlertSilence" ->
         {Located(o, "spec.alertPolicy.project", "spec.alertPolicy.name", <<>>, "AlertPolicy",
                  OwnProject(o)),
          <<Check(o, <<"spec.slo", <<>>>>, "SLO", OwnProject(o))>>}
    [] o.kind = "Annotation" ->
         {<<Check(o, <<"spec.slo", <<>>>>, "SLO", OwnProject(o)),
            ObjectiveCheck(o, <<"spec.objectiveName", <<>>>>, Field(o, <<"spec.slo", <<>>>>),
                           OwnProject(o))>>}
    [] o.kind = "BudgetAdjustment" ->
         LocatedChains(o, "spec.filters.slos[*].project", "spec.filters.slos[*].name", "SLO", Empty)
    [] o.kind = "Report" ->
         LocatedChains(o, "spec.filters.services[*].project", "spec.filters.services[*].name",
                       "Service", Empty)
         \union LocatedChains(o, "spec.filters.slos[*].project", "spec.filters.slos[*].name",
                              "SLO", Empty)
    [] o.kind = "RoleBinding" ->
         {<<Check(o, <<"spec.roleRef", <<>>>>,
                  IF Field(o, <<"spec.projectRef", <<>>>>) # Empty
                  THEN "ProjectRole" ELSE "OrganizationRole", Empty)>>,
          <<Check(o, <<"spec.projectRef", <<>>>>, "Project", Empty)>>,
          <<Check(o, <<"spec.groupRef", <<>>>>, "UserGroup",
                  Field(o, <<"spec.projectRef", <<>>>>))>>,
          <<Check(o, <<"spec.user", <<>>>>, "User", Empty)>>}
    [] o.kind = "UserGroup" -> EachChain(o, "spec.members[*].id", "User", Empty)
    [] OTHER -> {}

\* Each gives one chain for every element.
LEMMA EachElements ==
  ASSUME NEW o, IsFiniteSet(DOMAIN o.fields), NEW field, NEW kind, NEW project
  PROVE  /\ IsSequence(Each(o, field, kind, project))
         /\ ToSet(Each(o, field, kind, project)) = EachChain(o, field, kind, project)
<1> DEFINE n == Count(o, {field}, <<>>)
<1>1. n \in Nat
  BY CountsAreNumbers
<1>2. Each(o, field, kind, project) =
        [i \in 1..n |-> <<Check(o, <<field, <<i>>>>, kind, project)>>]
  BY DEF Each
<1> HIDE DEF n
<1>3. /\ Each(o, field, kind, project) = [i \in 1..n |-> Each(o, field, kind, project)[i]]
      /\ DOMAIN Each(o, field, kind, project) = 1..n
  BY <1>2
<1>4. IsSequence(Each(o, field, kind, project))
  BY <1>1, <1>3, SequenceByIndex
<1>5. QED
  BY <1>2, <1>3, <1>4 DEF EachChain, ToSet, n

\* EachLocated gives one chain for every element.
LEMMA EachLocatedElements ==
  ASSUME NEW o, IsFiniteSet(DOMAIN o.fields), NEW projectField, NEW nameField, NEW kind,
         NEW default
  PROVE  LET s == EachLocated(o, projectField, nameField, kind, default) IN
         /\ IsSequence(s)
         /\ ToSet(s) = LocatedChains(o, projectField, nameField, kind, default)
<1> DEFINE n == Count(o, {projectField, nameField}, <<>>)
           s == EachLocated(o, projectField, nameField, kind, default)
<1>1. n \in Nat
  BY CountsAreNumbers
<1>2. s = [i \in 1..n |-> Located(o, projectField, nameField, <<i>>, kind, default)]
  BY Zenon DEF EachLocated
<1>3. LocatedChains(o, projectField, nameField, kind, default) =
       {Located(o, projectField, nameField, <<i>>, kind, default) : i \in 1..n}
  BY Zenon DEF LocatedChains
<1> HIDE DEF n, s
<1>4. s = [i \in 1..n |-> s[i]] /\ DOMAIN s = 1..n
  BY <1>2
<1>5. IsSequence(s)
  BY <1>1, <1>4, SequenceByIndex
<1>6. ToSet(s) = LocatedChains(o, projectField, nameField, kind, default)
  BY <1>2, <1>3, <1>4 DEF ToSet
<1>7. QED
  BY <1>5, <1>6 DEF s

\* Composite gives one chain for every component of every objective.
LEMMA CompositeElements ==
  ASSUME NEW o, IsFiniteSet(DOMAIN o.fields)
  PROVE  IsSequence(Composite(o)) /\ ToSet(Composite(o)) = ComponentChains(o)
<1> DEFINE n == CountOuter(o, ComponentFields)
           m(i) == Count(o, ComponentFields, <<i>>)
           s == [i \in 1..n |-> [j \in 1..m(i) |-> ComponentChain(o, i, j)]]
<1>1. n \in Nat /\ \A i : m(i) \in Nat
  BY CountsAreNumbers
<1>2. Composite(o) = FlattenSeq(s)
  BY Zenon DEF Composite, ComponentChain
<1>3. ComponentChains(o) = UNION {{ComponentChain(o, i, j) : j \in 1..m(i)} : i \in 1..n}
  BY Zenon DEF ComponentChains
<1> HIDE DEF n, m
<1>4. s = [i \in 1..n |-> s[i]] /\ DOMAIN s = 1..n
  OBVIOUS
<1>5. IsSequence(s)
  BY <1>1, <1>4, SequenceByIndex
<1>6. ASSUME NEW i \in 1..n
      PROVE  IsSequence(s[i]) /\ ToSet(s[i]) = {ComponentChain(o, i, j) : j \in 1..m(i)}
  <2>1. s[i] = [j \in 1..m(i) |-> ComponentChain(o, i, j)]
    OBVIOUS
  <2> HIDE DEF s
  <2>2. s[i] = [j \in 1..m(i) |-> s[i][j]] /\ DOMAIN s[i] = 1..m(i)
    BY <2>1
  <2>3. IsSequence(s[i])
    BY <1>1, <2>2, SequenceByIndex
  <2>4. QED
    BY <2>1, <2>2, <2>3 DEF ToSet
<1> HIDE DEF s
<1>7. /\ IsSequence(FlattenSeq(s))
      /\ ToSet(FlattenSeq(s)) = UNION {ToSet(s[i]) : i \in 1..n}
  BY <1>4, <1>5, <1>6, FlattenElements
<1>8. QED
  BY <1>2, <1>3, <1>6, <1>7

\* The chains of an SLO, joined one after another.
LEMMA SLOElements ==
  ASSUME NEW o, IsFiniteSet(DOMAIN o.fields), o.kind = "SLO"
  PROVE  IsSequence(SLOChains(o)) /\ ToSet(SLOChains(o)) = ChainSet(o)
<1> DEFINE a == <<<<Check(o, <<"spec.service", <<>>>>, "Service", OwnProject(o))>>>>
           b == Each(o, "spec.alertPolicies[*]", "AlertPolicy", OwnProject(o))
           c == <<Located(o, "spec.indicator.metricSource.project", SourceField, <<>>,
                          SourceKind(o), OwnProject(o))>>
           d == EachLocated(o, "spec.anomalyConfig.noData.alertMethods[*].project",
                            "spec.anomalyConfig.noData.alertMethods[*].name", "AlertMethod",
                            OwnProject(o))
           e == Composite(o)
<1>1. SLOChains(o) = a \o b \o c \o d \o e
  BY Zenon DEF SLOChains
<1>2. /\ IsSequence(b)
      /\ ToSet(b) = EachChain(o, "spec.alertPolicies[*]", "AlertPolicy", OwnProject(o))
  BY EachElements, Zenon
<1>3. /\ IsSequence(d)
      /\ ToSet(d) = LocatedChains(o, "spec.anomalyConfig.noData.alertMethods[*].project",
                              "spec.anomalyConfig.noData.alertMethods[*].name", "AlertMethod",
                              OwnProject(o))
  BY EachLocatedElements, Zenon
<1>4. IsSequence(e) /\ ToSet(e) = ComponentChains(o)
  BY CompositeElements
<1>5. /\ IsSequence(a)
      /\ ToSet(a) = {<<Check(o, <<"spec.service", <<>>>>, "Service", OwnProject(o))>>}
  BY OneElement
<1>6. /\ IsSequence(c)
      /\ ToSet(c) = {Located(o, "spec.indicator.metricSource.project", SourceField, <<>>,
                             SourceKind(o), OwnProject(o))}
  BY OneElement
<1>7. ChainSet(o) = ToSet(a) \union ToSet(b) \union ToSet(c) \union ToSet(d) \union ToSet(e)
  BY <1>2, <1>3, <1>4, <1>5, <1>6, Zenon DEF ChainSet
<1> HIDE DEF a, b, c, d, e
<1>8. IsSequence(a \o b) /\ ToSet(a \o b) = ToSet(a) \union ToSet(b)
  BY <1>2, <1>5, ConcatElements
<1>9. /\ IsSequence(a \o b \o c)
      /\ ToSet(a \o b \o c) = ToSet(a) \union ToSet(b) \union ToSet(c)
  BY <1>6, <1>8, ConcatElements
<1>10. /\ IsSequence(a \o b \o c \o d)
       /\ ToSet(a \o b \o c \o d) = ToSet(a) \union ToSet(b) \union ToSet(c) \union ToSet(d)
  BY <1>3, <1>9, ConcatElements
<1>11. QED
  BY <1>1, <1>4, <1>7, <1>10, ConcatElements

\* The chains of a report.
LEMMA ReportElements ==
  ASSUME NEW o, IsFiniteSet(DOMAIN o.fields), o.kind = "Report"
  PROVE  IsSequence(ReportChains(o)) /\ ToSet(ReportChains(o)) = ChainSet(o)
<1> DEFINE a == EachLocated(o, "spec.filters.services[*].project",
                            "spec.filters.services[*].name", "Service", Empty)
           b == EachLocated(o, "spec.filters.slos[*].project", "spec.filters.slos[*].name",
                            "SLO", Empty)
<1>1. ReportChains(o) = a \o b
  BY Zenon DEF ReportChains
<1>2. /\ IsSequence(a)
      /\ ToSet(a) = LocatedChains(o, "spec.filters.services[*].project",
                                  "spec.filters.services[*].name", "Service", Empty)
  BY EachLocatedElements, Zenon
<1>3. /\ IsSequence(b)
      /\ ToSet(b) = LocatedChains(o, "spec.filters.slos[*].project",
                                  "spec.filters.slos[*].name", "SLO", Empty)
  BY EachLocatedElements, Zenon
<1>4. ChainSet(o) = ToSet(a) \union ToSet(b)
  BY <1>2, <1>3, Zenon DEF ChainSet
<1> HIDE DEF a, b
<1>5. QED
  BY <1>1, <1>2, <1>3, <1>4, ConcatElements

\* The sequences of chains of all kinds, by their elements.
LEMMA ChainElements ==
  ASSUME NEW o, IsFiniteSet(DOMAIN o.fields)
  PROVE  IsSequence(Chains(o)) /\ ToSet(Chains(o)) = ChainSet(o)
<1>1. CASE o.kind = "SLO"
  BY <1>1, SLOElements, Zenon DEF Chains
<1>2. CASE o.kind = "Report"
  <2>1. Chains(o) = ReportChains(o)
    BY <1>2, Zenon DEF Chains
  <2>2. QED
    BY <2>1, <1>2, ReportElements, Zenon
<1>3. CASE o.kind = "AlertPolicy"
  <2>1. Chains(o) = AlertPolicyChains(o)
    BY <1>3, Zenon DEF Chains
  <2>2. QED
    BY <2>1, <1>3, EachLocatedElements, Zenon DEF AlertPolicyChains, ChainSet
<1>4. CASE o.kind = "AlertSilence"
  <2>1. Chains(o) = AlertSilenceChains(o)
    BY <1>4, Zenon DEF Chains
  <2> DEFINE a == Located(o, "spec.alertPolicy.project", "spec.alertPolicy.name", <<>>,
                          "AlertPolicy", OwnProject(o))
             b == <<Check(o, <<"spec.slo", <<>>>>, "SLO", OwnProject(o))>>
  <2>2. AlertSilenceChains(o) = <<a, b>>
    BY Zenon DEF AlertSilenceChains
  <2>3. ChainSet(o) = {a, b}
    BY <1>4 DEF ChainSet
  <2> HIDE DEF a, b
  <2>4. QED
    BY <2>1, <2>2, <2>3, TwoElements
<1>5. CASE o.kind = "Annotation"
  <2>1. Chains(o) = AnnotationChains(o)
    BY <1>5, Zenon DEF Chains
  <2>2. QED
    BY <2>1, <1>5, OneElement, Zenon DEF AnnotationChains, ChainSet
<1>6. CASE o.kind = "BudgetAdjustment"
  <2>1. Chains(o) = BudgetAdjustmentChains(o)
    BY <1>6, Zenon DEF Chains
  <2>2. QED
    BY <2>1, <1>6, EachLocatedElements, Zenon DEF BudgetAdjustmentChains, ChainSet
<1>7. CASE o.kind = "RoleBinding"
  <2>1. Chains(o) = RoleBindingChains(o)
    BY <1>7, Zenon DEF Chains
  <2> DEFINE project == Field(o, <<"spec.projectRef", <<>>>>)
             a == <<Check(o, <<"spec.roleRef", <<>>>>,
                          IF project # Empty THEN "ProjectRole" ELSE "OrganizationRole", Empty)>>
             b == <<Check(o, <<"spec.projectRef", <<>>>>, "Project", Empty)>>
             c == <<Check(o, <<"spec.groupRef", <<>>>>, "UserGroup", project)>>
             d == <<Check(o, <<"spec.user", <<>>>>, "User", Empty)>>
  <2>2. RoleBindingChains(o) = <<a, b, c, d>>
    BY Zenon DEF RoleBindingChains
  <2>3. ChainSet(o) = {a, b, c, d}
    BY <1>7 DEF ChainSet
  <2> HIDE DEF a, b, c, d
  <2>4. QED
    BY <2>1, <2>2, <2>3, FourElements
<1>8. CASE o.kind = "UserGroup"
  <2>1. Chains(o) = UserGroupChains(o)
    BY <1>8, Zenon DEF Chains
  <2>2. QED
    BY <2>1, <1>8, EachElements, Zenon DEF UserGroupChains, ChainSet
<1>9. CASE o.kind \notin {"SLO", "Report", "AlertPolicy", "AlertSilence", "Annotation",
                          "BudgetAdjustment", "RoleBinding", "UserGroup"}
  <2>1. Chains(o) = <<>> /\ ChainSet(o) = {}
    BY <1>9 DEF Chains, ChainSet
  <2>2. QED
    BY <2>1, NoElement
<1>10. QED
  BY <1>1, <1>2, <1>3, <1>4, <1>5, <1>6, <1>7, <1>8, <1>9

\* What is looked up before the chains of a kind.
FirstStage(o) ==
  IF o.kind \in ProjectScopedKinds THEN <<<<Check(o, ProjectPath, "Project", Empty)>>>>
  ELSE Each(o, "spec.filters.projects[*]", "Project", Empty)

HasFirstStage(o) == o.kind \in ProjectScopedKinds \union {"Report"}

\* How Stages joins its parts.
LEMMA JoinedStages ==
  ASSUME NEW x, NEW y
  PROVE  /\ <<x>> \o <<>> \o <<y>> = <<x, y>>
         /\ <<>> \o <<x>> \o <<y>> = <<x, y>>
         /\ <<>> \o <<>> \o <<y>> = <<y>>
<1> DEFINE S == {x, y}
<1>1. <<x>> \in Seq(S) /\ <<y>> \in Seq(S) /\ <<>> \in Seq(S)
  OBVIOUS
<1>2. <<x>> \o <<y>> = Append(<<x>>, y)
  BY <1>1, AppendIsConcat
<1>3. Append(<<x>>, y) = <<x, y>>
  BY AppendTwo
<1>4. <<x>> \o <<>> = <<x>> /\ <<>> \o <<x>> = <<x>> /\ <<>> \o <<y>> = <<y>> /\ <<>> \o <<>> = <<>>
  BY <1>1, ConcatEmptySeq
<1>5. QED
  BY <1>2, <1>3, <1>4

\* One stage or two.
LEMMA StageForms ==
  ASSUME NEW o
  PROVE  Stages(o) = IF HasFirstStage(o) THEN <<FirstStage(o), Chains(o)>> ELSE <<Chains(o)>>
<1>1. CASE o.kind \in ProjectScopedKinds
  <2>1. o.kind # "Report"
    BY <1>1 DEF ProjectScopedKinds
  <2>2. Stages(o) = <<<<<<Check(o, ProjectPath, "Project", Empty)>>>>>> \o <<>> \o <<Chains(o)>>
    BY <1>1, <2>1, Zenon DEF Stages
  <2>3. QED
    BY <1>1, <2>2, JoinedStages, Zenon DEF HasFirstStage, FirstStage
<1>2. CASE o.kind = "Report"
  <2>1. o.kind \notin ProjectScopedKinds
    BY <1>2 DEF ProjectScopedKinds
  <2>2. Stages(o) = <<>> \o <<Each(o, "spec.filters.projects[*]", "Project", Empty)>> \o <<Chains(o)>>
    BY <1>2, <2>1, Zenon DEF Stages
  <2>3. QED
    BY <1>2, <2>1, <2>2, JoinedStages, Zenon DEF HasFirstStage, FirstStage
<1>3. CASE ~HasFirstStage(o)
  <2>1. Stages(o) = <<>> \o <<>> \o <<Chains(o)>>
    BY <1>3, Zenon DEF Stages, HasFirstStage
  <2>2. QED
    BY <1>3, <2>1
<1>4. QED
  BY <1>1, <1>2, <1>3 DEF HasFirstStage

-----------------------------------------------------------------------------
(* Ordered chains: a project comes before what lies in it.                  *)

NeedsProject(c) == c.project # Empty /\ c.kind \in ProjectScopedKinds \union {"Objective"}

ProjectBefore(ch, k) == \E j \in 1..(k - 1) : ch[j].kind = "Project" /\ ch[j].name = ch[k].project

HidesRest(ch) ==
  \A j, k \in DOMAIN ch : j < k /\ Asked(ch[j]) /\ Asked(ch[k]) => Hides(ch[j], ch[k])

WellOrdered(o, ch) ==
  /\ IsSequence(ch) /\ ch # <<>>
  /\ \A k \in DOMAIN ch :
       NeedsProject(ch[k]) => ch[k].project = OwnProject(o) \/ ProjectBefore(ch, k)
  /\ HidesRest(ch)

\* One check, of a name in no project or in the own one.
LEMMA SingleOrdered ==
  ASSUME NEW o, NEW c, NeedsProject(c) => c.project = OwnProject(o)
  PROVE  WellOrdered(o, <<c>>)
<1>1. /\ IsSequence(<<c>>) /\ <<c>> # <<>>
      /\ DOMAIN <<c>> = {1} /\ <<c>>[1] = c
  BY OneElement
<1>2. QED
  BY <1>1 DEF WellOrdered, HidesRest

\* Two checks, the first a project for the second.
LEMMA PairOrdered ==
  ASSUME NEW o, NEW c, NEW d,
         NeedsProject(c) => c.project = OwnProject(o),
         NeedsProject(d) => \/ d.project = OwnProject(o)
                            \/ c.kind = "Project" /\ c.name = d.project,
         Asked(c) /\ Asked(d) => Hides(c, d)
  PROVE  WellOrdered(o, <<c, d>>)
<1> DEFINE ch == <<c, d>>
<1>1. /\ IsSequence(ch) /\ ch # <<>>
      /\ DOMAIN ch = {1, 2} /\ ch[1] = c /\ ch[2] = d
  BY TwoElements
<1> HIDE DEF ch
<1>2. \A k \in DOMAIN ch :
        NeedsProject(ch[k]) => ch[k].project = OwnProject(o) \/ ProjectBefore(ch, k)
  <2>1. 1..(2 - 1) = {1}
    OBVIOUS
  <2>2. QED
    BY <1>1, <2>1 DEF ProjectBefore
<1>3. HidesRest(ch)
  BY <1>1 DEF HidesRest
<1>4. QED
  BY <1>1, <1>2, <1>3 DEF WellOrdered, ch

\* Three: a project, an SLO in it and an objective of that.
LEMMA TripleOrdered ==
  ASSUME NEW o, NEW c, NEW d, NEW e,
         ~NeedsProject(c),
         \A x \in {d, e} : NeedsProject(x) => c.kind = "Project" /\ c.name = x.project,
         \A x \in {d, e} : Asked(c) /\ Asked(x) => Hides(c, x),
         Asked(d) /\ Asked(e) => Hides(d, e)
  PROVE  WellOrdered(o, <<c, d, e>>)
<1> DEFINE ch == <<c, d, e>>
<1>1. /\ IsSequence(ch) /\ ch # <<>>
      /\ DOMAIN ch = {1, 2, 3} /\ ch[1] = c /\ ch[2] = d /\ ch[3] = e
  BY ThreeElements
<1> HIDE DEF ch
<1>2. \A k \in DOMAIN ch : NeedsProject(ch[k]) => ProjectBefore(ch, k)
  <2>1. 1..(2 - 1) = {1} /\ 1..(3 - 1) = {1, 2}
    OBVIOUS
  <2>2. NeedsProject(d) => ProjectBefore(ch, 2)
    BY <1>1, <2>1 DEF ProjectBefore
  <2>3. NeedsProject(e) => ProjectBefore(ch, 3)
    BY <1>1, <2>1 DEF ProjectBefore
  <2>4. QED
    BY <1>1, <2>2, <2>3
<1>3. HidesRest(ch)
  BY <1>1 DEF HidesRest
<1>4. QED
  BY <1>1, <1>2, <1>3 DEF WellOrdered, ch

\* The chain of Located is ordered.
LEMMA LocatedOrdered ==
  ASSUME NEW o, NEW projectField, NEW nameField, NEW index, NEW kind,
         NEW default \in {Empty, OwnProject(o)}
  PROVE  WellOrdered(o, Located(o, projectField, nameField, index, kind, default))
<1> DEFINE project == Field(o, <<projectField, index>>)
           c == Check(o, <<projectField, index>>, "Project", Empty)
           d == Check(o, <<nameField, index>>, kind, IF project = Empty THEN default ELSE project)
<1>1. Located(o, projectField, nameField, index, kind, default) = <<c, d>>
  BY Zenon DEF Located
<1>2. /\ c.kind = "Project" /\ c.name = project /\ c.project = Empty
      /\ d.project = IF project = Empty THEN default ELSE project
  BY DEF Check
<1> HIDE DEF project, c, d
<1>3. NeedsProject(c) => c.project = OwnProject(o)
  BY <1>2 DEF NeedsProject
<1>4. NeedsProject(d) => \/ d.project = OwnProject(o)
                         \/ c.kind = "Project" /\ c.name = d.project
  BY <1>2 DEF NeedsProject
<1>5. Asked(c) /\ Asked(d) => Hides(c, d)
  BY <1>2 DEF Asked, Hides
<1>6. QED
  BY <1>1, <1>3, <1>4, <1>5, PairOrdered

\* The chain of a component is ordered.
LEMMA ComponentOrdered ==
  ASSUME NEW o, NEW i, NEW j
  PROVE  WellOrdered(o, ComponentChain(o, i, j))
<1> DEFINE project == Field(o, <<ComponentProject, <<i, j>>>>)
           c == Check(o, <<ComponentProject, <<i, j>>>>, "Project", Empty)
           d == Check(o, <<ComponentSLO, <<i, j>>>>, "SLO", IF project = Empty THEN Empty ELSE project)
           e == ObjectiveCheck(o, <<ComponentObjective, <<i, j>>>>,
                               Field(o, <<ComponentSLO, <<i, j>>>>), project)
<1>1. Located(o, ComponentProject, ComponentSLO, <<i, j>>, "SLO", Empty) = <<c, d>>
  BY Zenon DEF Located
<1>2. ComponentChain(o, i, j) = Append(<<c, d>>, e)
  BY <1>1, Zenon DEF ComponentChain
<1>3. /\ c.kind = "Project" /\ c.name = project /\ c.project = Empty
      /\ d.kind = "SLO" /\ d.project = project /\ d.name = Field(o, <<ComponentSLO, <<i, j>>>>)
      /\ e.project = project /\ e.slo = Field(o, <<ComponentSLO, <<i, j>>>>)
  BY DEF Check, ObjectiveCheck
<1> HIDE DEF project, c, d, e
<1>4. ComponentChain(o, i, j) = <<c, d, e>>
  BY <1>2, AppendThree
<1>5. /\ ~NeedsProject(c)
      /\ \A x \in {d, e} : NeedsProject(x) => c.kind = "Project" /\ c.name = x.project
  BY <1>3 DEF NeedsProject
<1>6. \A x \in {d, e} : Asked(c) /\ Asked(x) => Hides(c, x)
  BY <1>3 DEF Asked, Hides
<1>7. Asked(d) /\ Asked(e) => Hides(d, e)
  BY <1>3 DEF Asked, Hides
<1>8. QED
  BY <1>4, <1>5, <1>6, <1>7, TripleOrdered

\* The chain of one check is ordered.
LEMMA CheckOrdered ==
  ASSUME NEW o, NEW path, NEW kind, NEW project,
         project \in {Empty, OwnProject(o)} \/ kind = "UserGroup"
  PROVE  WellOrdered(o, <<Check(o, path, kind, project)>>)
<1>1. Check(o, path, kind, project).project = project
  BY DEF Check
<1>2. Check(o, path, kind, project).kind = kind
  BY DEF Check
<1>3. "UserGroup" \notin ProjectScopedKinds \union {"Objective"}
  BY DEF ProjectScopedKinds
<1>4. QED
  BY <1>1, <1>2, <1>3, SingleOrdered DEF NeedsProject

\* The chain of an annotation: its objective is looked up after its SLO.
LEMMA AnnotationOrdered ==
  ASSUME NEW o
  PROVE  WellOrdered(o, <<Check(o, <<"spec.slo", <<>>>>, "SLO", OwnProject(o)),
            ObjectiveCheck(o, <<"spec.objectiveName", <<>>>>, Field(o, <<"spec.slo", <<>>>>),
                           OwnProject(o))>>)
<1> DEFINE c == Check(o, <<"spec.slo", <<>>>>, "SLO", OwnProject(o))
           d == ObjectiveCheck(o, <<"spec.objectiveName", <<>>>>,
                               Field(o, <<"spec.slo", <<>>>>), OwnProject(o))
<1>1. /\ c.kind = "SLO" /\ c.name = Field(o, <<"spec.slo", <<>>>>) /\ c.project = OwnProject(o)
      /\ d.slo = Field(o, <<"spec.slo", <<>>>>) /\ d.project = OwnProject(o)
  BY DEF Check, ObjectiveCheck
<1> HIDE DEF c, d
<1>2. Asked(c) /\ Asked(d) => Hides(c, d)
  BY <1>1 DEF Asked, Hides
<1>3. WellOrdered(o, <<c, d>>)
  BY <1>1, <1>2, PairOrdered
<1>4. QED
  BY <1>3, Zenon DEF c, d

\* So are all of EachLocated.
LEMMA LocatedChainsOrdered ==
  ASSUME NEW o, NEW projectField, NEW nameField, NEW kind, NEW default \in {Empty, OwnProject(o)},
         NEW ch \in LocatedChains(o, projectField, nameField, kind, default)
  PROVE  WellOrdered(o, ch)
BY LocatedOrdered DEF LocatedChains

\* So are all of Each.
LEMMA EachChainOrdered ==
  ASSUME NEW o, NEW field, NEW kind, NEW project \in {Empty, OwnProject(o)},
         NEW ch \in EachChain(o, field, kind, project)
  PROVE  WellOrdered(o, ch)
BY CheckOrdered DEF EachChain

\* So are all of an object.
LEMMA ChainsOrdered ==
  ASSUME NEW o, NEW ch \in ChainSet(o)
  PROVE  WellOrdered(o, ch)
<1>1. CASE o.kind = "SLO"
  <2>1. CASE ch = <<Check(o, <<"spec.service", <<>>>>, "Service", OwnProject(o))>>
    BY <2>1, CheckOrdered
  <2>2. CASE ch \in EachChain(o, "spec.alertPolicies[*]", "AlertPolicy", OwnProject(o))
    BY <2>2, EachChainOrdered
  <2>3. CASE ch = Located(o, "spec.indicator.metricSource.project", SourceField, <<>>,
                          SourceKind(o), OwnProject(o))
    BY <2>3, LocatedOrdered
  <2>4. CASE ch \in LocatedChains(o, "spec.anomalyConfig.noData.alertMethods[*].project",
                                  "spec.anomalyConfig.noData.alertMethods[*].name",
                                  "AlertMethod", OwnProject(o))
    BY <2>4, LocatedChainsOrdered
  <2>5. CASE ch \in ComponentChains(o)
    BY <2>5, ComponentOrdered DEF ComponentChains
  <2>6. QED
    BY <1>1, <2>1, <2>2, <2>3, <2>4, <2>5 DEF ChainSet
<1>2. CASE o.kind = "AlertPolicy"
  BY <1>2, LocatedChainsOrdered DEF ChainSet
<1>3. CASE o.kind = "AlertSilence"
  BY <1>3, LocatedOrdered, CheckOrdered DEF ChainSet
<1>4. CASE o.kind = "Annotation"
  BY <1>4, AnnotationOrdered DEF ChainSet
<1>5. CASE o.kind = "BudgetAdjustment"
  BY <1>5, LocatedChainsOrdered DEF ChainSet
<1>6. CASE o.kind = "Report"
  BY <1>6, LocatedChainsOrdered DEF ChainSet
<1>7. CASE o.kind = "RoleBinding"
  BY <1>7, CheckOrdered DEF ChainSet
<1>8. CASE o.kind = "UserGroup"
  BY <1>8, EachChainOrdered DEF ChainSet
<1>9. QED
  BY <1>1, <1>2, <1>3, <1>4, <1>5, <1>6, <1>7, <1>8 DEF ChainSet

\* Of every stage of every object, by its chains.
LEMMA StagesOrdered ==
  ASSUME NEW o, IsFiniteSet(DOMAIN o.fields)
  PROVE  /\ IsSequence(Stages(o))
         /\ \A s \in DOMAIN Stages(o) :
              IsSequence(Stages(o)[s]) /\ \A ch \in ToSet(Stages(o)[s]) : WellOrdered(o, ch)
<1>1. IsSequence(Chains(o)) /\ \A ch \in ToSet(Chains(o)) : WellOrdered(o, ch)
  BY ChainElements, ChainsOrdered
<1>2. IsSequence(FirstStage(o)) /\ \A ch \in ToSet(FirstStage(o)) : WellOrdered(o, ch)
  <2>1. CASE o.kind \in ProjectScopedKinds
    <3>1. FirstStage(o) = <<<<Check(o, ProjectPath, "Project", Empty)>>>>
      BY <2>1 DEF FirstStage
    <3>2. WellOrdered(o, <<Check(o, ProjectPath, "Project", Empty)>>)
      BY CheckOrdered
    <3>3. QED
      BY <3>1, <3>2, OneElement
  <2>2. CASE o.kind \notin ProjectScopedKinds
    <3>1. FirstStage(o) = Each(o, "spec.filters.projects[*]", "Project", Empty)
      BY <2>2 DEF FirstStage
    <3>2. /\ IsSequence(FirstStage(o))
          /\ ToSet(FirstStage(o)) = EachChain(o, "spec.filters.projects[*]", "Project", Empty)
      BY <3>1, EachElements, Zenon
    <3>3. \A ch \in EachChain(o, "spec.filters.projects[*]", "Project", Empty) : WellOrdered(o, ch)
      BY EachChainOrdered
    <3>4. QED
      BY <3>2, <3>3
  <2>3. QED
    BY <2>1, <2>2
<1>3. CASE HasFirstStage(o)
  <2>1. Stages(o) = <<FirstStage(o), Chains(o)>>
    BY <1>3, StageForms
  <2>2. QED
    BY <1>1, <1>2, <2>1, TwoElements
<1>4. CASE ~HasFirstStage(o)
  <2>1. Stages(o) = <<Chains(o)>>
    BY <1>4, StageForms
  <2>2. QED
    BY <1>1, <2>1, OneElement
<1>5. QED
  BY <1>3, <1>4

-----------------------------------------------------------------------------
(* The invariants.                                                          *)

C == ChecksIn(Stages(object))

\* No chain is kept when nothing is left of it.
NoEmptyChain == \A s \in DOMAIN todo : <<>> \notin ToSet(todo[s])

\* Every answer in the cache was right at some moment that is remembered.
CacheRemembers ==
  \A r \in DOMAIN cache : \E w \in past : cache[r] \in Answers(w, r)

TypeInv == TypeOK /\ NoEmptyChain /\ CacheRemembers

\* The project is known: it was found at some moment, or the request for it failed.
Seen(p, platforms, failures) ==
  \/ \E w \in platforms : Found(w, "Project", p, Empty) # {}
  \/ \E d \in failures : d.kind = "Project" /\ d.name = p

\* What is in a project still comes behind the lookup of the project in its chain.
InOrder(o, ch, platforms, failures) ==
  \A k \in DOMAIN ch :
    NeedsProject(ch[k]) =>
      \/ ch[k].project = OwnProject(o)
      \/ Seen(ch[k].project, platforms, failures)
      \/ ProjectBefore(ch, k)

ProjectsInOrder ==
  \A s \in DOMAIN todo : \A ch \in ToSet(todo[s]) : InOrder(object, ch, past, failed)

OwnStage == <<<<Check(object, ProjectPath, "Project", Empty)>>>>

\* The object's own project is looked up first, and only that if it is missing.
OwnProjectFirst ==
  \/ OwnProject(object) = Empty
  \/ Seen(OwnProject(object), past, failed)
  \/ todo = <<>>
  \/ todo[1] = OwnStage
  \/ todo[1] = <<>> /\ reported # {}

RestsHidden == \A s \in DOMAIN todo : \A ch \in ToSet(todo[s]) : HidesRest(ch)

\* A check of a project whose absence ends the whole check of the object.
Leads(c) == c.path = ProjectPath \/ c.path[1] = "spec.filters.projects[*]"

\* While a stage is left to come, nothing but such checks is made.
LeadersFirst ==
  /\ \A s \in DOMAIN todo : s < Len(todo) =>
       \A ch \in ToSet(todo[s]) : \A c \in ToSet(ch) : Leads(c)
  /\ Len(todo) > 1 => \A c \in reported : Leads(c)

Settled(c) ==
  \/ c \in reported \union failed
  \/ \E w \in past : Holds(w, c)
  \/ \E d \in reported : Hides(d, c)

\* No check is forgotten.
NothingForgotten == \A c \in Checks(object) : c \in ChecksIn(todo) \/ Settled(c)

SettledWhenDone == Done => \A c \in Checks(object) : Settled(c)

-----------------------------------------------------------------------------
(* The steps, and the types.                                                *)

\* The present check is the first of the first chain of the first stage.
LEMMA CurrentChain ==
  ASSUME TypeInv, Asking
  PROVE  /\ todo \in Seq(Seq(Seq(C))) /\ Len(todo) \in Nat
         /\ DOMAIN todo = 1..Len(todo) /\ 1 \in DOMAIN todo
         /\ todo[1] \in Seq(Seq(C)) /\ todo[1] # <<>>
         /\ todo[1][1] \in Seq(C) /\ todo[1][1] # <<>>
         /\ todo[1][1] \in ToSet(todo[1])
         /\ 1 \in DOMAIN todo[1][1] /\ Current \in C /\ Current \in ToSet(todo[1][1])
         /\ Current = todo[1][1][1]
<1>1. todo \in Seq(Seq(Seq(C))) /\ todo # <<>> /\ todo[1] # <<>>
  BY DEF TypeInv, TypeOK, Asking, Done, C
<1>2. Len(todo) \in Nat /\ DOMAIN todo = 1..Len(todo) /\ 1 \in DOMAIN todo
  BY <1>1, EmptySeq, LenProperties
<1>3. todo[1] \in Seq(Seq(C))
  BY <1>1, <1>2, ElementOfSeq
<1>4. 1 \in DOMAIN todo[1]
  BY <1>1, <1>3, EmptySeq, LenProperties
<1>5. todo[1][1] \in Seq(C) /\ todo[1][1] \in ToSet(todo[1])
  BY <1>3, <1>4, LenProperties DEF ToSet
<1>6. todo[1][1] # <<>>
  BY <1>2, <1>5 DEF TypeInv, NoEmptyChain
<1>7. 1 \in DOMAIN todo[1][1]
  BY <1>5, <1>6, EmptySeq, LenProperties
<1>8. todo[1][1][1] \in C /\ todo[1][1][1] \in ToSet(todo[1][1])
  BY <1>5, <1>7, LenProperties DEF ToSet
<1>9. QED
  BY <1>1, <1>2, <1>3, <1>5, <1>6, <1>7, <1>8 DEF Current

\* What NextChain and Continue make of the present stage.
LEMMA NextChainElements ==
  ASSUME TypeInv, Asking
  PROVE  /\ NextChain \in Seq(Seq(Seq(C))) /\ DOMAIN NextChain = DOMAIN todo
         /\ Len(NextChain) = Len(todo)
         /\ \A s \in DOMAIN todo : s # 1 => NextChain[s] = todo[s]
         /\ ToSet(todo[1]) = {todo[1][1]} \union ToSet(NextChain[1])
<1>1. /\ todo \in Seq(Seq(Seq(C))) /\ DOMAIN todo = 1..Len(todo) /\ 1 \in DOMAIN todo
      /\ todo[1] \in Seq(Seq(C)) /\ todo[1] # <<>>
  BY CurrentChain
<1>2. /\ Tail(todo[1]) \in Seq(Seq(C))
      /\ ToSet(todo[1]) = {todo[1][1]} \union ToSet(Tail(todo[1]))
  BY <1>1, TailElements
<1>3. NextChain = [todo EXCEPT ![1] = Tail(todo[1])]
  BY DEF NextChain
<1>4. NextChain \in Seq(Seq(Seq(C)))
  BY <1>1, <1>2, <1>3, ExceptSeq
<1>5. Len(NextChain) = Len(todo)
  BY <1>1, <1>2, <1>3, ExceptSeq
<1>6. DOMAIN NextChain = DOMAIN todo /\ NextChain[1] = Tail(todo[1])
  BY <1>1, <1>3
<1>7. \A s \in DOMAIN todo : s # 1 => NextChain[s] = todo[s]
  BY <1>3
<1>8. QED
  BY <1>2, <1>4, <1>5, <1>6, <1>7

\* Continue keeps the rest of the present chain.
LEMMA ContinueElements ==
  ASSUME TypeInv, Asking
  PROVE  /\ Continue \in Seq(Seq(Seq(C))) /\ DOMAIN Continue = DOMAIN todo
         /\ Len(Continue) = Len(todo)
         /\ \A s \in DOMAIN todo : s # 1 => Continue[s] = todo[s]
         /\ ToSet(Continue[1]) = ToSet(NextChain[1]) \union ({Tail(todo[1][1])} \ {<<>>})
<1> DEFINE chain == Tail(todo[1][1])
           others == Tail(todo[1])
           rest == IF chain = <<>> THEN others ELSE <<chain>> \o others
<1>1. /\ todo \in Seq(Seq(Seq(C))) /\ DOMAIN todo = 1..Len(todo) /\ 1 \in DOMAIN todo
      /\ todo[1] \in Seq(Seq(C)) /\ todo[1] # <<>>
      /\ todo[1][1] \in Seq(C) /\ todo[1][1] # <<>>
  BY CurrentChain
<1>2. others \in Seq(Seq(C))
  BY <1>1, TailElements
<1>3. chain \in Seq(C)
  BY <1>1, TailElements
<1>4. NextChain[1] = others
  BY <1>1 DEF NextChain
<1>5. Continue = [todo EXCEPT ![1] = rest]
  BY Zenon DEF Continue
<1> HIDE DEF chain, others
<1>6. rest \in Seq(Seq(C)) /\ ToSet(rest) = ToSet(others) \union ({chain} \ {<<>>})
  <2>1. CASE chain = <<>>
    BY <1>2, <2>1
  <2>2. CASE chain # <<>>
    <3>1. <<chain>> \in Seq(Seq(C)) /\ ToSet(<<chain>>) = {chain}
      BY <1>3, OneElement
    <3> DEFINE one == <<chain>>
               T == Seq(C)
    <3>2. one \in Seq(T) /\ others \in Seq(T) /\ ToSet(one) = {chain}
      BY <1>2, <3>1
    <3>3. rest = one \o others
      BY <2>2
    <3> HIDE DEF one, T, rest
    <3>4. rest \in Seq(T) /\ ToSet(rest) = ToSet(one) \union ToSet(others)
      BY <3>2, <3>3, ConcatTyped
    <3>5. QED
      BY <2>2, <3>2, <3>4 DEF T
  <2>3. QED
    BY <2>1, <2>2
<1> HIDE DEF rest
<1>7. Continue \in Seq(Seq(Seq(C)))
  BY <1>1, <1>5, <1>6, ExceptSeq
<1>8. Len(Continue) = Len(todo)
  BY <1>1, <1>5, <1>6, ExceptSeq
<1>9. DOMAIN Continue = DOMAIN todo /\ Continue[1] = rest
  BY <1>1, <1>5
<1>10. \A s \in DOMAIN todo : s # 1 => Continue[s] = todo[s]
  BY <1>5
<1>11. QED
  BY <1>4, <1>6, <1>7, <1>8, <1>9, <1>10 DEF chain

\* Both: every chain left was there, or is the rest of the present one.
LEMMA TodoAdvances ==
  ASSUME TypeInv, Asking, NEW t \in {NextChain, Continue}
  PROVE  /\ t \in Seq(Seq(Seq(C))) /\ DOMAIN t = DOMAIN todo /\ Len(t) = Len(todo)
         /\ \A s \in DOMAIN todo : s # 1 => t[s] = todo[s]
         /\ \A s \in DOMAIN todo : \A ch \in ToSet(t[s]) :
              \/ ch \in ToSet(todo[s])
              \/ t = Continue /\ s = 1 /\ ch = Tail(todo[1][1]) /\ ch # <<>>
<1>1. CASE t = NextChain
  BY <1>1, NextChainElements
<1>2. CASE t = Continue
  BY <1>2, NextChainElements, ContinueElements
<1>3. QED
  BY <1>1, <1>2

\* An answer is a part of the platform, and tells of it what a check wants to know.
LEMMA AnswerTells ==
  ASSUME NEW w, NEW c, Asked(c), NEW a \in Answers(w, RequestOf(c))
  PROVE  /\ Lacks(a, c) => Lacks(w, c)
         /\ Holds(a, c) => Holds(w, c)
<1>1. CASE c.kind \in RoleKinds
  <2>1. RequestOf(c) = RolesRequest /\ c.kind # "Objective"
    BY <1>1 DEF RequestOf, Request, RoleKinds
  <2>2. a = {t \in w : t.kind \in RoleKinds}
    BY <2>1 DEF Answers
  <2>3. Found(a, c.kind, c.name, c.project) = Found(w, c.kind, c.name, c.project)
    BY <1>1, <2>2 DEF Found
  <2>4. QED
    BY <2>1, <2>3 DEF Lacks, Holds
<1>2. CASE c.kind \notin RoleKinds
  <2> DEFINE kind == IF c.kind = "Objective" THEN "SLO" ELSE c.kind
             name == IF c.kind = "Objective" THEN c.slo ELSE c.name
             found == Found(w, kind, name, c.project)
  <2>1. kind \notin RoleKinds /\ name # Empty
    BY <1>2 DEF RoleKinds, Asked
  <2>2. RequestOf(c) = [kind |-> kind, name |-> name, project |-> c.project]
    BY <1>2, <2>1 DEF RequestOf, Request
  <2> HIDE DEF kind, name
  <2>3. RequestOf(c) # RolesRequest
    BY <2>1, <2>2 DEF RolesRequest
  <2>4. /\ found = {} => a = {}
        /\ found # {} => \E t \in found : a = {t}
    BY <2>2, <2>3 DEF Answers
  <2>5. Found(a, kind, name, c.project) = a /\ a \subseteq found /\ (a = {} => found = {})
    BY <2>4 DEF Found
  <2> HIDE DEF found
  <2>6. CASE c.kind = "Objective"
    <3>1. kind = "SLO" /\ name = c.slo
      BY <2>6 DEF kind, name
    <3>2. Found(w, "SLO", c.slo, c.project) = found /\ Found(a, "SLO", c.slo, c.project) = a
      BY <2>5, <3>1 DEF found
    <3>3. QED
      BY <2>5, <2>6, <3>2 DEF Lacks, Holds
  <2>7. CASE c.kind # "Objective"
    <3>1. kind = c.kind /\ name = c.name
      BY <2>7 DEF kind, name
    <3>2. Found(w, c.kind, c.name, c.project) = found /\ Found(a, c.kind, c.name, c.project) = a
      BY <2>5, <3>1 DEF found
    <3>3. QED
      BY <2>5, <2>7, <3>2 DEF Lacks, Holds
  <2>8. QED
    BY <2>6, <2>7
<1>3. QED
  BY <1>1, <1>2

\* It has nothing that the platform has not.
LEMMA AnswerIsPart ==
  ASSUME NEW w, NEW r, NEW a \in Answers(w, r)
  PROVE  a \subseteq w
BY DEF Answers, Found

\* A lookup gets an answer that was right at some moment that is remembered.
LEMMA ObtainedWasRight ==
  ASSUME TypeInv, NEW a, Obtain(a)
  PROVE  \E w \in past : a \in Answers(w, RequestOf(Current))
BY DEF Obtain, Cached, TypeInv, TypeOK, CacheRemembers

\* So what is missed was missing then, and what is found was there.
LEMMA MissedWasMissing ==
  ASSUME TypeInv, Miss
  PROVE  \E w \in past : Lacks(w, Current)
<1>1. PICK a : Obtain(a) /\ Lacks(a, Current)
  BY DEF Miss
<1>2. PICK w \in past : a \in Answers(w, RequestOf(Current))
  BY <1>1, ObtainedWasRight
<1>3. Asked(Current)
  BY DEF Miss
<1>4. QED
  BY <1>1, <1>2, <1>3, AnswerTells

\* The same of what is found.
LEMMA FoundWasThere ==
  ASSUME TypeInv, Find
  PROVE  \E w \in past : Holds(w, Current)
<1>1. PICK a : Obtain(a) /\ Holds(a, Current)
  BY DEF Find
<1>2. PICK w \in past : a \in Answers(w, RequestOf(Current))
  BY <1>1, ObtainedWasRight
<1>3. Asked(Current)
  BY DEF Find
<1>4. QED
  BY <1>1, <1>2, <1>3, AnswerTells

\* What the steps do to the stages, by case.
LEMMA StepShapes ==
  ASSUME [Next]_vars
  PROVE  \/ Skip \/ Miss \/ Find \/ Fail \/ NextStage
         \/ UNCHANGED <<object, todo, reported, failed>>
BY DEF Next, Change, OthersStore, vars

\* The checks of some stages are those of their chains.
LEMMA ElementsOfChecks ==
  ASSUME NEW stages
  PROVE  \A c : c \in ChecksIn(stages) <=>
           \E s \in DOMAIN stages : \E ch \in ToSet(stages[s]) : c \in ToSet(ch)
BY DEF ChecksIn, ToSet

\* The stages of an object are sequences of ordered chains of its checks.
LEMMA InitialStages ==
  ASSUME Init
  PROVE  /\ todo \in Seq(Seq(Seq(C)))
         /\ \A s \in DOMAIN todo : \A ch \in ToSet(todo[s]) : WellOrdered(object, ch)
<1>1. IsFiniteSet(DOMAIN object.fields) /\ todo = Stages(object)
  BY ChecksAssumption DEF Init
<1>2. /\ IsSequence(todo)
      /\ \A s \in DOMAIN todo :
           IsSequence(todo[s]) /\ \A ch \in ToSet(todo[s]) : WellOrdered(object, ch)
  BY <1>1, StagesOrdered
<1>3. ASSUME NEW s \in DOMAIN todo
      PROVE  todo[s] \in Seq(Seq(C))
  <2>1. ASSUME NEW ch \in ToSet(todo[s])
        PROVE  ch \in Seq(C)
    <3>1. IsSequence(ch)
      BY <1>2, <2>1 DEF WellOrdered
    <3>2. ToSet(ch) \subseteq C
      BY <1>1, <2>1, ElementsOfChecks DEF C
    <3>3. QED
      BY <3>1, <3>2, SequenceOfMore
  <2>2. QED
    BY <1>2, <2>1, SequenceOfMore
<1>4. ToSet(todo) \subseteq Seq(Seq(C))
  BY <1>3 DEF ToSet
<1>5. QED
  BY <1>2, <1>4, SequenceOfMore

\* The check of an object begins well typed.
LEMMA TypeInit ==
  ASSUME Init
  PROVE  TypeInv
<1>1. todo \in Seq(Seq(Seq(C))) /\ NoEmptyChain
  BY InitialStages DEF NoEmptyChain, WellOrdered
<1>2. platform \subseteq Things /\ Possible(platform)
  BY DEF Init, Named
<1>3. CacheRemembers /\ DOMAIN cache = {}
  BY DEF Init, CacheRemembers
<1>4. QED
  BY <1>1, <1>2, <1>3, ChecksAssumption DEF Init, TypeInv, TypeOK, C

\* What is left of the stages stays well typed.
LEMMA LaterStages ==
  ASSUME TypeInv, NextStage
  PROVE  /\ todo' \in Seq(Seq(Seq(C)))
         /\ \/ todo' = <<>> /\ reported # {}
            \/ todo' = Tail(todo) /\ reported = {}
         /\ \A s \in DOMAIN todo' : s + 1 \in DOMAIN todo /\ todo'[s] = todo[s + 1]
         /\ Len(todo') \in Nat /\ (Len(todo') = 0 \/ Len(todo') = Len(todo) - 1)
<1>1. todo \in Seq(Seq(Seq(C))) /\ todo # <<>>
  BY DEF TypeInv, TypeOK, NextStage, Done, C
<1>2. CASE reported = {}
  <2>1. todo' = Tail(todo)
    BY <1>2 DEF NextStage
  <2>2. /\ Tail(todo) \in Seq(Seq(Seq(C))) /\ Len(Tail(todo)) = Len(todo) - 1
        /\ \A i \in DOMAIN Tail(todo) : i + 1 \in DOMAIN todo /\ Tail(todo)[i] = todo[i + 1]
    BY <1>1, TailElements
  <2>3. Len(Tail(todo)) \in Nat
    BY <2>2, LenProperties
  <2>4. QED
    BY <1>2, <2>1, <2>2, <2>3
<1>3. CASE reported # {}
  <2>1. todo' = <<>>
    BY <1>3 DEF NextStage
  <2>2. QED
    BY <1>3, <2>1
<1>4. QED
  BY <1>2, <1>3

\* Empty chains are dropped, never kept.
LEMMA TailsNotEmpty ==
  ASSUME TypeInv, Asking, NEW t \in {NextChain, Continue}, todo' = t, UNCHANGED object
  PROVE  (todo \in Seq(Seq(Seq(C))) /\ NoEmptyChain)'
<1>1. todo' \in Seq(Seq(Seq(C)))
  BY TodoAdvances
<1>2. DOMAIN todo' = DOMAIN todo
  BY TodoAdvances
<1>3. ASSUME NEW s \in DOMAIN todo
      PROVE  <<>> \notin ToSet(todo'[s])
  BY TodoAdvances DEF TypeInv, NoEmptyChain
<1>4. NoEmptyChain'
  BY <1>2, <1>3 DEF NoEmptyChain
<1>5. C' = C
  BY DEF C
<1>6. QED
  BY <1>1, <1>4, <1>5

\* What is asked is a check of the object.
LEMMA CurrentIsACheck ==
  ASSUME TypeInv, Asking, Asked(Current)
  PROVE  Current \in Checks(object)
BY CurrentChain DEF C, Checks

\* What is in the cache.
CacheOK ==
  \A r \in DOMAIN cache : r \in Requests(object) /\ cache[r] \subseteq Things

\* An answer is stored that was right at a moment that is remembered.
LEMMA PutStep ==
  ASSUME TypeInv, NEW c \in Checks(object), NEW w \in past, NEW a \in Answers(w, RequestOf(c)),
         cache' = Put(RequestOf(c), a), UNCHANGED <<object, past>>
  PROVE  CacheRemembers' /\ CacheOK'
<1>1. DOMAIN cache' = DOMAIN cache \union {RequestOf(c)}
  BY DEF Put
<1>2. cache'[RequestOf(c)] = a /\ \A r \in DOMAIN cache : r # RequestOf(c) => cache'[r] = cache[r]
  BY DEF Put
<1>3. a \subseteq Things
  BY AnswerIsPart DEF TypeInv, TypeOK
<1>4. RequestOf(c) \in Requests(object)
  BY DEF Requests
<1>5. CacheRemembers /\ CacheOK
  BY DEF TypeInv, TypeOK, CacheOK
<1>6. CacheRemembers'
  <2>1. ASSUME NEW r \in DOMAIN cache'
        PROVE  \E v \in past : cache'[r] \in Answers(v, r)
    <3>1. CASE r = RequestOf(c)
      BY <1>2, <3>1
    <3>2. CASE r # RequestOf(c)
      BY <1>1, <1>2, <1>5, <2>1, <3>2 DEF CacheRemembers
    <3>3. QED
      BY <3>1, <3>2
  <2>2. QED
    BY <2>1 DEF CacheRemembers, Answers, Found
<1>7. CacheOK'
  BY <1>1, <1>2, <1>3, <1>4, <1>5 DEF CacheOK, Requests, Checks
<1>8. QED
  BY <1>6, <1>7

\* A step that leaves the cache alone, or drops an answer, keeps it so.
LEMMA FewerAnswers ==
  ASSUME TypeInv, DOMAIN cache' \subseteq DOMAIN cache,
         \A r \in DOMAIN cache' : cache'[r] = cache[r],
         object' = object, past \subseteq past'
  PROVE  CacheRemembers' /\ CacheOK'
<1>1. CacheRemembers /\ CacheOK
  BY DEF TypeInv, TypeOK, CacheOK
<1>2. CacheRemembers'
  BY <1>1 DEF CacheRemembers, Answers, Found
<1>3. CacheOK'
  BY <1>1 DEF CacheOK, Requests, Checks
<1>4. QED
  BY <1>2, <1>3

\* A lookup that is answered stores a right answer or none.
LEMMA ObtainStep ==
  ASSUME TypeInv, Asking, Asked(Current), NEW a, Obtain(a), UNCHANGED <<object, past>>
  PROVE  CacheRemembers' /\ CacheOK'
<1>1. CASE UNCHANGED cache
  BY <1>1, FewerAnswers
<1>2. CASE a \in Answers(platform, RequestOf(Current)) /\ cache' = Put(RequestOf(Current), a)
  <2>1. Current \in Checks(object) /\ platform \in past
    BY CurrentIsACheck DEF TypeInv, TypeOK
  <2>2. QED
    BY <1>2, <2>1, PutStep
<1>3. QED
  BY <1>1, <1>2 DEF Obtain

\* Every step keeps the types.
LEMMA TypeStep ==
  ASSUME TypeInv, [Next]_vars
  PROVE  TypeInv'
<1>1. CASE Skip
  <2>1. (todo \in Seq(Seq(Seq(C))) /\ NoEmptyChain)'
    BY <1>1, TailsNotEmpty DEF Skip
  <2>2. CacheRemembers' /\ CacheOK'
    BY <1>1, FewerAnswers DEF Skip
  <2>3. QED
    BY <1>1, <2>1, <2>2 DEF Skip, TypeInv, TypeOK, CacheOK, C
<1>2. CASE Miss
  <2>1. (todo \in Seq(Seq(Seq(C))) /\ NoEmptyChain)'
    BY <1>2, TailsNotEmpty DEF Miss
  <2>2. Current \in Checks(object)
    BY <1>2, CurrentIsACheck DEF Miss
  <2>3. CacheRemembers' /\ CacheOK'
    BY <1>2, ObtainStep DEF Miss
  <2>4. QED
    BY <1>2, <2>1, <2>2, <2>3 DEF Miss, TypeInv, TypeOK, CacheOK, C
<1>3. CASE Find
  <2>1. (todo \in Seq(Seq(Seq(C))) /\ NoEmptyChain)'
    BY <1>3, TailsNotEmpty DEF Find
  <2>2. CacheRemembers' /\ CacheOK'
    BY <1>3, ObtainStep DEF Find
  <2>3. QED
    BY <1>3, <2>1, <2>2 DEF Find, TypeInv, TypeOK, CacheOK, C
<1>4. CASE Fail
  <2>1. (todo \in Seq(Seq(Seq(C))) /\ NoEmptyChain)'
    BY <1>4, TailsNotEmpty DEF Fail
  <2>2. Current \in Checks(object)
    BY <1>4, CurrentIsACheck DEF Fail
  <2>3. CacheRemembers' /\ CacheOK'
    BY <1>4, FewerAnswers DEF Fail, Restrict
  <2>4. QED
    BY <1>4, <2>1, <2>2, <2>3 DEF Fail, TypeInv, TypeOK, CacheOK, C
<1>5. CASE NextStage
  <2>1. (todo \in Seq(Seq(Seq(C))))'
    BY <1>5, LaterStages DEF NextStage, C
  <2>2. NoEmptyChain'
    BY <1>5, LaterStages DEF TypeInv, NoEmptyChain
  <2>3. CacheRemembers' /\ CacheOK'
    BY <1>5, FewerAnswers DEF NextStage
  <2>4. QED
    BY <1>5, <2>1, <2>2, <2>3 DEF NextStage, TypeInv, TypeOK, CacheOK, C
<1>6. CASE Change
  <2>1. platform' \subseteq Things
    BY <1>6 DEF Change, TypeInv, TypeOK, With, Without, Named
  <2>2. Possible(platform)'
    BY <1>6 DEF Change
  <2>3. changes' \in 0..MaxChanges
    BY <1>6, ChecksAssumption DEF Change, TypeInv, TypeOK
  <2>4. platform' \in past' /\ past' \subseteq SUBSET Things
    BY <1>6, <2>1 DEF Change, TypeInv, TypeOK
  <2>5. CacheRemembers' /\ CacheOK'
    BY <1>6, FewerAnswers DEF Change
  <2>6. QED
    BY <1>6, <2>1, <2>2, <2>3, <2>4, <2>5 DEF Change, TypeInv, TypeOK, CacheOK, NoEmptyChain
<1>7. CASE OthersStore
  <2>1. PICK c \in ChecksIn(todo), w \in past :
          Asked(c) /\ \E a \in Answers(w, RequestOf(c)) : cache' = Put(RequestOf(c), a)
    BY <1>7 DEF OthersStore
  <2>2. c \in Checks(object)
    <3>1. todo \in Seq(Seq(Seq(C)))
      BY DEF TypeInv, TypeOK, C
    <3>2. PICK s \in DOMAIN todo : \E ch \in ToSet(todo[s]) : c \in ToSet(ch)
      BY <2>1, ElementsOfChecks
    <3>3. PICK ch \in ToSet(todo[s]) : c \in ToSet(ch)
      BY <3>2
    <3>4. todo[s] \in Seq(Seq(C))
      BY <3>1, <3>2, ElementOfSeq
    <3>5. ch \in Seq(C)
      BY <3>3, <3>4, LenProperties DEF ToSet
    <3>6. c \in C
      BY <3>3, <3>5, LenProperties DEF ToSet
    <3>7. QED
      BY <2>1, <3>6 DEF C, Checks
  <2>3. CacheRemembers' /\ CacheOK'
    BY <1>7, <2>1, <2>2, PutStep, Zenon DEF OthersStore
  <2>4. stores' \in 0..MaxStores
    BY <1>7, ChecksAssumption DEF OthersStore, TypeInv, TypeOK
  <2>5. QED
    BY <1>7, <2>3, <2>4 DEF OthersStore, TypeInv, TypeOK, CacheOK, NoEmptyChain
<1>8. CASE UNCHANGED vars
  <2>1. CacheRemembers' /\ CacheOK'
    BY <1>8, FewerAnswers DEF vars
  <2>2. QED
    BY <1>8, <2>1 DEF vars, TypeInv, TypeOK, CacheOK, NoEmptyChain
<1>9. QED
  BY <1>1, <1>2, <1>3, <1>4, <1>5, <1>6, <1>7, <1>8 DEF Next

\* Every variable has its type.
THEOREM TypeCorrect == Spec => []TypeOK
<1>1. Init => TypeInv
  BY TypeInit
<1>2. TypeInv /\ [Next]_vars => TypeInv'
  BY TypeStep
<1>3. TypeInv => TypeOK
  BY DEF TypeInv
<1>4. QED
  BY <1>1, <1>2, <1>3, PTL DEF Spec

-----------------------------------------------------------------------------
(* What is remembered.                                                      *)

\* Nothing forgets a platform, a report or a failed request.
LEMMA HistoryGrows ==
  ASSUME [Next]_vars, platform \in past
  PROVE  /\ past \subseteq past' /\ platform' \in past'
         /\ reported \subseteq reported' /\ failed \subseteq failed'
         /\ object' = object
<1>1. CASE Skip
  BY <1>1 DEF Skip
<1>2. CASE Miss
  BY <1>2 DEF Miss
<1>3. CASE Find
  BY <1>3 DEF Find
<1>4. CASE Fail
  BY <1>4 DEF Fail
<1>5. CASE NextStage
  BY <1>5 DEF NextStage
<1>6. CASE Change
  BY <1>6 DEF Change
<1>7. CASE OthersStore
  BY <1>7 DEF OthersStore
<1>8. CASE UNCHANGED vars
  BY <1>8 DEF vars
<1>9. QED
  BY <1>1, <1>2, <1>3, <1>4, <1>5, <1>6, <1>7, <1>8 DEF Next

-----------------------------------------------------------------------------
(* Reports are true.                                                        *)

\* What is newly reported was missing from a platform that is remembered.
LEMMA NewReports ==
  ASSUME TypeInv, [Next]_vars, NEW c \in reported', c \notin reported
  PROVE  \E w \in past : Lacks(w, c)
<1>1. CASE Miss
  <2>1. c = Current
    BY <1>1 DEF Miss
  <2>2. QED
    BY <1>1, <2>1, MissedWasMissing
<1>2. CASE Skip \/ Find \/ Fail \/ NextStage \/ UNCHANGED <<object, todo, reported, failed>>
  BY <1>2 DEF Skip, Find, Fail, NextStage
<1>3. QED
  BY <1>1, <1>2, StepShapes

\* Every "does not exist" (checkObjectExistence and its likes) was true at some moment of the
\* check or of the time before it since when its answer may be in the cache (Repo.GetObject),
\* whatever fails, whatever others change or store meanwhile.
THEOREM ReportsAlwaysTrue == Spec => []ReportsAreTrue
<1> DEFINE Inv == TypeInv /\ ReportsAreTrue
<1>1. Init => Inv
  BY TypeInit DEF Init, ReportsAreTrue
<1>2. Inv /\ [Next]_vars => Inv'
  <2> SUFFICES ASSUME Inv, [Next]_vars
               PROVE  Inv'
    OBVIOUS
  <2>1. past \subseteq past'
    BY HistoryGrows DEF TypeInv, TypeOK
  <2>2. ASSUME NEW c \in reported'
        PROVE  \E w \in past' : Lacks(w, c)
    <3>1. CASE c \in reported
      BY <2>1, <3>1 DEF ReportsAreTrue
    <3>2. CASE c \notin reported
      BY <2>1, <3>2, NewReports
    <3>3. QED
      BY <3>1, <3>2
  <2>3. ReportsAreTrue'
    BY <2>2 DEF ReportsAreTrue, Lacks
  <2>4. QED
    BY <2>3, TypeStep
<1>3. QED
  BY <1>1, <1>2, PTL DEF Spec

-----------------------------------------------------------------------------
(* Projects come first.                                                     *)

\* A project once seen stays so.
LEMMA SeenStays ==
  ASSUME [Next]_vars, platform \in past, NEW p, Seen(p, past, failed)
  PROVE  Seen(p, past', failed')
BY HistoryGrows DEF Seen

\* A project that a step looks up is known when the chain goes on.
LEMMA LookupIsSeen ==
  ASSUME Find \/ Fail, TypeInv, Current.kind = "Project"
  PROVE  Seen(Current.name, past', failed')
<1>1. CASE Find
  <2>1. PICK w \in past : Found(w, "Project", Current.name, Current.project) # {}
    BY <1>1, FoundWasThere DEF Holds
  <2>2. Found(w, "Project", Current.name, Empty) # {}
    BY <2>1 DEF Found, ProjectScopedKinds
  <2>3. past' = past
    BY <1>1 DEF Find
  <2>4. QED
    BY <2>2, <2>3 DEF Seen
<1>2. CASE Fail
  BY <1>2 DEF Fail, Seen
<1>3. QED
  BY <1>1, <1>2

\* A chain stays in order while the history grows.
LEMMA InOrderStays ==
  ASSUME [Next]_vars, platform \in past, NEW ch, InOrder(object, ch, past, failed)
  PROVE  InOrder(object, ch, past', failed')
<1>2. \A p : Seen(p, past, failed) => Seen(p, past', failed')
  BY SeenStays
<1>3. QED
  BY <1>2 DEF InOrder

\* The rest of a chain is in order once its first project is known.
LEMMA RestInOrder ==
  ASSUME TypeInv, Asking, [Next]_vars, Skip \/ Find \/ Fail, InOrder(object, todo[1][1], past, failed)
  PROVE  InOrder(object, Tail(todo[1][1]), past', failed')
<1> DEFINE ch == todo[1][1]
           rest == Tail(ch)
<1>1. /\ ch \in Seq(C) /\ ch # <<>> /\ Current = ch[1]
  BY CurrentChain
<1> HIDE DEF ch
<1>2. /\ rest \in Seq(C) /\ Len(rest) \in Nat /\ DOMAIN rest = 1..Len(rest)
      /\ \A i \in DOMAIN rest : i + 1 \in DOMAIN ch /\ rest[i] = ch[i + 1]
  BY <1>1, TailElements, LenProperties
<1>3. platform \in past
  BY DEF TypeInv, TypeOK
<1>4. InOrder(object, ch, past', failed')
  BY <1>3, InOrderStays DEF ch
<1> HIDE DEF rest
<1>5. ASSUME NEW k \in DOMAIN rest, NeedsProject(rest[k])
      PROVE  \/ rest[k].project = OwnProject(object)
             \/ Seen(rest[k].project, past', failed')
             \/ ProjectBefore(rest, k)
  <2>1. k + 1 \in DOMAIN ch /\ rest[k] = ch[k + 1] /\ k \in Nat /\ k >= 1 /\ k <= Len(rest)
    BY <1>2
  <2>2. CASE ProjectBefore(ch, k + 1)
    <3>1. PICK j \in 1..k : ch[j].kind = "Project" /\ ch[j].name = ch[k + 1].project
      BY <2>1, <2>2 DEF ProjectBefore
    <3>2. CASE j = 1
      <4>1. Current.kind = "Project" /\ Current.name = rest[k].project
        BY <1>1, <2>1, <3>1, <3>2
      <4>2. Current.name # Empty
        BY <1>5, <4>1 DEF NeedsProject
      <4>3. Asked(Current)
        BY <4>1, <4>2 DEF Asked
      <4>4. Find \/ Fail
        BY <4>3 DEF Skip
      <4>5. QED
        BY <4>1, <4>4, LookupIsSeen
    <3>3. CASE j # 1
      <4>1. j - 1 \in 1..(k - 1) /\ j - 1 \in DOMAIN rest /\ (j - 1) + 1 = j
        BY <1>2, <2>1, <3>1, <3>3
      <4>2. rest[j - 1] = ch[j]
        BY <1>2, <4>1
      <4>3. QED
        BY <2>1, <3>1, <4>1, <4>2 DEF ProjectBefore
    <3>4. QED
      BY <3>2, <3>3
  <2>3. CASE ~ProjectBefore(ch, k + 1)
    BY <1>4, <1>5, <2>1, <2>3 DEF InOrder
  <2>4. QED
    BY <2>2, <2>3
<1>6. InOrder(object, rest, past', failed')
  BY <1>5 DEF InOrder
<1>7. QED
  BY <1>6 DEF rest, ch

\* Every step keeps the chains in order.
LEMMA OrderStep ==
  ASSUME TypeInv, ProjectsInOrder, [Next]_vars
  PROVE  ProjectsInOrder'
<1>1. platform \in past
  BY DEF TypeInv, TypeOK
<1>2. \A s \in DOMAIN todo : \A ch \in ToSet(todo[s]) : InOrder(object, ch, past, failed)
  BY DEF ProjectsInOrder
<1>3. \A s \in DOMAIN todo : \A ch \in ToSet(todo[s]) : InOrder(object, ch, past', failed')
  BY <1>1, <1>2, InOrderStays
<1>10. object' = object
  BY <1>1, HistoryGrows
<1>4. SUFFICES \A s \in DOMAIN todo' : \A ch \in ToSet(todo'[s]) : InOrder(object, ch, past', failed')
  BY <1>10 DEF ProjectsInOrder
<1>5. CASE Skip \/ Find \/ Fail
  <2>1. Asking /\ todo' = Continue
    BY <1>5 DEF Skip, Find, Fail
  <2>2. InOrder(object, todo[1][1], past, failed)
    BY <1>2, <2>1, CurrentChain
  <2>3. InOrder(object, Tail(todo[1][1]), past', failed')
    BY <1>5, <2>1, <2>2, RestInOrder
  <2>4. DOMAIN todo' = DOMAIN todo
    BY <2>1, TodoAdvances
  <2>5. ASSUME NEW s \in DOMAIN todo, NEW ch \in ToSet(todo'[s])
        PROVE  InOrder(object, ch, past', failed')
    <3>1. ch \in ToSet(todo[s]) \/ ch = Tail(todo[1][1])
      BY <2>1, <2>5, TodoAdvances
    <3>2. QED
      BY <1>3, <2>3, <3>1
  <2>6. QED
    BY <2>4, <2>5
<1>6. CASE Miss
  <2>1. Asking /\ todo' = NextChain
    BY <1>6 DEF Miss
  <2>2. \A s \in DOMAIN todo' : ToSet(todo'[s]) \subseteq ToSet(todo[s]) /\ s \in DOMAIN todo
    BY <2>1, NextChainElements
  <2>3. QED
    BY <1>3, <2>2
<1>7. CASE NextStage
  BY <1>3, <1>7, LaterStages
<1>8. CASE UNCHANGED <<object, todo, reported, failed>>
  BY <1>3, <1>8
<1>9. QED
  BY <1>5, <1>6, <1>7, <1>8, StepShapes

\* Every step keeps the own project in front.
LEMMA OwnProjectStep ==
  ASSUME TypeInv, OwnProjectFirst, [Next]_vars
  PROVE  OwnProjectFirst'
<1> DEFINE own == Check(object, ProjectPath, "Project", Empty)
<1>1. platform \in past /\ object' = object
  BY HistoryGrows DEF TypeInv, TypeOK
<1>2. CASE OwnProject(object) = Empty
  BY <1>1, <1>2 DEF OwnProjectFirst
<1>3. CASE Seen(OwnProject(object), past, failed)
  BY <1>1, <1>3, SeenStays DEF OwnProjectFirst
<1>4. CASE OwnProject(object) # Empty /\ todo # <<>> /\ todo[1] = OwnStage
  <2>1. own.kind = "Project" /\ own.name = OwnProject(object) /\ Asked(own)
    BY <1>4 DEF Check, OwnProject, Asked
  <2>2. todo[1] = <<<<own>>>> /\ Current = own /\ todo[1] # <<>>
    <3>1. todo[1] = <<<<own>>>>
      BY <1>4, Zenon DEF OwnStage
    <3> HIDE DEF own
    <3>2. QED
      BY <3>1 DEF Current
  <2> HIDE DEF own
  <2>3. CASE Skip
    BY <2>1, <2>2, <2>3 DEF Skip
  <2>4. CASE Miss
    <3>1. Asking /\ todo' = NextChain /\ reported' # {}
      BY <2>4 DEF Miss
    <3>2. todo'[1] = Tail(todo[1]) /\ 1 \in DOMAIN todo /\ todo' # <<>>
      BY <3>1, CurrentChain, NextChainElements DEF NextChain
    <3>3. Tail(todo[1]) = <<>>
      BY <2>2
    <3>4. QED
      BY <3>1, <3>2, <3>3 DEF OwnProjectFirst
  <2>5. CASE Find \/ Fail
    <3>1. Seen(OwnProject(object), past', failed')
      BY <2>1, <2>2, <2>5, LookupIsSeen
    <3>2. QED
      BY <1>1, <3>1 DEF OwnProjectFirst
  <2>6. CASE NextStage
    BY <2>2, <2>6 DEF NextStage
  <2>7. CASE UNCHANGED <<object, todo, reported, failed>>
    BY <1>4, <2>7 DEF OwnProjectFirst, OwnStage
  <2>8. QED
    BY <2>3, <2>4, <2>5, <2>6, <2>7, StepShapes
<1>5. CASE todo # <<>> /\ todo[1] = <<>> /\ reported # {}
  <2>1. CASE NextStage
    BY <1>5, <2>1 DEF NextStage, OwnProjectFirst
  <2>2. CASE UNCHANGED <<object, todo, reported, failed>>
    BY <1>5, <2>2 DEF OwnProjectFirst
  <2>3. QED
    BY <1>5, <2>1, <2>2, StepShapes DEF Skip, Miss, Find, Fail, Asking
<1>6. CASE todo = <<>>
  <2>1. UNCHANGED <<object, todo, reported, failed>>
    BY <1>6, StepShapes DEF Skip, Miss, Find, Fail, NextStage, Asking, Done
  <2>2. QED
    BY <1>6, <2>1 DEF OwnProjectFirst
<1>7. QED
  BY <1>2, <1>3, <1>4, <1>5, <1>6 DEF OwnProjectFirst

ProjectsInv == TypeInv /\ ProjectsInOrder /\ OwnProjectFirst /\ ProjectsComeFirst

\* Projects come first at the beginning.
LEMMA ProjectsInit ==
  ASSUME Init
  PROVE  ProjectsInv
<1>1. TypeInv
  BY TypeInit
<1>2. ProjectsInOrder
  BY InitialStages DEF ProjectsInOrder, InOrder, WellOrdered
<1>3. OwnProjectFirst
  <2>1. CASE OwnProject(object) = Empty
    BY <2>1 DEF OwnProjectFirst
  <2>2. CASE OwnProject(object) # Empty
    <3>1. object.kind \in ProjectScopedKinds
      BY <2>2 DEF OwnProject
    <3>2. todo = <<FirstStage(object), Chains(object)>>
      BY <3>1, StageForms DEF Init, HasFirstStage
    <3>3. todo[1] = FirstStage(object)
      BY <3>2
    <3>4. FirstStage(object) = OwnStage
      BY <3>1, Zenon DEF FirstStage, OwnStage
    <3>5. QED
      BY <3>3, <3>4 DEF OwnProjectFirst
  <2>3. QED
    BY <2>1, <2>2
<1>4. ProjectsComeFirst
  BY DEF Init, ProjectsComeFirst
<1>5. QED
  BY <1>1, <1>2, <1>3, <1>4 DEF ProjectsInv

\* What is looked up first in its chain has its project behind it.
LEMMA CurrentInOrder ==
  ASSUME ProjectsInv, Asking, NeedsProject(Current)
  PROVE  Seen(Current.project, past, failed)
<1>1. /\ todo[1][1] \in ToSet(todo[1]) /\ 1 \in DOMAIN todo /\ 1 \in DOMAIN todo[1][1]
      /\ Current = todo[1][1][1]
  BY CurrentChain DEF ProjectsInv
<1>2. InOrder(object, todo[1][1], past, failed)
  BY <1>1 DEF ProjectsInv, ProjectsInOrder
<1>3. ~ProjectBefore(todo[1][1], 1)
  <2>1. 1..(1 - 1) = {}
    OBVIOUS
  <2>2. QED
    BY <2>1 DEF ProjectBefore
<1>4. Current.project = OwnProject(object) \/ Seen(Current.project, past, failed)
  BY <1>1, <1>2, <1>3 DEF InOrder
<1>5. CASE Current.project = OwnProject(object)
  <2>1. todo # <<>> /\ todo[1] # <<>> /\ OwnProject(object) # Empty
    BY <1>5 DEF Asking, Done, NeedsProject
  <2>2. todo[1] # OwnStage
    <3>1. Check(object, ProjectPath, "Project", Empty).project = Empty
      BY DEF Check
    <3>2. SUFFICES ASSUME todo[1] = OwnStage PROVE FALSE
      OBVIOUS
    <3> DEFINE own == Check(object, ProjectPath, "Project", Empty)
    <3>3. todo[1] = <<<<own>>>>
      BY <3>2, Zenon DEF OwnStage
    <3> HIDE DEF own
    <3>4. Current = own
      BY <3>3 DEF Current
    <3>5. QED
      BY <3>1, <3>4 DEF NeedsProject, own
  <2>3. QED
    BY <1>5, <2>1, <2>2 DEF ProjectsInv, OwnProjectFirst
<1>6. QED
  BY <1>4, <1>5

\* Nothing is reported as missing in a project that is missing itself
\* (checkReferencedObjects and the checks of each kind: "If the project does not exist,
\* we shouldn't check the other fields"), for any object, any changes of the platform and
\* any answers in the cache.
THEOREM ProjectsAlwaysFirst == Spec => []ProjectsComeFirst
<1>1. Init => ProjectsInv
  BY ProjectsInit
<1>2. ProjectsInv /\ [Next]_vars => ProjectsInv'
  <2> SUFFICES ASSUME ProjectsInv, [Next]_vars
               PROVE  ProjectsInv'
    OBVIOUS
  <2>1. TypeInv' /\ ProjectsInOrder' /\ OwnProjectFirst'
    BY TypeStep, OrderStep, OwnProjectStep DEF ProjectsInv
  <2>2. ASSUME NEW c \in reported', NeedsProject(c)
        PROVE  Seen(c.project, past', failed')
    <3>1. Seen(c.project, past, failed)
      <4>1. CASE c \in reported
        BY <2>2, <4>1 DEF ProjectsInv, ProjectsComeFirst, Seen, NeedsProject
      <4>2. CASE c \notin reported
        <5>1. Miss
          BY <4>2, StepShapes DEF Skip, Find, Fail, NextStage
        <5>2. c = Current /\ Asking
          BY <4>2, <5>1 DEF Miss
        <5>3. QED
          BY <2>2, <5>2, CurrentInOrder
      <4>3. QED
        BY <4>1, <4>2
    <3>2. platform \in past
      BY DEF ProjectsInv, TypeInv, TypeOK
    <3>3. QED
      BY <3>1, <3>2, SeenStays
  <2>3. ProjectsComeFirst'
    BY <2>2 DEF ProjectsComeFirst, NeedsProject, Seen, Found, ProjectScopedKinds
  <2>4. QED
    BY <2>1, <2>3 DEF ProjectsInv
<1>3. ProjectsInv => ProjectsComeFirst
  BY DEF ProjectsInv
<1>4. QED
  BY <1>1, <1>2, <1>3, PTL DEF Spec

-----------------------------------------------------------------------------
(* No check is forgotten.                                                   *)

SettledInv == TypeInv /\ RestsHidden /\ LeadersFirst /\ NothingForgotten

\* At the beginning everything is still to be asked.
LEMMA SettledInit ==
  ASSUME Init
  PROVE  SettledInv
<1>1. TypeInv
  BY TypeInit
<1>2. RestsHidden
  BY InitialStages DEF RestsHidden, WellOrdered
<1>3. LeadersFirst
  <2>1. IsFiniteSet(DOMAIN object.fields) /\ todo = Stages(object) /\ reported = {}
    BY ChecksAssumption DEF Init
  <2>2. CASE HasFirstStage(object)
    <3>1. /\ todo = <<FirstStage(object), Chains(object)>> /\ Len(todo) = 2
          /\ DOMAIN todo = {1, 2} /\ todo[1] = FirstStage(object)
      BY <2>1, <2>2, StageForms
    <3>2. ASSUME NEW ch \in ToSet(FirstStage(object)), NEW c \in ToSet(ch)
          PROVE  Leads(c)
      <4>1. CASE object.kind \in ProjectScopedKinds
        <5> DEFINE own == Check(object, ProjectPath, "Project", Empty)
        <5>1. own.path = ProjectPath
          BY DEF Check
        <5>2. FirstStage(object) = <<<<own>>>>
          BY <4>1, Zenon DEF FirstStage
        <5> HIDE DEF own
        <5>3. ch = <<own>>
          BY <3>2, <5>2, OneElement
        <5>4. c = own
          BY <3>2, <5>3, OneElement
        <5>5. QED
          BY <5>1, <5>4 DEF Leads
      <4>2. CASE object.kind \notin ProjectScopedKinds
        <5>1. FirstStage(object) = Each(object, "spec.filters.projects[*]", "Project", Empty)
          BY <4>2 DEF FirstStage
        <5>2. ch \in EachChain(object, "spec.filters.projects[*]", "Project", Empty)
          BY <2>1, <3>2, <5>1, EachElements, Zenon
        <5>3. PICK i : ch = <<Check(object, <<"spec.filters.projects[*]", <<i>>>>, "Project", Empty)>>
          BY <5>2 DEF EachChain
        <5>4. c = Check(object, <<"spec.filters.projects[*]", <<i>>>>, "Project", Empty)
          BY <3>2, <5>3, OneElement
        <5>5. QED
          BY <5>4 DEF Leads, Check
      <4>3. QED
        BY <4>1, <4>2
    <3>3. QED
      BY <2>1, <3>1, <3>2 DEF LeadersFirst
  <2>3. CASE ~HasFirstStage(object)
    <3>1. todo = <<Chains(object)>> /\ Len(todo) = 1 /\ DOMAIN todo = {1}
      BY <2>1, <2>3, StageForms
    <3>2. QED
      BY <2>1, <3>1 DEF LeadersFirst
  <2>4. QED
    BY <2>2, <2>3
<1>4. NothingForgotten
  BY DEF Init, NothingForgotten, Checks
<1>5. QED
  BY <1>1, <1>2, <1>3, <1>4 DEF SettledInv

\* The rest of the present chain: its elements and their order.
LEMMA RestOfChain ==
  ASSUME TypeInv, Asking
  PROVE  /\ ToSet(todo[1][1]) = {Current} \union ToSet(Tail(todo[1][1]))
         /\ HidesRest(todo[1][1]) => HidesRest(Tail(todo[1][1]))
         /\ HidesRest(todo[1][1]) /\ Asked(Current) =>
              \A c \in ToSet(Tail(todo[1][1])) : Asked(c) => Hides(Current, c)
<1> DEFINE ch == todo[1][1]
           rest == Tail(ch)
<1>1. /\ ch \in Seq(C) /\ ch # <<>> /\ Current = ch[1] /\ 1 \in DOMAIN ch
  BY CurrentChain
<1> HIDE DEF ch
<1>2. /\ rest \in Seq(C) /\ DOMAIN rest = 1..Len(rest) /\ Len(rest) \in Nat
      /\ \A i \in DOMAIN rest : i + 1 \in DOMAIN ch /\ rest[i] = ch[i + 1]
      /\ ToSet(ch) = {ch[1]} \union ToSet(rest)
  BY <1>1, TailElements, LenProperties
<1> HIDE DEF rest
<1>3. HidesRest(ch) => HidesRest(rest)
  BY <1>2 DEF HidesRest
<1>4. ASSUME HidesRest(ch), Asked(Current), NEW c \in ToSet(rest), Asked(c)
      PROVE  Hides(Current, c)
  <2>1. PICK i \in DOMAIN rest : c = rest[i]
    BY <1>4 DEF ToSet
  <2>2. i + 1 \in DOMAIN ch /\ c = ch[i + 1] /\ 1 < i + 1
    BY <1>2, <2>1
  <2>3. QED
    BY <1>1, <1>4, <2>2 DEF HidesRest
<1>5. QED
  BY <1>1, <1>2, <1>3, <1>4 DEF rest, ch

\* Every step keeps in each chain that the earlier hides the later.
LEMMA HidesStep ==
  ASSUME TypeInv, RestsHidden, [Next]_vars
  PROVE  RestsHidden'
<1>1. CASE Skip \/ Find \/ Fail \/ Miss
  <2>1. Asking /\ todo' \in {NextChain, Continue}
    BY <1>1 DEF Skip, Find, Fail, Miss
  <2>2. DOMAIN todo' = DOMAIN todo
    BY <2>1, TodoAdvances
  <2>3. HidesRest(Tail(todo[1][1]))
    BY <2>1, CurrentChain, RestOfChain DEF RestsHidden
  <2>4. ASSUME NEW s \in DOMAIN todo, NEW ch \in ToSet(todo'[s])
        PROVE  HidesRest(ch)
    <3>1. ch \in ToSet(todo[s]) \/ ch = Tail(todo[1][1])
      BY <2>1, <2>4, TodoAdvances
    <3>2. QED
      BY <2>3, <3>1 DEF RestsHidden
  <2>5. QED
    BY <2>2, <2>4 DEF RestsHidden
<1>2. CASE NextStage
  BY <1>2, LaterStages DEF RestsHidden
<1>3. CASE UNCHANGED <<object, todo, reported, failed>>
  BY <1>3 DEF RestsHidden
<1>4. QED
  BY <1>1, <1>2, <1>3, StepShapes

\* Every step keeps what leads before what follows.
LEMMA LeadersStep ==
  ASSUME TypeInv, LeadersFirst, [Next]_vars
  PROVE  LeadersFirst'
<1>1. CASE Skip \/ Find \/ Fail \/ Miss
  <2>1. Asking /\ todo' \in {NextChain, Continue}
    BY <1>1 DEF Skip, Find, Fail, Miss
  <2>2. DOMAIN todo' = DOMAIN todo /\ Len(todo') = Len(todo) /\ Len(todo) \in Nat
    BY <2>1, TodoAdvances, CurrentChain
  <2>3. ASSUME NEW s \in DOMAIN todo, s < Len(todo), NEW ch \in ToSet(todo'[s]), NEW c \in ToSet(ch)
        PROVE  Leads(c)
    <3>1. CASE ch \in ToSet(todo[s])
      BY <2>3, <3>1 DEF LeadersFirst
    <3>2. CASE s = 1 /\ ch = Tail(todo[1][1])
      <4>1. c \in ToSet(todo[1][1])
        BY <2>1, <2>3, <3>2, RestOfChain
      <4>2. QED
        BY <2>1, <2>3, <3>2, <4>1, CurrentChain DEF LeadersFirst
    <3>3. QED
      BY <2>1, <2>3, <3>1, <3>2, TodoAdvances
  <2>4. ASSUME Len(todo) > 1, NEW c \in reported'
        PROVE  Leads(c)
    <3>1. CASE c \in reported
      BY <2>4, <3>1 DEF LeadersFirst
    <3>2. CASE c = Current
      <4>1. 1 \in DOMAIN todo /\ 1 < Len(todo)
        BY <2>1, <2>2, <2>4, CurrentChain
      <4>2. QED
        BY <2>1, <3>2, <4>1, CurrentChain DEF LeadersFirst
    <3>3. QED
      BY <1>1, <2>4, <3>1, <3>2 DEF Skip, Find, Fail, Miss
  <2>5. QED
    BY <2>2, <2>3, <2>4 DEF LeadersFirst
<1>2. CASE NextStage
  <2>1. Len(todo') > 1 => Len(todo') = Len(todo) - 1 /\ reported' = {}
    <3>1. Len(todo') \in Nat /\ reported' = reported
      BY <1>2, LaterStages DEF NextStage
    <3>2. CASE todo' = <<>>
      BY <3>2
    <3>3. CASE todo' # <<>>
      <4>1. reported = {}
        BY <1>2, <3>3, LaterStages
      <4>2. QED
        BY <1>2, <3>1, <4>1, LaterStages
    <3>4. QED
      BY <3>2, <3>3
  <2>2. ASSUME NEW s \in DOMAIN todo', s < Len(todo')
        PROVE  s + 1 \in DOMAIN todo /\ todo'[s] = todo[s + 1] /\ s + 1 < Len(todo)
    <3>1. todo \in Seq(Seq(Seq(C))) /\ Len(todo) \in Nat
      BY LenProperties DEF TypeInv, TypeOK, C
    <3>2. Len(todo') \in Nat /\ DOMAIN todo' = 1..Len(todo')
      BY <1>2, LaterStages, LenProperties
    <3>3. Len(todo') = Len(todo) - 1
      BY <1>2, <2>2, <3>2, LaterStages
    <3>4. QED
      BY <1>2, <2>2, <3>1, <3>2, <3>3, LaterStages
  <2>3. QED
    BY <2>1, <2>2 DEF LeadersFirst
<1>3. CASE UNCHANGED <<object, todo, reported, failed>>
  BY <1>3 DEF LeadersFirst
<1>4. QED
  BY <1>1, <1>2, <1>3, StepShapes

\* What is settled stays so.
LEMMA SettledStays ==
  ASSUME [Next]_vars, platform \in past, NEW c, Settled(c)
  PROVE  Settled(c)'
BY HistoryGrows DEF Settled

\* Only the present chain leaves, or only its first check.
LEMMA PendingStays ==
  ASSUME TypeInv, Asking, NEW c, c \in ChecksIn(todo)
  PROVE  /\ c \in ChecksIn(NextChain) \/ c \in ToSet(todo[1][1])
         /\ c \in ChecksIn(Continue) \/ c = Current
<1>1. PICK s \in DOMAIN todo : \E ch \in ToSet(todo[s]) : c \in ToSet(ch)
  BY ElementsOfChecks
<1>2. PICK ch \in ToSet(todo[s]) : c \in ToSet(ch)
  BY <1>1
<1>3. CASE s # 1 \/ ch # todo[1][1]
  <2>1. ch \in ToSet(NextChain[s]) /\ s \in DOMAIN NextChain
    BY <1>2, <1>3, NextChainElements
  <2>2. ch \in ToSet(Continue[s]) /\ s \in DOMAIN Continue
    BY <1>2, <2>1, NextChainElements, ContinueElements
  <2>3. QED
    BY <1>2, <2>1, <2>2, ElementsOfChecks
<1>4. CASE s = 1 /\ ch = todo[1][1]
  <2>1. c = Current \/ c \in ToSet(Tail(todo[1][1]))
    BY <1>2, <1>4, RestOfChain
  <2>2. ASSUME c \in ToSet(Tail(todo[1][1]))
        PROVE  c \in ChecksIn(Continue)
    <3>1. Tail(todo[1][1]) # <<>>
      BY <2>2, NoElement
    <3>2. Tail(todo[1][1]) \in ToSet(Continue[1]) /\ 1 \in DOMAIN Continue
      BY <3>1, ContinueElements, CurrentChain
    <3>3. QED
      BY <2>2, <3>2, ElementsOfChecks
  <2>3. QED
    BY <1>2, <1>4, <2>1, <2>2
<1>5. QED
  BY <1>3, <1>4

\* No step forgets a check.
LEMMA ForgottenStep ==
  ASSUME SettledInv, [Next]_vars
  PROVE  NothingForgotten'
<1>1. TypeInv /\ platform \in past /\ object' = object
  BY HistoryGrows DEF SettledInv, TypeInv, TypeOK
<1>2. SUFFICES ASSUME NEW c \in Checks(object)
               PROVE  c \in ChecksIn(todo') \/ Settled(c)'
  BY <1>1 DEF NothingForgotten
<1>3. Asked(c)
  BY DEF Checks
<1>4. CASE Settled(c)
  BY <1>1, <1>4, SettledStays
<1>5. CASE c \in ChecksIn(todo)
  <2>1. CASE Skip
    BY <1>1, <1>3, <1>5, <2>1, PendingStays DEF Skip
  <2>2. CASE Miss
    <3>1. c \in ChecksIn(todo') \/ c \in ToSet(todo[1][1])
      BY <1>1, <1>5, <2>2, PendingStays DEF Miss
    <3>2. Current \in reported'
      BY <2>2 DEF Miss
    <3>3. ASSUME c \in ToSet(Tail(todo[1][1]))
          PROVE  Hides(Current, c)
      <4>1. HidesRest(todo[1][1])
        BY <1>1, <2>2, CurrentChain DEF SettledInv, RestsHidden, Miss
      <4>2. QED
        BY <1>1, <1>3, <2>2, <3>3, <4>1, RestOfChain DEF Miss
    <3>4. c = Current \/ c \in ToSet(Tail(todo[1][1])) \/ c \in ChecksIn(todo')
      BY <1>1, <2>2, <3>1, RestOfChain DEF Miss
    <3>5. Current = c => Settled(c)'
      BY <3>2 DEF Settled
    <3>6. Hides(Current, c) => Settled(c)'
      BY <3>2 DEF Settled
    <3>7. QED
      BY <3>3, <3>4, <3>5, <3>6
  <2>3. CASE Find
    <3>1. c \in ChecksIn(todo') \/ c = Current
      BY <1>1, <1>5, <2>3, PendingStays DEF Find
    <3>2. c = Current => \E w \in past' : Holds(w, c)
      BY <1>1, <2>3, FoundWasThere DEF Find
    <3>3. QED
      BY <3>1, <3>2 DEF Settled
  <2>4. CASE Fail
    <3>1. c \in ChecksIn(todo') \/ c = Current
      BY <1>1, <1>5, <2>4, PendingStays DEF Fail
    <3>2. c = Current => c \in failed'
      BY <2>4 DEF Fail
    <3>3. QED
      BY <3>1, <3>2 DEF Settled
  <2>5. CASE NextStage
    <3>1. PICK s \in DOMAIN todo : \E ch \in ToSet(todo[s]) : c \in ToSet(ch)
      BY <1>5, ElementsOfChecks
    <3>2. s # 1
      BY <2>5, <3>1, NoElement DEF NextStage
    <3>3. todo \in Seq(Seq(Seq(C))) /\ todo # <<>>
      BY <1>1, <2>5 DEF TypeInv, TypeOK, C, NextStage, Done
    <3>4. Len(todo) \in Nat /\ DOMAIN todo = 1..Len(todo)
      BY <3>3, LenProperties
    <3>5. CASE reported = {}
      <4>1. todo' = Tail(todo)
        BY <2>5, <3>5 DEF NextStage
      <4>2. s - 1 \in DOMAIN todo' /\ \A i \in DOMAIN todo' : todo'[i] = todo[i + 1]
        BY <3>2, <3>3, <4>1, TailElements
      <4>3. todo'[s - 1] = todo[s]
        BY <3>4, <4>2
      <4>4. QED
        BY <3>1, <4>2, <4>3, ElementsOfChecks
    <3>6. CASE reported # {}
      <4>1. PICK d \in reported : TRUE
        BY <3>6
      <4>2. Leads(d)
        BY <3>2, <3>4 DEF SettledInv, LeadersFirst
      <4>3. d \in reported'
        BY <2>5 DEF NextStage
      <4>4. QED
        BY <4>2, <4>3 DEF Settled, Hides, Leads
    <3>7. QED
      BY <3>5, <3>6
  <2>6. CASE UNCHANGED <<object, todo, reported, failed>>
    BY <1>5, <2>6
  <2>7. QED
    BY <2>1, <2>2, <2>3, <2>4, <2>5, <2>6, StepShapes
<1>6. QED
  BY <1>4, <1>5 DEF SettledInv, NothingForgotten

\* The whole invariant is inductive.
LEMMA SettledStep ==
  ASSUME SettledInv, [Next]_vars
  PROVE  SettledInv'
BY TypeStep, HidesStep, LeadersStep, ForgottenStep DEF SettledInv

\* When the check of an object ends, no check of it is left over: it was made, or a report
\* explains why not (every continue and return of provider.go:128-764), for any object.
THEOREM ChecksAlwaysSettled == Spec => []SettledWhenDone
<1>1. Init => SettledInv
  BY SettledInit
<1>2. SettledInv /\ [Next]_vars => SettledInv'
  BY SettledStep
<1>3. SettledInv => SettledWhenDone
  <2>1. ChecksIn(<<>>) = {}
    BY DEF ChecksIn
  <2>2. QED
    BY <2>1 DEF SettledInv, NothingForgotten, SettledWhenDone, Done
<1>4. QED
  BY <1>1, <1>2, <1>3, PTL DEF Spec

-----------------------------------------------------------------------------
(* The checks that are made of an object.                                   *)

\* The checks of a chain that Located makes, and of a list of such chains.
LocatedCheck(o, c, projectField, nameField, index, kind, default) ==
  \/ c = Check(o, <<projectField, index>>, "Project", Empty)
  \/ c = Check(o, <<nameField, index>>, kind,
               IF Field(o, <<projectField, index>>) = Empty THEN default
               ELSE Field(o, <<projectField, index>>))

ListCheck(o, c, projectField, nameField, kind, default) ==
  \E i \in 1..Count(o, {projectField, nameField}, <<>>) :
    LocatedCheck(o, c, projectField, nameField, <<i>>, kind, default)

EachCheck(o, c, field, kind, project) ==
  \E i \in 1..Count(o, {field}, <<>>) : c = Check(o, <<field, <<i>>>>, kind, project)

ComponentCheck(o, c) ==
  \E i \in 1..CountOuter(o, ComponentFields) : \E j \in 1..Count(o, ComponentFields, <<i>>) :
    \/ LocatedCheck(o, c, ComponentProject, ComponentSLO, <<i, j>>, "SLO", Empty)
    \/ c = ObjectiveCheck(o, <<ComponentObjective, <<i, j>>>>,
                          Field(o, <<ComponentSLO, <<i, j>>>>),
                          Field(o, <<ComponentProject, <<i, j>>>>))

\* The checks of the chains of each kind.
ChainCheck(o, c) ==
  CASE o.kind = "SLO" ->
         \/ c = Check(o, <<"spec.service", <<>>>>, "Service", OwnProject(o))
         \/ EachCheck(o, c, "spec.alertPolicies[*]", "AlertPolicy", OwnProject(o))
         \/ LocatedCheck(o, c, "spec.indicator.metricSource.project", SourceField, <<>>,
                         SourceKind(o), OwnProject(o))
         \/ ListCheck(o, c, "spec.anomalyConfig.noData.alertMethods[*].project",
                      "spec.anomalyConfig.noData.alertMethods[*].name", "AlertMethod",
                      OwnProject(o))
         \/ ComponentCheck(o, c)
    [] o.kind = "AlertPolicy" ->
         ListCheck(o, c, "spec.alertMethods[*].metadata.project",
                   "spec.alertMethods[*].metadata.name", "AlertMethod", OwnProject(o))
    [] o.kind = "AlertSilence" ->
         \/ LocatedCheck(o, c, "spec.alertPolicy.project", "spec.alertPolicy.name", <<>>,
                         "AlertPolicy", OwnProject(o))
         \/ c = Check(o, <<"spec.slo", <<>>>>, "SLO", OwnProject(o))
    [] o.kind = "Annotation" ->
         \/ c = Check(o, <<"spec.slo", <<>>>>, "SLO", OwnProject(o))
         \/ c = ObjectiveCheck(o, <<"spec.objectiveName", <<>>>>,
                               Field(o, <<"spec.slo", <<>>>>), OwnProject(o))
    [] o.kind = "BudgetAdjustment" ->
         ListCheck(o, c, "spec.filters.slos[*].project", "spec.filters.slos[*].name", "SLO", Empty)
    [] o.kind = "Report" ->
         \/ ListCheck(o, c, "spec.filters.services[*].project",
                      "spec.filters.services[*].name", "Service", Empty)
         \/ ListCheck(o, c, "spec.filters.slos[*].project", "spec.filters.slos[*].name",
                      "SLO", Empty)
    [] o.kind = "RoleBinding" ->
         \/ c = Check(o, <<"spec.roleRef", <<>>>>,
                      IF Field(o, <<"spec.projectRef", <<>>>>) # Empty
                      THEN "ProjectRole" ELSE "OrganizationRole", Empty)
         \/ c = Check(o, <<"spec.projectRef", <<>>>>, "Project", Empty)
         \/ c = Check(o, <<"spec.groupRef", <<>>>>, "UserGroup",
                      Field(o, <<"spec.projectRef", <<>>>>))
         \/ c = Check(o, <<"spec.user", <<>>>>, "User", Empty)
    [] o.kind = "UserGroup" -> EachCheck(o, c, "spec.members[*].id", "User", Empty)
    [] OTHER -> FALSE

\* All of them.
CheckOf(o, c) ==
  \/ o.kind \in ProjectScopedKinds /\ c = Check(o, ProjectPath, "Project", Empty)
  \/ o.kind = "Report" /\ EachCheck(o, c, "spec.filters.projects[*]", "Project", Empty)
  \/ ChainCheck(o, c)

InChains(chains, c) == \E ch \in chains : c \in ToSet(ch)

\* Membership, set by set.
LEMMA InUnion ==
  ASSUME NEW c, NEW S, NEW T
  PROVE  InChains(S \union T, c) <=> InChains(S, c) \/ InChains(T, c)
BY DEF InChains

\* Of a single chain.
LEMMA InOne ==
  ASSUME NEW c, NEW ch
  PROVE  InChains({ch}, c) <=> c \in ToSet(ch)
BY DEF InChains

\* Of the chain of Located.
LEMMA InLocated ==
  ASSUME NEW o, NEW c, NEW projectField, NEW nameField, NEW index, NEW kind, NEW default
  PROVE  c \in ToSet(Located(o, projectField, nameField, index, kind, default))
           <=> LocatedCheck(o, c, projectField, nameField, index, kind, default)
<1> DEFINE project == Field(o, <<projectField, index>>)
           a == Check(o, <<projectField, index>>, "Project", Empty)
           b == Check(o, <<nameField, index>>, kind, IF project = Empty THEN default ELSE project)
<1>1. Located(o, projectField, nameField, index, kind, default) = <<a, b>>
  BY Zenon DEF Located
<1>2. LocatedCheck(o, c, projectField, nameField, index, kind, default) <=> c = a \/ c = b
  BY Zenon DEF LocatedCheck
<1> HIDE DEF a, b, project
<1>3. QED
  BY <1>1, <1>2, TwoElements

\* Of the chains of EachLocated.
LEMMA InLocatedChains ==
  ASSUME NEW o, NEW c, NEW projectField, NEW nameField, NEW kind, NEW default
  PROVE  InChains(LocatedChains(o, projectField, nameField, kind, default), c)
           <=> ListCheck(o, c, projectField, nameField, kind, default)
BY InLocated DEF InChains, LocatedChains, ListCheck

\* Of the chains of Each.
LEMMA InEachChain ==
  ASSUME NEW o, NEW c, NEW field, NEW kind, NEW project
  PROVE  InChains(EachChain(o, field, kind, project), c) <=> EachCheck(o, c, field, kind, project)
<1>1. \A i : c \in ToSet(<<Check(o, <<field, <<i>>>>, kind, project)>>)
                <=> c = Check(o, <<field, <<i>>>>, kind, project)
  BY OneElement
<1>2. QED
  BY <1>1, Zenon DEF InChains, EachChain, EachCheck

\* Of the chains of the components.
LEMMA InComponentChains ==
  ASSUME NEW o, NEW c
  PROVE  InChains(ComponentChains(o), c) <=> ComponentCheck(o, c)
<1>1. ASSUME NEW i, NEW j
      PROVE  c \in ToSet(ComponentChain(o, i, j)) <=>
               \/ LocatedCheck(o, c, ComponentProject, ComponentSLO, <<i, j>>, "SLO", Empty)
               \/ c = ObjectiveCheck(o, <<ComponentObjective, <<i, j>>>>,
                                     Field(o, <<ComponentSLO, <<i, j>>>>),
                                     Field(o, <<ComponentProject, <<i, j>>>>))
  <2> DEFINE project == Field(o, <<ComponentProject, <<i, j>>>>)
             a == Check(o, <<ComponentProject, <<i, j>>>>, "Project", Empty)
             b == Check(o, <<ComponentSLO, <<i, j>>>>, "SLO", IF project = Empty THEN Empty ELSE project)
             d == ObjectiveCheck(o, <<ComponentObjective, <<i, j>>>>,
                                 Field(o, <<ComponentSLO, <<i, j>>>>), project)
  <2>1. Located(o, ComponentProject, ComponentSLO, <<i, j>>, "SLO", Empty) = <<a, b>>
    BY Zenon DEF Located
  <2>2. ComponentChain(o, i, j) = Append(<<a, b>>, d)
    BY <2>1, Zenon DEF ComponentChain
  <2>3. LocatedCheck(o, c, ComponentProject, ComponentSLO, <<i, j>>, "SLO", Empty) <=> c = a \/ c = b
    BY Zenon DEF LocatedCheck
  <2>4. d = ObjectiveCheck(o, <<ComponentObjective, <<i, j>>>>,
                           Field(o, <<ComponentSLO, <<i, j>>>>),
                           Field(o, <<ComponentProject, <<i, j>>>>))
    BY Zenon
  <2> HIDE DEF a, b, d
  <2>5. ComponentChain(o, i, j) = <<a, b, d>>
    BY <2>2, AppendThree
  <2>6. c \in ToSet(ComponentChain(o, i, j)) <=> c = a \/ c = b \/ c = d
    BY <2>5, ThreeElements
  <2>7. QED
    BY <2>3, <2>4, <2>6, Zenon
<1>2. QED
  <2>1. \A ch : ch \in ComponentChains(o) <=>
          \E i \in 1..CountOuter(o, ComponentFields) :
            \E j \in 1..Count(o, ComponentFields, <<i>>) : ch = ComponentChain(o, i, j)
    BY DEF ComponentChains
  <2>2. InChains(ComponentChains(o), c) <=>
          \E i \in 1..CountOuter(o, ComponentFields) :
            \E j \in 1..Count(o, ComponentFields, <<i>>) : c \in ToSet(ComponentChain(o, i, j))
    BY <2>1, Zenon DEF InChains
  <2>3. QED
    BY <1>1, <2>2, Zenon DEF ComponentCheck

\* Of the chains of any kind of object.
LEMMA ChainTable ==
  ASSUME NEW o, NEW c
  PROVE  InChains(ChainSet(o), c) <=> ChainCheck(o, c)
<1>1. CASE o.kind = "SLO"
  <2> DEFINE a == {<<Check(o, <<"spec.service", <<>>>>, "Service", OwnProject(o))>>}
             b == EachChain(o, "spec.alertPolicies[*]", "AlertPolicy", OwnProject(o))
             d == {Located(o, "spec.indicator.metricSource.project", SourceField, <<>>,
                           SourceKind(o), OwnProject(o))}
             e == LocatedChains(o, "spec.anomalyConfig.noData.alertMethods[*].project",
                                "spec.anomalyConfig.noData.alertMethods[*].name", "AlertMethod",
                                OwnProject(o))
             f == ComponentChains(o)
  <2>1. ChainSet(o) = a \union b \union d \union e \union f
    BY <1>1, Zenon DEF ChainSet
  <2>2. InChains(a, c) <=> c = Check(o, <<"spec.service", <<>>>>, "Service", OwnProject(o))
    BY InOne, OneElement
  <2>3. InChains(b, c) <=> EachCheck(o, c, "spec.alertPolicies[*]", "AlertPolicy", OwnProject(o))
    BY InEachChain
  <2>4. InChains(d, c) <=> LocatedCheck(o, c, "spec.indicator.metricSource.project", SourceField,
                                        <<>>, SourceKind(o), OwnProject(o))
    BY InOne, InLocated
  <2>5. InChains(e, c) <=> ListCheck(o, c, "spec.anomalyConfig.noData.alertMethods[*].project",
                                     "spec.anomalyConfig.noData.alertMethods[*].name",
                                     "AlertMethod", OwnProject(o))
    BY InLocatedChains
  <2>6. InChains(f, c) <=> ComponentCheck(o, c)
    BY InComponentChains
  <2>7. ChainCheck(o, c) <=> InChains(a, c) \/ InChains(b, c) \/ InChains(d, c)
                               \/ InChains(e, c) \/ InChains(f, c)
    BY <1>1, <2>2, <2>3, <2>4, <2>5, <2>6, Zenon DEF ChainCheck
  <2> HIDE DEF a, b, d, e, f
  <2>8. InChains(ChainSet(o), c) <=> InChains(a \union b \union d \union e, c) \/ InChains(f, c)
    BY <2>1, InUnion
  <2>9. InChains(a \union b \union d \union e, c)
          <=> InChains(a \union b \union d, c) \/ InChains(e, c)
    BY InUnion
  <2>10. InChains(a \union b \union d, c) <=> InChains(a \union b, c) \/ InChains(d, c)
    BY InUnion
  <2>11. InChains(a \union b, c) <=> InChains(a, c) \/ InChains(b, c)
    BY InUnion
  <2>12. QED
    BY <2>7, <2>8, <2>9, <2>10, <2>11
<1>2. CASE o.kind = "AlertPolicy"
  BY <1>2, InLocatedChains, Zenon DEF ChainSet, ChainCheck
<1>3. CASE o.kind = "AlertSilence"
  <2> DEFINE a == Located(o, "spec.alertPolicy.project", "spec.alertPolicy.name", <<>>,
                          "AlertPolicy", OwnProject(o))
             b == Check(o, <<"spec.slo", <<>>>>, "SLO", OwnProject(o))
  <2>1. ChainSet(o) = {a, <<b>>}
    BY <1>3, Zenon DEF ChainSet
  <2>2. ChainCheck(o, c) <=> c \in ToSet(a) \/ c = b
    BY <1>3, InLocated, Zenon DEF ChainCheck
  <2> HIDE DEF a, b
  <2>3. QED
    BY <2>1, <2>2, OneElement DEF InChains
<1>4. CASE o.kind = "Annotation"
  <2> DEFINE a == Check(o, <<"spec.slo", <<>>>>, "SLO", OwnProject(o))
             b == ObjectiveCheck(o, <<"spec.objectiveName", <<>>>>,
                                 Field(o, <<"spec.slo", <<>>>>), OwnProject(o))
  <2>1. ChainSet(o) = {<<a, b>>}
    BY <1>4, Zenon DEF ChainSet
  <2>2. ChainCheck(o, c) <=> c = a \/ c = b
    BY <1>4, Zenon DEF ChainCheck
  <2> HIDE DEF a, b
  <2>3. QED
    BY <2>1, <2>2, TwoElements DEF InChains
<1>5. CASE o.kind = "BudgetAdjustment"
  BY <1>5, InLocatedChains, Zenon DEF ChainSet, ChainCheck
<1>6. CASE o.kind = "Report"
  BY <1>6, InLocatedChains, InUnion DEF ChainSet, ChainCheck
<1>7. CASE o.kind = "RoleBinding"
  <2> DEFINE project == Field(o, <<"spec.projectRef", <<>>>>)
             a == Check(o, <<"spec.roleRef", <<>>>>,
                        IF project # Empty THEN "ProjectRole" ELSE "OrganizationRole", Empty)
             b == Check(o, <<"spec.projectRef", <<>>>>, "Project", Empty)
             d == Check(o, <<"spec.groupRef", <<>>>>, "UserGroup", project)
             e == Check(o, <<"spec.user", <<>>>>, "User", Empty)
  <2>1. ChainSet(o) = {<<a>>, <<b>>, <<d>>, <<e>>}
    BY <1>7 DEF ChainSet
  <2>2. ChainCheck(o, c) <=> c = a \/ c = b \/ c = d \/ c = e
    BY <1>7 DEF ChainCheck
  <2> HIDE DEF a, b, d, e
  <2>3. QED
    BY <2>1, <2>2, OneElement DEF InChains
<1>8. CASE o.kind = "UserGroup"
  BY <1>8, InEachChain, Zenon DEF ChainSet, ChainCheck
<1>9. CASE o.kind \notin {"SLO", "Report", "AlertPolicy", "AlertSilence", "Annotation",
                          "BudgetAdjustment", "RoleBinding", "UserGroup"}
  BY <1>9 DEF ChainSet, ChainCheck, InChains
<1>10. QED
  BY <1>1, <1>2, <1>3, <1>4, <1>5, <1>6, <1>7, <1>8, <1>9

\* The checks that are made of an object, whatever their order.
LEMMA CheckTable ==
  ASSUME NEW o, IsFiniteSet(DOMAIN o.fields), NEW c
  PROVE  c \in ChecksIn(Stages(o)) <=> CheckOf(o, c)
<1>1. InChains(ToSet(Chains(o)), c) <=> ChainCheck(o, c)
  BY ChainElements, ChainTable
<1>2. CASE HasFirstStage(o)
  <2>1. Stages(o) = <<FirstStage(o), Chains(o)>>
    BY <1>2, StageForms
  <2>2. c \in ChecksIn(Stages(o)) <=>
          InChains(ToSet(FirstStage(o)), c) \/ InChains(ToSet(Chains(o)), c)
    BY <2>1, ElementsOfChecks DEF InChains
  <2>3. CASE o.kind \in ProjectScopedKinds
    <3> DEFINE own == Check(o, ProjectPath, "Project", Empty)
    <3>1. FirstStage(o) = <<<<own>>>>
      BY <2>3, Zenon DEF FirstStage
    <3>2. InChains(ToSet(FirstStage(o)), c) <=> c = own
      <4> HIDE DEF own
      <4>1. ToSet(FirstStage(o)) = {<<own>>} /\ ToSet(<<own>>) = {own}
        BY <3>1, OneElement
      <4>2. QED
        BY <4>1 DEF InChains
    <3>3. o.kind # "Report"
      BY <2>3 DEF ProjectScopedKinds
    <3>4. QED
      BY <1>1, <2>2, <2>3, <3>2, <3>3, Zenon DEF CheckOf
  <2>4. CASE o.kind \notin ProjectScopedKinds
    <3>1. FirstStage(o) = Each(o, "spec.filters.projects[*]", "Project", Empty)
      BY <2>4, Zenon DEF FirstStage
    <3>2. InChains(ToSet(FirstStage(o)), c)
            <=> EachCheck(o, c, "spec.filters.projects[*]", "Project", Empty)
      <4>1. ToSet(FirstStage(o)) = EachChain(o, "spec.filters.projects[*]", "Project", Empty)
        BY <3>1, EachElements, Zenon
      <4>2. QED
        BY <4>1, InEachChain, Zenon
    <3>3. o.kind = "Report"
      BY <1>2, <2>4 DEF HasFirstStage
    <3>4. QED
      BY <1>1, <2>2, <2>4, <3>2, <3>3, Zenon DEF CheckOf
  <2>5. QED
    BY <2>3, <2>4
<1>3. CASE ~HasFirstStage(o)
  <2>1. Stages(o) = <<Chains(o)>>
    BY <1>3, StageForms
  <2>2. c \in ChecksIn(Stages(o)) <=> InChains(ToSet(Chains(o)), c)
    BY <2>1, ElementsOfChecks DEF InChains
  <2>3. QED
    BY <1>1, <1>3, <2>2 DEF CheckOf, HasFirstStage
<1>4. QED
  BY <1>2, <1>3

-----------------------------------------------------------------------------
(* The rows of the table, and how a check fits one.                         *)

\* The rows of the table of references: one for each field of a kind.
LEMMA OneRow ==
  ASSUME NEW kind, NEW r \in References(kind), NEW q \in References(kind), r.at = q.at
  PROVE  r = q
<1>1. CASE kind = "SLO"
  BY <1>1 DEF References, SpecReferences, ProjectScopedKinds, Ref, Project, SourceField,
              ComponentProject, ComponentSLO, ComponentObjective
<1>2. CASE kind = "Report"
  BY <1>2 DEF References, SpecReferences, ProjectScopedKinds, Ref, Project
<1>3. CASE kind = "RoleBinding"
  BY <1>3 DEF References, SpecReferences, ProjectScopedKinds, Ref, Project
<1>4. CASE kind \in {"AlertPolicy", "AlertSilence", "Annotation", "BudgetAdjustment", "UserGroup"}
  BY <1>4 DEF References, SpecReferences, ProjectScopedKinds, Ref, Project
<1>5. CASE kind \notin {"SLO", "Report", "RoleBinding", "AlertPolicy", "AlertSilence",
                        "Annotation", "BudgetAdjustment", "UserGroup"}
  <2>1. SpecReferences(kind) = {}
    BY <1>5 DEF SpecReferences
  <2>2. QED
    BY <2>1 DEF References, Ref
<1>6. QED
  BY <1>1, <1>2, <1>3, <1>4, <1>5

\* A row whose kind is taken for an agent, as for the source of an SLO, is another row.
LEMMA AgentRow ==
  ASSUME NEW kind, NEW r \in References(kind)
  PROVE  LET agent == [r EXCEPT !.kind = "Agent"] IN
         agent.kind = "Agent" /\ agent.projectAt = r.projectAt
<1>1. \E at, k, projectAt, sloAt : r = Ref(at, k, projectAt, sloAt)
  BY DEF References, SpecReferences
<1>2. QED
  BY <1>1 DEF Ref

\* Get returns the row of a field, whichever CHOOSE might take.
LEMMA RowOf ==
  ASSUME NEW o, NEW path, NEW r \in References(o.kind), r.at = path[1]
  PROVE  IsReference(o, path) /\ Get(o, path) = r
<1>1. IsReference(o, path)
  BY DEF IsReference
<1>2. \E q \in References(o.kind) : q.at = path[1]
  OBVIOUS
<1>3. Get(o, path) \in References(o.kind) /\ Get(o, path).at = path[1]
  BY <1>2, Zenon DEF Get
<1>4. QED
  BY <1>1, <1>3, OneRow

\* Completion and hover read ref where the check c looks.
ReadsAlike(o, c, ref) ==
  c.project = Empty \/ c.kind \notin ProjectScopedKinds \/ c.project = ProjectName(o, ref, c.path[2])

\* The fields that completion and hover have a case of their own for.
OwnCase == {SourceField, "spec.user", "spec.members[*].id", "spec.roleRef"}

PlainRow(o, c) ==
  LET ref == Get(o, c.path) IN
  /\ c.path[1] \notin OwnCase
  /\ ref.sloAt = Empty /\ ref.kind = c.kind
  /\ ReadsAlike(o, c, ref)

SourceRow(o, c) ==
  LET ref == Get(o, c.path) IN
  /\ o.kind = "SLO" /\ c.path[1] = SourceField
  /\ ref.sloAt = Empty /\ c.kind = SourceKind(o)
  /\ ReadsAlike(o, c, [ref EXCEPT !.kind = "Agent"])

UserRow(o, c) ==
  /\ \/ o.kind = "RoleBinding" /\ c.path[1] = "spec.user"
     \/ o.kind = "UserGroup" /\ c.path[1] = "spec.members[*].id"
  /\ Get(o, c.path).sloAt = Empty /\ c.kind = "User"

RoleRow(o, c) ==
  LET ref == Get(o, c.path) IN
  /\ o.kind = "RoleBinding" /\ c.path[1] = "spec.roleRef"
  /\ ref.sloAt = Empty /\ ref.kind = Empty
  /\ c.kind = IF Field(o, <<"spec.projectRef", <<>>>>) # Empty
              THEN "ProjectRole" ELSE "OrganizationRole"
  /\ c.project = Empty

\* A project that the table takes for something in a project: nothing is offered or shown.
DeadRow(o, c) ==
  LET ref == Get(o, c.path) IN
  /\ c.path[1] \notin OwnCase
  /\ ref.sloAt = Empty /\ ref.projectAt = Empty /\ ref.kind \in ProjectScopedKinds

ObjectiveRow(o, c) ==
  LET ref == Get(o, c.path) IN
  /\ c.kind = "Objective"
  /\ ref.sloAt # Empty /\ ref.sloAt # ref.at /\ c.slo = Field(o, <<ref.sloAt, c.path[2]>>)
  /\ c.project = Empty \/ c.project = ProjectName(o, ref, c.path[2])

Fits(o, c) ==
  \/ ~IsReference(o, c.path)
  \/ PlainRow(o, c) \/ SourceRow(o, c) \/ UserRow(o, c) \/ RoleRow(o, c) \/ DeadRow(o, c)
  \/ ObjectiveRow(o, c)

\* What the names in the tables are not.
LEMMA NamesGiven ==
  /\ Empty \notin ProjectScopedKinds
  /\ Project # Empty
  /\ \A f \in {"spec.slo", "spec.indicator.metricSource.project", "spec.filters.slos[*].project",
               "spec.filters.services[*].project", "spec.alertPolicy.project",
               "spec.alertMethods[*].metadata.project", ComponentProject, ComponentSLO,
               "spec.anomalyConfig.noData.alertMethods[*].project"} : f # Empty
BY Zenon DEF Empty, ProjectScopedKinds, Project, ComponentProject, ComponentSLO

\* Which kinds lie in projects.
LEMMA KindsInProjects ==
  /\ {"SLO", "Service", "AlertPolicy", "AlertSilence", "AlertMethod", "Annotation", "Agent"}
       \subseteq ProjectScopedKinds
  /\ {"Project", "User", "UserGroup", "ProjectRole", "OrganizationRole", "Objective", "Report",
      "RoleBinding", "BudgetAdjustment"} \intersect ProjectScopedKinds = {}
BY DEF ProjectScopedKinds

\* The fields of a check.
LEMMA CheckFields ==
  ASSUME NEW o, NEW path, NEW kind, NEW project
  PROVE  LET c == Check(o, path, kind, project) IN
         /\ c.path = path /\ c.kind = kind /\ c.project = project /\ c.name = Field(o, path)
BY DEF Check

\* The fields of the check of an objective.
LEMMA ObjectiveFields ==
  ASSUME NEW o, NEW path, NEW slo, NEW project
  PROVE  LET c == ObjectiveCheck(o, path, slo, project) IN
         /\ c.path = path /\ c.kind = "Objective" /\ c.project = project
         /\ c.name = Field(o, path) /\ c.slo = slo
BY DEF ObjectiveCheck

\* The fields of a row.
LEMMA RefFields ==
  ASSUME NEW at, NEW kind, NEW projectAt, NEW sloAt
  PROVE  LET r == Ref(at, kind, projectAt, sloAt) IN
         r.at = at /\ r.kind = kind /\ r.projectAt = projectAt /\ r.sloAt = sloAt
BY DEF Ref

\* A project, named by a field of its own.
LEMMA ProjectFits ==
  ASSUME NEW o, NEW field, NEW index, field \notin OwnCase,
         Ref(field, "Project", Empty, Empty) \in References(o.kind)
  PROVE  PlainRow(o, Check(o, <<field, index>>, "Project", Empty))
<1> DEFINE ref == Ref(field, "Project", Empty, Empty)
           c == Check(o, <<field, index>>, "Project", Empty)
<1>1. /\ c.path = <<field, index>> /\ c.kind = "Project" /\ c.project = Empty
      /\ ref.at = field /\ ref.kind = "Project" /\ ref.sloAt = Empty
  BY CheckFields, RefFields
<1> HIDE DEF ref, c
<1>2. ref \in References(o.kind)
  BY DEF ref
<1>3. c.path[1] = field
  BY <1>1
<1>4. Get(o, c.path) = ref /\ c.path[1] = field
  BY <1>1, <1>2, <1>3, RowOf
<1>5. PlainRow(o, c)
  BY <1>1, <1>4 DEF PlainRow, ReadsAlike
<1>6. QED
  BY <1>5 DEF c

\* Diagnostics and completion default the project alike.
LEMMA LocatedProject ==
  ASSUME NEW o, NEW projectField, NEW index, NEW kind, NEW default, NEW ref,
         default = Empty \/ default = Field(o, ProjectPath),
         projectField # Empty, ref.projectAt = projectField, ref.kind = kind
  PROVE  LET project == IF Field(o, <<projectField, index>>) = Empty THEN default
                        ELSE Field(o, <<projectField, index>>)
         IN project = Empty \/ kind \notin ProjectScopedKinds \/ project = ProjectName(o, ref, index)
BY DEF ProjectName

\* A name in a project that is named beside it.
LEMMA LocatedFits ==
  ASSUME NEW o, NEW projectField, NEW nameField, NEW index, NEW kind, NEW default, NEW c,
         default = Empty \/ default = Field(o, ProjectPath),
         projectField # Empty, projectField \notin OwnCase, nameField \notin OwnCase,
         Ref(projectField, "Project", Empty, Empty) \in References(o.kind),
         Ref(nameField, kind, projectField, Empty) \in References(o.kind),
         LocatedCheck(o, c, projectField, nameField, index, kind, default)
  PROVE  PlainRow(o, c)
<1> DEFINE project == IF Field(o, <<projectField, index>>) = Empty THEN default
                      ELSE Field(o, <<projectField, index>>)
           d == Check(o, <<nameField, index>>, kind, project)
           ref == Ref(nameField, kind, projectField, Empty)
<1>1. CASE c = Check(o, <<projectField, index>>, "Project", Empty)
  BY <1>1, ProjectFits
<1>2. CASE c = d
  <2>1. /\ d.path = <<nameField, index>> /\ d.kind = kind /\ d.project = project
        /\ ref.at = nameField /\ ref.kind = kind /\ ref.projectAt = projectField
        /\ ref.sloAt = Empty
    BY CheckFields, RefFields
  <2>2. project = Empty \/ kind \notin ProjectScopedKinds \/ project = ProjectName(o, ref, index)
    BY <2>1, LocatedProject
  <2> HIDE DEF d, project, ref
  <2>3. d.path[1] = nameField /\ d.path[2] = index
    BY <2>1
  <2>4. Get(o, d.path) = ref
    BY <2>1, <2>3, RowOf DEF ref
  <2>5. QED
    BY <1>2, <2>1, <2>2, <2>3, <2>4 DEF PlainRow, ReadsAlike
<1>3. QED
  BY <1>1, <1>2, Zenon DEF LocatedCheck

\* A name in the object's own project.
LEMMA OwnNameFits ==
  ASSUME NEW o, NEW field, NEW kind, field \notin OwnCase, o.kind \in ProjectScopedKinds,
         Ref(field, kind, Project, Empty) \in References(o.kind)
  PROVE  PlainRow(o, Check(o, <<field, <<>>>>, kind, OwnProject(o)))
<1> DEFINE c == Check(o, <<field, <<>>>>, kind, OwnProject(o))
           ref == Ref(field, kind, Project, Empty)
<1>1. /\ c.path = <<field, <<>>>> /\ c.kind = kind /\ c.project = OwnProject(o)
      /\ ref.at = field /\ ref.kind = kind /\ ref.projectAt = Project /\ ref.sloAt = Empty
  BY CheckFields, RefFields
<1>2. OwnProject(o) = Field(o, ProjectPath) /\ <<Project, <<>>>> = ProjectPath /\ Project # Empty
  BY NamesGiven DEF OwnProject, ProjectPath, Project
<1> HIDE DEF c, ref
<1>3. c.path[1] = field /\ c.path[2] = <<>>
  BY <1>1
<1>4. Get(o, c.path) = ref
  BY <1>1, <1>3, RowOf DEF ref
<1>5. c.project = Empty \/ c.project = ProjectName(o, ref, c.path[2])
  BY <1>1, <1>2, <1>3 DEF ProjectName
<1>6. PlainRow(o, c)
  BY <1>1, <1>3, <1>4, <1>5 DEF PlainRow, ReadsAlike
<1>7. QED
  BY <1>6 DEF c

\* The check of an object's own project.
LEMMA OwnProjectFits ==
  ASSUME NEW o, o.kind \in ProjectScopedKinds
  PROVE  PlainRow(o, Check(o, ProjectPath, "Project", Empty))
<1>1. Ref(Project, "Project", Empty, Empty) \in References(o.kind)
  BY Zenon DEF References
<1>2. Project \notin OwnCase
  BY DEF Project, OwnCase, SourceField
<1>3. ProjectPath = <<Project, <<>>>>
  BY DEF ProjectPath, Project
<1>4. QED
  BY <1>1, <1>2, <1>3, ProjectFits

\* The names of a list of such, and of components.
LEMMA ListFits ==
  ASSUME NEW o, NEW projectField, NEW nameField, NEW kind, NEW default, NEW c,
         default = Empty \/ default = Field(o, ProjectPath),
         projectField # Empty, projectField \notin OwnCase, nameField \notin OwnCase,
         Ref(projectField, "Project", Empty, Empty) \in References(o.kind),
         Ref(nameField, kind, projectField, Empty) \in References(o.kind),
         ListCheck(o, c, projectField, nameField, kind, default)
  PROVE  PlainRow(o, c)
BY LocatedFits DEF ListCheck

\* An objective of the SLO beside it.
LEMMA ObjectiveFits ==
  ASSUME NEW o, NEW field, NEW index, NEW slo, NEW project, NEW ref \in References(o.kind),
         ref.at = field, ref.sloAt # Empty, ref.sloAt # field,
         slo = Field(o, <<ref.sloAt, index>>),
         project = Empty \/ project = ProjectName(o, ref, index)
  PROVE  ObjectiveRow(o, ObjectiveCheck(o, <<field, index>>, slo, project))
<1> DEFINE c == ObjectiveCheck(o, <<field, index>>, slo, project)
<1>1. /\ c.path = <<field, index>> /\ c.kind = "Objective" /\ c.project = project /\ c.slo = slo
  BY ObjectiveFields
<1> HIDE DEF c
<1>2. c.path[1] = field /\ c.path[2] = index
  BY <1>1
<1>3. Get(o, c.path) = ref
  BY <1>2, RowOf
<1>4. ObjectiveRow(o, c)
  BY <1>1, <1>2, <1>3 DEF ObjectiveRow
<1>5. QED
  BY <1>4 DEF c

\* The rows of an SLO.
LEMMA SLORows ==
  /\ Ref("spec.service", "Service", Project, Empty) \in References("SLO")
  /\ Ref(SourceField, Empty, "spec.indicator.metricSource.project", Empty) \in References("SLO")
  /\ Ref("spec.indicator.metricSource.project", "Project", Empty, Empty) \in References("SLO")
  /\ Ref(ComponentProject, "Project", Empty, Empty) \in References("SLO")
  /\ Ref(ComponentSLO, "SLO", ComponentProject, Empty) \in References("SLO")
  /\ Ref(ComponentObjective, "SLO", ComponentProject, ComponentSLO) \in References("SLO")
  /\ Ref("spec.anomalyConfig.noData.alertMethods[*].name", "AlertMethod",
         "spec.anomalyConfig.noData.alertMethods[*].project", Empty) \in References("SLO")
  /\ Ref("spec.anomalyConfig.noData.alertMethods[*].project", "Project", Empty, Empty)
       \in References("SLO")
BY DEF References, SpecReferences

\* Which fields have no case of their own.
LEMMA NotOwnCases ==
  /\ {"spec.service", "spec.indicator.metricSource.project", ComponentProject, ComponentSLO,
      ComponentObjective, "spec.anomalyConfig.noData.alertMethods[*].name",
      "spec.anomalyConfig.noData.alertMethods[*].project",
      "spec.alertMethods[*].metadata.project", "spec.alertMethods[*].metadata.name",
      "spec.alertPolicy.project", "spec.alertPolicy.name", "spec.slo", "spec.objectiveName",
      "spec.filters.slos[*].project", "spec.filters.slos[*].name", "spec.filters.projects[*]",
      "spec.filters.services[*].project", "spec.filters.services[*].name",
      "spec.projectRef", "spec.groupRef"} \intersect OwnCase = {}
  /\ {SourceField, "spec.user", "spec.members[*].id", "spec.roleRef"} \subseteq OwnCase
BY DEF OwnCase, SourceField, ComponentProject, ComponentSLO, ComponentObjective

-----------------------------------------------------------------------------
(* Every check fits, kind by kind.                                          *)

\* Every check of an SLO fits.
LEMMA SLOFits ==
  ASSUME NEW o, o.kind = "SLO", NEW c, ChainCheck(o, c)
  PROVE  Fits(o, c)
<1>1. OwnProject(o) = Field(o, ProjectPath) /\ o.kind \in ProjectScopedKinds
  BY KindsInProjects DEF OwnProject
<1>2. CASE c = Check(o, <<"spec.service", <<>>>>, "Service", OwnProject(o))
  <2>1. PlainRow(o, c)
    BY <1>1, <1>2, SLORows, NotOwnCases, OwnNameFits
  <2>2. QED
    BY <2>1 DEF Fits
<1>3. CASE EachCheck(o, c, "spec.alertPolicies[*]", "AlertPolicy", OwnProject(o))
  <2>1. PICK i : c = Check(o, <<"spec.alertPolicies[*]", <<i>>>>, "AlertPolicy", OwnProject(o))
    BY <1>3 DEF EachCheck
  <2>2. c.path = <<"spec.alertPolicies[*]", <<i>>>>
    BY <2>1 DEF Check
  <2>3. ~IsReference(o, c.path)
    BY <2>2 DEF IsReference, References, SpecReferences, Ref, Project, SourceField,
                ComponentProject, ComponentSLO, ComponentObjective
  <2>4. QED
    BY <2>3 DEF Fits
<1>4. CASE LocatedCheck(o, c, "spec.indicator.metricSource.project", SourceField, <<>>,
                        SourceKind(o), OwnProject(o))
  <2> DEFINE at == "spec.indicator.metricSource.project"
             project == IF Field(o, <<at, <<>>>>) = Empty THEN OwnProject(o)
                        ELSE Field(o, <<at, <<>>>>)
             d == Check(o, <<SourceField, <<>>>>, SourceKind(o), project)
             ref == Ref(SourceField, Empty, at, Empty)
             agent == [ref EXCEPT !.kind = "Agent"]
  <2>1. CASE c = Check(o, <<at, <<>>>>, "Project", Empty)
    <3>1. PlainRow(o, c)
      BY <2>1, SLORows, NotOwnCases, ProjectFits
    <3>2. QED
      BY <3>1 DEF Fits
  <2>2. CASE c = d
    <3>1. /\ d.path = <<SourceField, <<>>>> /\ d.kind = SourceKind(o) /\ d.project = project
          /\ ref.at = SourceField /\ ref.sloAt = Empty /\ at # Empty
          /\ agent.projectAt = at /\ agent.kind = "Agent"
      BY CheckFields, RefFields, NamesGiven DEF Ref
    <3>2. project = Field(o, <<at, <<>>>>) \/ project = Field(o, ProjectPath)
      BY <1>1
    <3>3. project = ProjectName(o, agent, <<>>)
      BY <1>1, <3>1, KindsInProjects DEF ProjectName
    <3>4. ref \in References(o.kind)
      BY SLORows
    <3> HIDE DEF d, project, ref
    <3>5. d.path[1] = SourceField /\ d.path[2] = <<>>
      BY <3>1
    <3>6. Get(o, d.path) = ref
      BY <3>1, <3>4, <3>5, RowOf
    <3>7. ReadsAlike(o, d, agent)
      BY <3>1, <3>3, <3>5 DEF ReadsAlike
    <3>8. SourceRow(o, d)
      BY <3>1, <3>5, <3>6, <3>7 DEF SourceRow
    <3>9. QED
      BY <2>2, <3>8 DEF Fits
  <2>3. QED
    BY <1>4, <2>1, <2>2, Zenon DEF LocatedCheck
<1>5. CASE ListCheck(o, c, "spec.anomalyConfig.noData.alertMethods[*].project",
                     "spec.anomalyConfig.noData.alertMethods[*].name", "AlertMethod",
                     OwnProject(o))
  <2>1. PlainRow(o, c)
    BY <1>1, <1>5, SLORows, NotOwnCases, NamesGiven, ListFits
  <2>2. QED
    BY <2>1 DEF Fits
<1>6. CASE ComponentCheck(o, c)
  <2>1. PICK i, j :
          \/ LocatedCheck(o, c, ComponentProject, ComponentSLO, <<i, j>>, "SLO", Empty)
          \/ c = ObjectiveCheck(o, <<ComponentObjective, <<i, j>>>>,
                                Field(o, <<ComponentSLO, <<i, j>>>>),
                                Field(o, <<ComponentProject, <<i, j>>>>))
    BY <1>6, Zenon DEF ComponentCheck
  <2>2. CASE LocatedCheck(o, c, ComponentProject, ComponentSLO, <<i, j>>, "SLO", Empty)
    <3>1. PlainRow(o, c)
      BY <2>2, SLORows, NotOwnCases, NamesGiven, LocatedFits
    <3>2. QED
      BY <3>1 DEF Fits
  <2>3. CASE c = ObjectiveCheck(o, <<ComponentObjective, <<i, j>>>>,
                                Field(o, <<ComponentSLO, <<i, j>>>>),
                                Field(o, <<ComponentProject, <<i, j>>>>))
    <3> DEFINE ref == Ref(ComponentObjective, "SLO", ComponentProject, ComponentSLO)
               index == <<i, j>>
               project == Field(o, <<ComponentProject, index>>)
    <3>1. /\ ref.at = ComponentObjective /\ ref.projectAt = ComponentProject
          /\ ref.sloAt = ComponentSLO
      BY RefFields
    <3>2. ComponentSLO # ComponentObjective /\ ComponentProject # Empty /\ ComponentSLO # Empty
      BY NamesGiven DEF ComponentSLO, ComponentObjective
    <3>3. project = Empty \/ project = ProjectName(o, ref, index)
      BY <3>1, <3>2 DEF ProjectName
    <3>4. ref \in References(o.kind)
      BY SLORows
    <3> HIDE DEF ref
    <3>5. ObjectiveRow(o, ObjectiveCheck(o, <<ComponentObjective, index>>,
                                         Field(o, <<ComponentSLO, index>>), project))
      BY <3>1, <3>2, <3>3, <3>4, ObjectiveFits
    <3>6. QED
      BY <2>3, <3>5 DEF Fits
  <2>4. QED
    BY <2>1, <2>2, <2>3
<1>7. QED
  BY <1>2, <1>3, <1>4, <1>5, <1>6, Zenon DEF ChainCheck

\* Every check of an alert policy fits.
LEMMA PolicyFits ==
  ASSUME NEW o, o.kind = "AlertPolicy", NEW c, ChainCheck(o, c)
  PROVE  Fits(o, c)
<1>1. OwnProject(o) = Field(o, ProjectPath)
  BY KindsInProjects DEF OwnProject
<1>2. /\ Ref("spec.alertMethods[*].metadata.name", "AlertMethod",
             "spec.alertMethods[*].metadata.project", Empty) \in References(o.kind)
      /\ Ref("spec.alertMethods[*].metadata.project", "Project", Empty, Empty)
           \in References(o.kind)
  BY DEF References, SpecReferences
<1>3. ListCheck(o, c, "spec.alertMethods[*].metadata.project",
                "spec.alertMethods[*].metadata.name", "AlertMethod", OwnProject(o))
  BY Zenon DEF ChainCheck
<1>4. PlainRow(o, c)
  BY <1>1, <1>2, <1>3, NotOwnCases, NamesGiven, ListFits
<1>5. QED
  BY <1>4 DEF Fits

\* Every check of an alert silence fits.
LEMMA SilenceFits ==
  ASSUME NEW o, o.kind = "AlertSilence", NEW c, ChainCheck(o, c)
  PROVE  Fits(o, c)
<1>1. OwnProject(o) = Field(o, ProjectPath) /\ o.kind \in ProjectScopedKinds
  BY KindsInProjects DEF OwnProject
<1>2. /\ Ref("spec.slo", "SLO", Project, Empty) \in References(o.kind)
      /\ Ref("spec.alertPolicy.name", "AlertPolicy", "spec.alertPolicy.project", Empty)
           \in References(o.kind)
      /\ Ref("spec.alertPolicy.project", "Project", Empty, Empty) \in References(o.kind)
  BY DEF References, SpecReferences
<1>3. CASE LocatedCheck(o, c, "spec.alertPolicy.project", "spec.alertPolicy.name", <<>>,
                        "AlertPolicy", OwnProject(o))
  <2>1. PlainRow(o, c)
    BY <1>1, <1>2, <1>3, NotOwnCases, NamesGiven, LocatedFits
  <2>2. QED
    BY <2>1 DEF Fits
<1>4. CASE c = Check(o, <<"spec.slo", <<>>>>, "SLO", OwnProject(o))
  <2>1. PlainRow(o, c)
    BY <1>1, <1>2, <1>4, NotOwnCases, OwnNameFits
  <2>2. QED
    BY <2>1 DEF Fits
<1>5. QED
  BY <1>3, <1>4, Zenon DEF ChainCheck

\* Every check of an annotation fits.
LEMMA AnnotationFits ==
  ASSUME NEW o, o.kind = "Annotation", NEW c, ChainCheck(o, c)
  PROVE  Fits(o, c)
<1>1. OwnProject(o) = Field(o, ProjectPath) /\ o.kind \in ProjectScopedKinds
  BY KindsInProjects DEF OwnProject
<1>2. /\ Ref("spec.slo", "SLO", Project, Empty) \in References(o.kind)
      /\ Ref("spec.objectiveName", Empty, Project, "spec.slo") \in References(o.kind)
  BY DEF References, SpecReferences
<1>3. CASE c = Check(o, <<"spec.slo", <<>>>>, "SLO", OwnProject(o))
  <2>1. PlainRow(o, c)
    BY <1>1, <1>2, <1>3, NotOwnCases, OwnNameFits
  <2>2. QED
    BY <2>1 DEF Fits
<1>4. CASE c = ObjectiveCheck(o, <<"spec.objectiveName", <<>>>>,
                              Field(o, <<"spec.slo", <<>>>>), OwnProject(o))
  <2> DEFINE ref == Ref("spec.objectiveName", Empty, Project, "spec.slo")
  <2>1. ref.at = "spec.objectiveName" /\ ref.projectAt = Project /\ ref.sloAt = "spec.slo"
    BY RefFields
  <2>2. Project # Empty /\ "spec.slo" # Empty /\ "spec.slo" # "spec.objectiveName"
    BY NamesGiven
  <2>3. <<Project, <<>>>> = ProjectPath
    BY DEF Project, ProjectPath
  <2>4. OwnProject(o) = Empty \/ OwnProject(o) = ProjectName(o, ref, <<>>)
    BY <1>1, <2>1, <2>2, <2>3 DEF ProjectName
  <2>5. ref \in References(o.kind)
    BY <1>2
  <2> HIDE DEF ref
  <2>6. ObjectiveRow(o, ObjectiveCheck(o, <<"spec.objectiveName", <<>>>>,
                                       Field(o, <<"spec.slo", <<>>>>), OwnProject(o)))
    BY <2>1, <2>2, <2>4, <2>5, ObjectiveFits
  <2>7. QED
    BY <1>4, <2>6 DEF Fits
<1>5. QED
  BY <1>3, <1>4, Zenon DEF ChainCheck

\* Every check of a budget adjustment fits; its projects are dead rows.
LEMMA AdjustmentFits ==
  ASSUME NEW o, o.kind = "BudgetAdjustment", NEW c, ChainCheck(o, c)
  PROVE  Fits(o, c)
<1> DEFINE projectAt == "spec.filters.slos[*].project"
           nameAt == "spec.filters.slos[*].name"
<1>1. /\ Ref(nameAt, "SLO", projectAt, Empty) \in References(o.kind)
      /\ Ref(projectAt, "SLO", Empty, Empty) \in References(o.kind)
  BY DEF References, SpecReferences
<1>2. PICK i : LocatedCheck(o, c, projectAt, nameAt, <<i>>, "SLO", Empty)
  BY Zenon DEF ChainCheck, ListCheck
<1>3. CASE c = Check(o, <<projectAt, <<i>>>>, "Project", Empty)
  <2> DEFINE ref == Ref(projectAt, "SLO", Empty, Empty)
  <2>1. /\ c.path = <<projectAt, <<i>>>>
        /\ ref.at = projectAt /\ ref.kind = "SLO" /\ ref.projectAt = Empty /\ ref.sloAt = Empty
    BY <1>3, CheckFields, RefFields
  <2>2. ref \in References(o.kind) /\ projectAt \notin OwnCase /\ "SLO" \in ProjectScopedKinds
    BY <1>1, NotOwnCases, KindsInProjects
  <2> HIDE DEF ref
  <2>3. c.path[1] = projectAt
    BY <2>1
  <2>4. Get(o, c.path) = ref
    BY <2>1, <2>2, <2>3, RowOf
  <2>5. DeadRow(o, c)
    BY <2>1, <2>2, <2>3, <2>4 DEF DeadRow
  <2>6. QED
    BY <2>5 DEF Fits
<1>4. CASE c = Check(o, <<nameAt, <<i>>>>, "SLO",
                     IF Field(o, <<projectAt, <<i>>>>) = Empty THEN Empty
                     ELSE Field(o, <<projectAt, <<i>>>>))
  <2> DEFINE project == Field(o, <<projectAt, <<i>>>>)
             d == Check(o, <<nameAt, <<i>>>>, "SLO", project)
             ref == Ref(nameAt, "SLO", projectAt, Empty)
  <2>1. c = d
    BY <1>4
  <2>2. /\ d.path = <<nameAt, <<i>>>> /\ d.kind = "SLO" /\ d.project = project
        /\ ref.at = nameAt /\ ref.kind = "SLO" /\ ref.projectAt = projectAt /\ ref.sloAt = Empty
    BY CheckFields, RefFields
  <2>3. projectAt # Empty /\ nameAt \notin OwnCase /\ ref \in References(o.kind)
    BY <1>1, NamesGiven, NotOwnCases
  <2>4. project = Empty \/ project = ProjectName(o, ref, <<i>>)
    BY <2>2, <2>3 DEF ProjectName
  <2> HIDE DEF d, project, ref
  <2>5. d.path[1] = nameAt /\ d.path[2] = <<i>>
    BY <2>2
  <2>6. Get(o, d.path) = ref
    BY <2>2, <2>3, <2>5, RowOf
  <2>7. PlainRow(o, d)
    BY <2>2, <2>3, <2>4, <2>5, <2>6 DEF PlainRow, ReadsAlike
  <2>8. QED
    BY <2>1, <2>7 DEF Fits
<1>5. QED
  BY <1>2, <1>3, <1>4, Zenon DEF LocatedCheck

\* Every check of a report fits.
LEMMA ReportFits ==
  ASSUME NEW o, o.kind = "Report", NEW c,
         ChainCheck(o, c) \/ EachCheck(o, c, "spec.filters.projects[*]", "Project", Empty)
  PROVE  Fits(o, c)
<1>1. /\ Ref("spec.filters.projects[*]", "Project", Empty, Empty) \in References(o.kind)
      /\ Ref("spec.filters.services[*].name", "Service", "spec.filters.services[*].project", Empty)
           \in References(o.kind)
      /\ Ref("spec.filters.services[*].project", "Project", Empty, Empty) \in References(o.kind)
      /\ Ref("spec.filters.slos[*].name", "SLO", "spec.filters.slos[*].project", Empty)
           \in References(o.kind)
      /\ Ref("spec.filters.slos[*].project", "Project", Empty, Empty) \in References(o.kind)
  BY DEF References, SpecReferences
<1>2. CASE EachCheck(o, c, "spec.filters.projects[*]", "Project", Empty)
  BY <1>1, <1>2, NotOwnCases, ProjectFits DEF EachCheck, Fits
<1>3. CASE ListCheck(o, c, "spec.filters.services[*].project", "spec.filters.services[*].name",
                     "Service", Empty)
  <2>1. PlainRow(o, c)
    BY <1>1, <1>3, NotOwnCases, NamesGiven, ListFits
  <2>2. QED
    BY <2>1 DEF Fits
<1>4. CASE ListCheck(o, c, "spec.filters.slos[*].project", "spec.filters.slos[*].name",
                     "SLO", Empty)
  <2>1. PlainRow(o, c)
    BY <1>1, <1>4, NotOwnCases, NamesGiven, ListFits
  <2>2. QED
    BY <2>1 DEF Fits
<1>5. QED
  BY <1>2, <1>3, <1>4, Zenon DEF ChainCheck

\* Every check of a role binding fits.
LEMMA BindingFits ==
  ASSUME NEW o, o.kind = "RoleBinding", NEW c, ChainCheck(o, c)
  PROVE  Fits(o, c)
<1> DEFINE project == Field(o, <<"spec.projectRef", <<>>>>)
           role == Ref("spec.roleRef", Empty, Empty, Empty)
           group == Ref("spec.groupRef", "UserGroup", Empty, Empty)
           user == Ref("spec.user", Empty, Empty, Empty)
<1>1. /\ role \in References(o.kind) /\ group \in References(o.kind) /\ user \in References(o.kind)
      /\ Ref("spec.projectRef", "Project", Empty, Empty) \in References(o.kind)
  BY DEF References, SpecReferences
<1>2. /\ role.at = "spec.roleRef" /\ role.kind = Empty /\ role.sloAt = Empty
      /\ group.at = "spec.groupRef" /\ group.kind = "UserGroup" /\ group.sloAt = Empty
      /\ user.at = "spec.user" /\ user.sloAt = Empty
  BY RefFields
<1>3. CASE c = Check(o, <<"spec.roleRef", <<>>>>,
                     IF project # Empty THEN "ProjectRole" ELSE "OrganizationRole", Empty)
  <2>1. /\ c.path = <<"spec.roleRef", <<>>>> /\ c.project = Empty
        /\ c.kind = IF project # Empty THEN "ProjectRole" ELSE "OrganizationRole"
    BY <1>3, CheckFields
  <2> HIDE DEF role
  <2>2. c.path[1] = "spec.roleRef"
    BY <2>1
  <2>3. Get(o, c.path) = role
    BY <1>1, <1>2, <2>2, RowOf
  <2>4. RoleRow(o, c)
    BY <1>2, <2>1, <2>2, <2>3 DEF RoleRow
  <2>5. QED
    BY <2>4 DEF Fits
<1>4. CASE c = Check(o, <<"spec.projectRef", <<>>>>, "Project", Empty)
  BY <1>1, <1>4, NotOwnCases, ProjectFits DEF Fits
<1>5. CASE c = Check(o, <<"spec.groupRef", <<>>>>, "UserGroup", project)
  <2>1. c.path = <<"spec.groupRef", <<>>>> /\ c.kind = "UserGroup"
    BY <1>5, CheckFields
  <2> HIDE DEF group
  <2>2. c.path[1] = "spec.groupRef"
    BY <2>1
  <2>3. Get(o, c.path) = group
    BY <1>1, <1>2, <2>2, RowOf
  <2>4. PlainRow(o, c)
    BY <1>2, <2>1, <2>2, <2>3, NotOwnCases, KindsInProjects DEF PlainRow, ReadsAlike
  <2>5. QED
    BY <2>4 DEF Fits
<1>6. CASE c = Check(o, <<"spec.user", <<>>>>, "User", Empty)
  <2>1. c.path = <<"spec.user", <<>>>> /\ c.kind = "User"
    BY <1>6, CheckFields
  <2> HIDE DEF user
  <2>2. c.path[1] = "spec.user"
    BY <2>1
  <2>3. Get(o, c.path) = user
    BY <1>1, <1>2, <2>2, RowOf
  <2>4. UserRow(o, c)
    BY <1>2, <2>1, <2>2, <2>3 DEF UserRow
  <2>5. QED
    BY <2>4 DEF Fits
<1>7. QED
  BY <1>3, <1>4, <1>5, <1>6, Zenon DEF ChainCheck

\* Every check of a user group fits.
LEMMA GroupFits ==
  ASSUME NEW o, o.kind = "UserGroup", NEW c, ChainCheck(o, c)
  PROVE  Fits(o, c)
<1> DEFINE ref == Ref("spec.members[*].id", Empty, Empty, Empty)
<1>1. ref \in References(o.kind) /\ ref.at = "spec.members[*].id" /\ ref.sloAt = Empty
  BY RefFields DEF References, SpecReferences
<1>2. PICK i : c = Check(o, <<"spec.members[*].id", <<i>>>>, "User", Empty)
  BY Zenon DEF ChainCheck, EachCheck
<1>3. c.path = <<"spec.members[*].id", <<i>>>> /\ c.kind = "User"
  BY <1>2, CheckFields
<1> HIDE DEF ref
<1>4. Get(o, c.path) = ref /\ c.path[1] = "spec.members[*].id"
  BY <1>1, <1>3, RowOf
<1>5. UserRow(o, c)
  BY <1>1, <1>3, <1>4 DEF UserRow
<1>6. QED
  BY <1>5 DEF Fits

\* Every check of an object fits the table of references, whatever the object.
LEMMA TableFits ==
  ASSUME NEW o, NEW c, CheckOf(o, c)
  PROVE  Fits(o, c)
<1>1. CASE o.kind \in ProjectScopedKinds /\ c = Check(o, ProjectPath, "Project", Empty)
  BY <1>1, OwnProjectFits DEF Fits
<1>2. CASE o.kind = "Report" /\ EachCheck(o, c, "spec.filters.projects[*]", "Project", Empty)
  BY <1>2, ReportFits
<1>3. CASE ChainCheck(o, c)
  <2>1. o.kind \in {"SLO", "AlertPolicy", "AlertSilence", "Annotation", "BudgetAdjustment",
                    "Report", "RoleBinding", "UserGroup"}
    BY <1>3 DEF ChainCheck
  <2>2. QED
    BY <1>3, <2>1, SLOFits, PolicyFits, SilenceFits, AnnotationFits, AdjustmentFits,
       ReportFits, BindingFits, GroupFits
<1>4. QED
  BY <1>1, <1>2, <1>3 DEF CheckOf

-----------------------------------------------------------------------------
(* Hover.                                                                   *)

\* The name that a check looks for is the value at its path.
LEMMA CheckNames ==
  ASSUME NEW o, NEW c, CheckOf(o, c)
  PROVE  c.name = Field(o, c.path)
<1>1. ASSUME NEW path, NEW kind, NEW project, c = Check(o, path, kind, project)
      PROVE  c.name = Field(o, c.path)
  BY <1>1, CheckFields
<1>2. ASSUME NEW path, NEW slo, NEW project, c = ObjectiveCheck(o, path, slo, project)
      PROVE  c.name = Field(o, c.path)
  BY <1>2, ObjectiveFields
<1>3. ASSUME NEW projectField, NEW nameField, NEW index, NEW kind, NEW default,
             LocatedCheck(o, c, projectField, nameField, index, kind, default)
      PROVE  c.name = Field(o, c.path)
  BY <1>1, <1>3, Zenon DEF LocatedCheck
<1>4. ASSUME NEW projectField, NEW nameField, NEW kind, NEW default,
             ListCheck(o, c, projectField, nameField, kind, default)
      PROVE  c.name = Field(o, c.path)
  BY <1>3, <1>4, Zenon DEF ListCheck
<1>5. ASSUME NEW field, NEW kind, NEW project, EachCheck(o, c, field, kind, project)
      PROVE  c.name = Field(o, c.path)
  BY <1>1, <1>5, Zenon DEF EachCheck
<1>6. ASSUME ComponentCheck(o, c)
      PROVE  c.name = Field(o, c.path)
  BY <1>2, <1>3, <1>6, Zenon DEF ComponentCheck
<1>7. ASSUME ChainCheck(o, c)
      PROVE  c.name = Field(o, c.path)
  <2>1. o.kind \in {"SLO", "AlertPolicy", "AlertSilence", "Annotation", "BudgetAdjustment",
                    "Report", "RoleBinding", "UserGroup"}
    BY <1>7 DEF ChainCheck
  <2>2. CASE o.kind = "SLO"
    BY <1>1, <1>3, <1>4, <1>5, <1>6, <1>7, <2>2, Zenon DEF ChainCheck
  <2>3. CASE o.kind = "AlertPolicy"
    BY <1>4, <1>7, <2>3, Zenon DEF ChainCheck
  <2>4. CASE o.kind = "AlertSilence"
    BY <1>1, <1>3, <1>7, <2>4, Zenon DEF ChainCheck
  <2>5. CASE o.kind = "Annotation"
    BY <1>1, <1>2, <1>7, <2>5, Zenon DEF ChainCheck
  <2>6. CASE o.kind = "BudgetAdjustment"
    BY <1>4, <1>7, <2>6, Zenon DEF ChainCheck
  <2>7. CASE o.kind = "Report"
    BY <1>4, <1>7, <2>7, Zenon DEF ChainCheck
  <2>8. CASE o.kind = "RoleBinding"
    BY <1>1, <1>7, <2>8, Zenon DEF ChainCheck
  <2>9. CASE o.kind = "UserGroup"
    BY <1>5, <1>7, <2>9, Zenon DEF ChainCheck
  <2>10. QED
    BY <2>1, <2>2, <2>3, <2>4, <2>5, <2>6, <2>7, <2>8, <2>9
<1>8. QED
  BY <1>1, <1>5, <1>7, Zenon DEF CheckOf

\* No field of a table is the empty string.
LEMMA FieldsGiven ==
  /\ "Objective" # Empty
  /\ \A f \in {"metadata.project", "spec.service", "spec.indicator.metricSource.name",
               "spec.indicator.metricSource.project", "spec.alertPolicies",
               "spec.objectives[*].composite.components.objectives[*].project",
               "spec.objectives[*].composite.components.objectives[*].slo",
               "spec.objectives[*].composite.components.objectives[*].objective",
               "spec.anomalyConfig.noData.alertMethods[*].name",
               "spec.anomalyConfig.noData.alertMethods[*].project",
               "spec.alertMethods[*].metadata.project", "spec.alertMethods[*].metadata.name",
               "spec.alertPolicy.project", "spec.alertPolicy.name", "spec.slo",
               "spec.objectiveName", "spec.filters.slos[*].project", "spec.filters.slos[*].name",
               "spec.filters.projects[*]", "spec.filters.services[*].project",
               "spec.filters.services[*].name", "spec.projectRef", "spec.groupRef",
               "spec.user", "spec.members[*].id", "spec.roleRef"} : f # Empty
BY Zenon DEF Empty

\* No row points at itself, or names an objective; the object's own project lies in nothing.
LEMMA RowShapes ==
  ASSUME NEW kind, NEW r \in References(kind)
  PROVE  /\ r.projectAt # r.at /\ r.sloAt # r.at /\ r.kind # "Objective"
         /\ r.at = Project => r.projectAt = Empty
<1>1. CASE kind = "SLO"
  BY <1>1, FieldsGiven DEF References, SpecReferences, ProjectScopedKinds, Ref, Project,
     SourceField, ComponentProject, ComponentSLO, ComponentObjective
<1>2. CASE kind = "Report"
  BY <1>2, FieldsGiven DEF References, SpecReferences, ProjectScopedKinds, Ref, Project
<1>3. CASE kind = "RoleBinding"
  BY <1>3, FieldsGiven DEF References, SpecReferences, ProjectScopedKinds, Ref, Project
<1>4. CASE kind \in {"AlertPolicy", "AlertSilence", "Annotation", "BudgetAdjustment", "UserGroup"}
  BY <1>4, FieldsGiven DEF References, SpecReferences, ProjectScopedKinds, Ref, Project
<1>5. CASE kind \notin {"SLO", "Report", "RoleBinding", "AlertPolicy", "AlertSilence",
                        "Annotation", "BudgetAdjustment", "UserGroup"}
  <2>1. SpecReferences(kind) = {}
    BY <1>5 DEF SpecReferences
  <2>2. QED
    BY <2>1, FieldsGiven DEF References, Ref, Project
<1>6. QED
  BY <1>1, <1>2, <1>3, <1>4, <1>5

\* What is found in a project is found, and what is in no project is found in any.
LEMMA FoundAlike ==
  ASSUME NEW w, NEW kind, NEW name, NEW p, NEW q,
         p = Empty \/ kind \notin ProjectScopedKinds \/ p = q
  PROVE  Found(w, kind, name, q) \subseteq Found(w, kind, name, p)
BY DEF Found

\* Hover shows at the path of a check only what the check finds.
LEMMA HoverFinds ==
  ASSUME NEW o, NEW w, \A t \in w : t.kind # Empty, NEW c, CheckOf(o, c), c.kind # "Objective"
  PROVE  Hovered(w, o, c.path) \subseteq Found(w, c.kind, c.name, c.project)
<1> DEFINE path == c.path
           ref == Get(o, path)
           agent == [ref EXCEPT !.kind = "Agent"]
<1>1. c.name = Field(o, path)
  BY CheckNames
<1>2. ASSUME NEW r, NEW kind, r.kind = kind, kind = c.kind, ReadsAlike(o, c, r)
      PROVE  HoveredObjects(w, o, r, path) \subseteq Found(w, c.kind, c.name, c.project)
  <2> DEFINE project == ProjectName(o, r, path[2])
  <2>1. c.project = Empty \/ c.kind \notin ProjectScopedKinds \/ c.project = project
    BY <1>2 DEF ReadsAlike
  <2>2. HoveredObjects(w, o, r, path) \subseteq Found(w, c.kind, c.name, project)
    BY <1>1, <1>2 DEF HoveredObjects
  <2> HIDE DEF project
  <2>3. Found(w, c.kind, c.name, project) \subseteq Found(w, c.kind, c.name, c.project)
    BY <2>1, FoundAlike
  <2>4. QED
    BY <2>2, <2>3
<1>3. CASE ~IsReference(o, path) \/ Field(o, path) = Empty \/ path[1] = "spec.filters.projects[*]"
  BY <1>3 DEF Hovered
<1>4. CASE ~(~IsReference(o, path) \/ Field(o, path) = Empty \/ path[1] = "spec.filters.projects[*]")
  <2>1. CASE PlainRow(o, c)
    <3>1. Hovered(w, o, path) = HoveredObjects(w, o, ref, path)
      BY <1>4, <2>1, NotOwnCases DEF PlainRow, Hovered
    <3>2. QED
      BY <1>2, <2>1, <3>1 DEF PlainRow
  <2>2. CASE SourceRow(o, c)
    <3>1. CASE Field(o, SourceKindPath) # Empty
      BY <1>4, <2>2, <3>1 DEF SourceRow, Hovered
    <3>2. CASE Field(o, SourceKindPath) = Empty
      <4>1. Hovered(w, o, path) = HoveredObjects(w, o, agent, path)
        BY <1>4, <2>2, <3>2 DEF SourceRow, Hovered
      <4>2. ref \in References(o.kind)
        BY <1>4, RowOf DEF IsReference
      <4>3. agent.kind = "Agent"
        BY <4>2, AgentRow
      <4>4. c.kind = "Agent" /\ ReadsAlike(o, c, agent)
        BY <2>2, <3>2 DEF SourceRow, SourceKind
      <4>5. QED
        BY <1>2, <4>1, <4>3, <4>4
    <3>3. QED
      BY <3>1, <3>2
  <2>3. CASE UserRow(o, c)
    <3>1. c.kind = "User"
      BY <2>3 DEF UserRow
    <3>2. Hovered(w, o, path) = Found(w, "User", Field(o, path), Empty)
      BY <1>4, <2>3 DEF UserRow, Hovered, SourceField
    <3>3. QED
      BY <1>1, <3>1, <3>2, KindsInProjects, FoundAlike
  <2>4. CASE RoleRow(o, c)
    <3>1. Hovered(w, o, path) = HoveredObjects(w, o, ref, path) /\ ref.kind = Empty
      BY <1>4, <2>4 DEF RoleRow, Hovered, SourceField
    <3>2. QED
      BY <3>1 DEF HoveredObjects, Found
  <2>5. CASE DeadRow(o, c)
    <3>1. Hovered(w, o, path) = HoveredObjects(w, o, ref, path)
      BY <1>4, <2>5, NotOwnCases DEF DeadRow, Hovered
    <3>2. ref.kind \in ProjectScopedKinds /\ ref.projectAt = Empty
      BY <2>5 DEF DeadRow
    <3>3. QED
      BY <3>1, <3>2 DEF HoveredObjects, ProjectName
  <2>6. CASE ObjectiveRow(o, c)
    BY <2>6 DEF ObjectiveRow
  <2>7. Fits(o, c)
    BY TableFits
  <2>8. QED
    BY <1>4, <2>1, <2>2, <2>3, <2>4, <2>5, <2>6, <2>7 DEF Fits
<1>5. QED
  BY <1>3, <1>4

-----------------------------------------------------------------------------
(* Completion.                                                              *)

\* Picking a name changes the value of one field.
LEMMA PickedFields ==
  ASSUME NEW o, NEW path \in DOMAIN o.fields, NEW name
  PROVE  LET p == Picked(o, path, name) IN
         /\ p.kind = o.kind /\ DOMAIN p.fields = DOMAIN o.fields
         /\ Field(p, path) = name
         /\ \A q : q # path => Field(p, q) = Field(o, q)
         /\ \A q : HasLine(p, q) = HasLine(o, q)
<1>1. /\ Picked(o, path, name).kind = o.kind
      /\ Picked(o, path, name).fields = [o.fields EXCEPT ![path] = name]
  BY DEF Picked
<1>2. QED
  BY <1>1 DEF Field, HasLine

\* The reference stays, and so do the project and the SLO it lies in.
LEMMA PickedReference ==
  ASSUME NEW o, NEW path \in DOMAIN o.fields, NEW name, IsReference(o, path)
  PROVE  LET p == Picked(o, path, name)
             ref == Get(o, path)
         IN /\ IsReference(p, path) /\ Get(p, path) = ref
            /\ ref \in References(o.kind) /\ ref.at = path[1]
            /\ \A r, index :
                 r.projectAt = ref.projectAt => ProjectName(p, r, index) = ProjectName(o, r, index)
            /\ \A index : Field(p, <<ref.sloAt, index>>) = Field(o, <<ref.sloAt, index>>)
<1> DEFINE p == Picked(o, path, name)
           ref == Get(o, path)
<1>1. p.kind = o.kind /\ \A q : q # path => Field(p, q) = Field(o, q)
  BY PickedFields
<1>2. PICK q \in References(o.kind) : q.at = path[1]
  BY DEF IsReference
<1>3. ref = q
  BY <1>2, RowOf
<1>4. Get(p, path) = q /\ IsReference(p, path)
  BY <1>1, <1>2, RowOf
<1> HIDE DEF p, ref
<1>5. ref.projectAt # path[1] /\ ref.sloAt # path[1] /\ (path[1] = Project => ref.projectAt = Empty)
  BY <1>2, <1>3, RowShapes
<1>6. \A index : Field(p, <<ref.sloAt, index>>) = Field(o, <<ref.sloAt, index>>)
  BY <1>1, <1>5
<1>7. ASSUME NEW r, NEW index, r.projectAt = ref.projectAt
      PROVE  ProjectName(p, r, index) = ProjectName(o, r, index)
  <2>1. CASE r.projectAt = Empty
    BY <2>1 DEF ProjectName
  <2>2. CASE r.projectAt # Empty
    <3>1. ProjectPath # path
      BY <1>5, <1>7, <2>2 DEF ProjectPath, Project
    <3>2. Field(p, <<r.projectAt, index>>) = Field(o, <<r.projectAt, index>>)
      BY <1>1, <1>5, <1>7
    <3>3. Field(p, ProjectPath) = Field(o, ProjectPath)
      BY <1>1, <3>1
    <3>4. QED
      BY <3>2, <3>3 DEF ProjectName
  <2>3. QED
    BY <2>1, <2>2
<1>8. QED
  BY <1>2, <1>3, <1>4, <1>6, <1>7 DEF p, ref

\* A name of a kind in a project is found where the check looks for it.
LEMMA NamesFound ==
  ASSUME NEW w, NEW kind, NEW q, NEW name \in AllNames(w, kind, q), NEW p,
         p = Empty \/ kind \notin ProjectScopedKinds \/ p = q
  PROVE  Found(w, kind, name, p) # {}
BY DEF AllNames, Found

\* A name offered at the path of a check makes it hold.
LEMMA OfferHolds ==
  ASSUME NEW o, NEW w, NEW path \in DOMAIN o.fields, NEW name \in Offered(w, o, path),
         ~(path[1] = "spec.roleRef" /\ ProjectRefOpen(o)),
         NEW c, CheckOf(Picked(o, path, name), c), c.path = path
  PROVE  Holds(w, c)
<1> DEFINE p == Picked(o, path, name)
           ref == Get(o, path)
           agent == [ref EXCEPT !.kind = "Agent"]
<1>1. /\ p.kind = o.kind /\ Field(p, path) = name
      /\ \A q : q # path => Field(p, q) = Field(o, q)
  BY PickedFields
<1>2. c.name = name
  BY <1>1, CheckNames
<1>3. IsReference(o, path)
  BY DEF Offered
<1>4. /\ IsReference(p, path) /\ Get(p, path) = ref
      /\ ref \in References(o.kind) /\ ref.at = path[1]
      /\ \A r, index :
           r.projectAt = ref.projectAt => ProjectName(p, r, index) = ProjectName(o, r, index)
      /\ \A index : Field(p, <<ref.sloAt, index>>) = Field(o, <<ref.sloAt, index>>)
  BY <1>3, PickedReference
<1>5. ref.kind # "Objective"
  BY <1>4, RowShapes
<1>6. Fits(p, c)
  BY TableFits
<1> HIDE DEF p
<1>7. ASSUME NEW r, r.projectAt = ref.projectAt, r.kind = c.kind, ReadsAlike(p, c, r),
             name \in ObjectNames(w, o, r, path[2]), c.kind # "Objective"
      PROVE  Holds(w, c)
  <2> DEFINE project == ProjectName(o, r, path[2])
  <2>1. c.project = Empty \/ c.kind \notin ProjectScopedKinds \/ c.project = project
    BY <1>4, <1>7 DEF ReadsAlike
  <2>2. name \in AllNames(w, c.kind, project)
    BY <1>7 DEF ObjectNames
  <2> HIDE DEF project
  <2>3. Found(w, c.kind, name, c.project) # {}
    BY <2>1, <2>2, NamesFound
  <2>4. QED
    BY <1>2, <1>7, <2>3 DEF Holds
<1>8. CASE PlainRow(p, c)
  <2>1. Offered(w, o, path) = ObjectNames(w, o, ref, path[2])
    BY <1>3, <1>4, <1>8, NotOwnCases DEF PlainRow, Offered
  <2>2. QED
    BY <1>4, <1>5, <1>7, <1>8, <2>1 DEF PlainRow
<1>9. CASE SourceRow(p, c)
  <2>1. Offered(w, o, path) = SourceNames(w, o, ref, path[2])
    BY <1>1, <1>3, <1>4, <1>9 DEF SourceRow, Offered
  <2>2. Field(o, SourceKindPath) = Empty /\ name \in ObjectNames(w, o, agent, path[2])
    BY <2>1 DEF SourceNames
  <2>3. path # SourceKindPath
    BY <1>9 DEF SourceRow, SourceKindPath, SourceField
  <2>4. Field(p, SourceKindPath) = Empty
    BY <1>1, <2>2, <2>3
  <2>5. c.kind = "Agent"
    BY <1>9, <2>4 DEF SourceRow, SourceKind
  <2>6. agent.kind = "Agent" /\ agent.projectAt = ref.projectAt /\ ReadsAlike(p, c, agent)
    BY <1>4, <1>9, AgentRow DEF SourceRow
  <2> HIDE DEF agent
  <2>7. QED
    BY <1>7, <2>2, <2>5, <2>6
<1>10. CASE UserRow(p, c)
  <2>1. Offered(w, o, path) = AllNames(w, "User", Empty) /\ c.kind = "User"
    BY <1>1, <1>3, <1>4, <1>10 DEF UserRow, Offered, SourceField
  <2>2. Found(w, "User", name, c.project) # {}
    BY <2>1, NamesFound, KindsInProjects
  <2>3. QED
    BY <1>2, <2>1, <2>2 DEF Holds
<1>11. CASE RoleRow(p, c)
  <2> DEFINE at == <<"spec.projectRef", <<>>>>
  <2>1. Offered(w, o, path) = RoleNames(w, o) /\ path[1] = "spec.roleRef"
    BY <1>1, <1>3, <1>4, <1>11 DEF RoleRow, Offered, SourceField
  <2>2. path # at
    BY <2>1
  <2>3. HasLine(o, at) <=> Field(p, at) # Empty
    BY <1>1, <2>1, <2>2 DEF ProjectRefOpen, Field
  <2>4. name \in AllNames(w, c.kind, Empty) /\ c.kind # "Objective"
    BY <1>11, <2>1, <2>3 DEF RoleRow, RoleNames
  <2>5. Found(w, c.kind, name, c.project) # {}
    BY <1>11, <2>4, NamesFound DEF RoleRow
  <2>6. QED
    BY <1>2, <2>4, <2>5 DEF Holds
<1>12. CASE DeadRow(p, c)
  <2>1. Offered(w, o, path) = ObjectNames(w, o, ref, path[2])
    BY <1>3, <1>4, <1>12, NotOwnCases DEF DeadRow, Offered
  <2>2. ref.kind \in ProjectScopedKinds /\ ref.projectAt = Empty
    BY <1>4, <1>12 DEF DeadRow
  <2>3. ObjectNames(w, o, ref, path[2]) = {}
    BY <2>2 DEF ObjectNames, ProjectName
  <2>4. QED
    BY <2>1, <2>3
<1>13. CASE ObjectiveRow(p, c)
  <2> DEFINE slo == Field(o, <<ref.sloAt, path[2]>>)
             project == ProjectName(o, ref, path[2])
  <2>1. /\ c.kind = "Objective" /\ ref.sloAt # Empty /\ c.slo = slo
        /\ c.project = Empty \/ c.project = project
    BY <1>4, <1>13 DEF ObjectiveRow
  <2>2. name \in ObjectiveNames(w, o, ref, path[2])
    BY <1>3, <2>1 DEF Offered
  <2>3. PICK t \in Found(w, "SLO", slo, project) : name \in t.objectives
    BY <2>2 DEF ObjectiveNames
  <2>4. t \in Found(w, "SLO", slo, c.project)
    BY <2>1, <2>3, FoundAlike
  <2>5. QED
    BY <1>2, <2>1, <2>3, <2>4 DEF Holds
<1>14. QED
  BY <1>4, <1>6, <1>8, <1>9, <1>10, <1>11, <1>12, <1>13 DEF Fits

-----------------------------------------------------------------------------
(* Every reference has its check.                                           *)

\* A field of a list has an index within it.
LEMMA ElementNumbered ==
  ASSUME NEW o, Valid(o), NEW path \in DOMAIN o.fields, NEW fields \in ElementFields,
         path[1] \in fields
  PROVE  \E i \in 1..Count(o, fields, <<>>) : path = <<path[1], <<i>>>>
<1>1. path = <<path[1], path[2]>>
  BY DEF Valid
<1>2. \E i \in 1..Count(o, fields, <<>>) : path[2] = <<i>>
  BY DEF Valid, Numbered
<1>3. QED
  BY <1>1, <1>2

\* A field outside the lists stands alone.
LEMMA PlainNumbered ==
  ASSUME NEW o, Valid(o), NEW path \in DOMAIN o.fields,
         path[1] \notin ComponentFields \union UNION ElementFields
  PROVE  path = <<path[1], <<>>>>
<1>1. path = <<path[1], path[2]>>
  BY DEF Valid
<1>2. path[2] = <<>>
  BY DEF Valid, Numbered
<1>3. QED
  BY <1>1, <1>2

\* Of a project and a name beside it, or of a list of such, one check looks at the path.
LocatedAsks(o, path, projectField, nameField, index, kind, default) ==
  \E c : /\ LocatedCheck(o, c, projectField, nameField, index, kind, default)
         /\ c.path = path /\ c.kind # "Objective"

ListAsks(o, path, projectField, nameField, kind, default) ==
  \E c : /\ ListCheck(o, c, projectField, nameField, kind, default)
         /\ c.path = path /\ c.kind # "Objective"

\* The project or the name that Located looks up.
LEMMA LocatedAt ==
  ASSUME NEW o, NEW projectField, NEW nameField, NEW index, NEW kind, NEW default,
         NEW path, path = <<projectField, index>> \/ path = <<nameField, index>>,
         kind # "Objective"
  PROVE  LocatedAsks(o, path, projectField, nameField, index, kind, default)
<1> DEFINE a == Check(o, <<projectField, index>>, "Project", Empty)
           b == Check(o, <<nameField, index>>, kind,
                      IF Field(o, <<projectField, index>>) = Empty THEN default
                      ELSE Field(o, <<projectField, index>>))
<1>1. a.path = <<projectField, index>> /\ a.kind = "Project"
  BY CheckFields
<1>2. b.path = <<nameField, index>> /\ b.kind = kind
  BY CheckFields
<1>3. /\ LocatedCheck(o, a, projectField, nameField, index, kind, default)
      /\ LocatedCheck(o, b, projectField, nameField, index, kind, default)
  BY Zenon DEF LocatedCheck
<1> HIDE DEF a, b
<1>4. QED
  BY <1>1, <1>2, <1>3 DEF LocatedAsks

\* The same in a list.
LEMMA ListAt ==
  ASSUME NEW o, Valid(o), NEW projectField, NEW nameField, NEW kind, NEW default,
         {nameField, projectField} \in ElementFields,
         NEW path \in DOMAIN o.fields, path[1] \in {nameField, projectField}, kind # "Objective"
  PROVE  ListAsks(o, path, projectField, nameField, kind, default)
<1>1. PICK i \in 1..Count(o, {nameField, projectField}, <<>>) : path = <<path[1], <<i>>>>
  BY ElementNumbered
<1>2. {nameField, projectField} = {projectField, nameField}
  OBVIOUS
<1>3. path = <<projectField, <<i>>>> \/ path = <<nameField, <<i>>>>
  BY <1>1
<1>4. LocatedAsks(o, path, projectField, nameField, <<i>>, kind, default)
  BY <1>3, LocatedAt
<1>5. PICK c : /\ LocatedCheck(o, c, projectField, nameField, <<i>>, kind, default)
               /\ c.path = path /\ c.kind # "Objective"
  BY <1>4, Zenon DEF LocatedAsks
<1>6. ListCheck(o, c, projectField, nameField, kind, default)
  BY <1>1, <1>2, <1>5 DEF ListCheck
<1>7. QED
  BY <1>5, <1>6, Zenon DEF ListAsks

\* An element of a list of names.
LEMMA EachAt ==
  ASSUME NEW o, Valid(o), NEW field, NEW kind, NEW project, {field} \in ElementFields,
         NEW path \in DOMAIN o.fields, path[1] = field, kind # "Objective"
  PROVE  \E c : EachCheck(o, c, field, kind, project) /\ c.path = path /\ c.kind # "Objective"
<1>1. PICK i \in 1..Count(o, {field}, <<>>) : path = <<field, <<i>>>>
  BY ElementNumbered
<1>2. LET c == Check(o, path, kind, project)
      IN c.path = path /\ c.kind = kind /\ EachCheck(o, c, field, kind, project)
  BY <1>1, CheckFields DEF EachCheck
<1>3. QED
  BY <1>2

\* A check at a path that can be made if the path has a name.
At(o, c, path) ==
  CheckOf(o, c) /\ c.path = path /\ (c.kind = "Objective" => c.slo # Empty)

\* The lists of names.
LEMMA ElementSets ==
  /\ {"spec.alertPolicies[*]"} \in ElementFields
  /\ {"spec.filters.projects[*]"} \in ElementFields
  /\ {"spec.members[*].id"} \in ElementFields
  /\ {"spec.anomalyConfig.noData.alertMethods[*].name",
      "spec.anomalyConfig.noData.alertMethods[*].project"} \in ElementFields
  /\ {"spec.alertMethods[*].metadata.name", "spec.alertMethods[*].metadata.project"}
       \in ElementFields
  /\ {"spec.filters.services[*].name", "spec.filters.services[*].project"} \in ElementFields
  /\ {"spec.filters.slos[*].name", "spec.filters.slos[*].project"} \in ElementFields
BY DEF ElementFields

\* The fields outside the lists.
LEMMA PlainFields ==
  {Project, "spec.service", "spec.indicator.metricSource.project", SourceField,
   "spec.alertPolicies", "spec.alertPolicy.project", "spec.alertPolicy.name", "spec.slo",
   "spec.objectiveName", "spec.projectRef", "spec.groupRef", "spec.user", "spec.roleRef"}
  \intersect (ComponentFields \union UNION ElementFields) = {}
<1>1. \A f \in UNION ElementFields :
        f \in {"spec.alertPolicies[*]", "spec.filters.projects[*]", "spec.members[*].id",
               "spec.anomalyConfig.noData.alertMethods[*].name",
               "spec.anomalyConfig.noData.alertMethods[*].project",
               "spec.alertMethods[*].metadata.name", "spec.alertMethods[*].metadata.project",
               "spec.filters.services[*].name", "spec.filters.services[*].project",
               "spec.filters.slos[*].name", "spec.filters.slos[*].project"}
  BY DEF ElementFields
<1>2. QED
  BY <1>1 DEF ComponentFields, ComponentProject, ComponentSLO, ComponentObjective, Project,
     SourceField

\* Every reference of an SLO is looked up.
LEMMA SLOAt ==
  ASSUME NEW o, o.kind = "SLO", Valid(o), NEW path \in DOMAIN o.fields, Field(o, path) # Empty,
         path[1] \in {"spec.service", "spec.indicator.metricSource.project", SourceField,
                      "spec.anomalyConfig.noData.alertMethods[*].name",
                      "spec.anomalyConfig.noData.alertMethods[*].project"} \union ComponentFields
  PROVE  \E c : At(o, c, path)
<1>1. CASE path[1] = "spec.service"
  <2> DEFINE c == Check(o, <<"spec.service", <<>>>>, "Service", OwnProject(o))
  <2>1. path = <<"spec.service", <<>>>>
    BY <1>1, PlainNumbered, PlainFields
  <2>2. c.path = path /\ c.kind = "Service"
    BY <2>1, CheckFields
  <2>3. CheckOf(o, c)
    BY Zenon DEF CheckOf, ChainCheck
  <2> HIDE DEF c
  <2>4. QED
    BY <2>2, <2>3 DEF At
<1>2. CASE path[1] \in {"spec.indicator.metricSource.project", SourceField}
  <2>1. path = <<"spec.indicator.metricSource.project", <<>>>> \/ path = <<SourceField, <<>>>>
    BY <1>2, PlainNumbered, PlainFields
  <2>2. SourceKind(o) # "Objective"
    BY DEF Valid
  <2>3. LocatedAsks(o, path, "spec.indicator.metricSource.project", SourceField, <<>>,
                    SourceKind(o), OwnProject(o))
    BY <2>1, <2>2, LocatedAt
  <2>4. PICK c : /\ LocatedCheck(o, c, "spec.indicator.metricSource.project", SourceField, <<>>,
                                 SourceKind(o), OwnProject(o))
                 /\ c.path = path /\ c.kind # "Objective"
    BY <2>3, Zenon DEF LocatedAsks
  <2>5. CheckOf(o, c)
    BY <2>4, Zenon DEF CheckOf, ChainCheck
  <2>6. QED
    BY <2>4, <2>5 DEF At
<1>3. CASE path[1] \in {"spec.anomalyConfig.noData.alertMethods[*].name",
                        "spec.anomalyConfig.noData.alertMethods[*].project"}
  <2>1. ListAsks(o, path, "spec.anomalyConfig.noData.alertMethods[*].project",
                 "spec.anomalyConfig.noData.alertMethods[*].name", "AlertMethod", OwnProject(o))
    BY <1>3, ListAt, ElementSets
  <2>2. PICK c : /\ ListCheck(o, c, "spec.anomalyConfig.noData.alertMethods[*].project",
                              "spec.anomalyConfig.noData.alertMethods[*].name", "AlertMethod",
                              OwnProject(o))
                 /\ c.path = path /\ c.kind # "Objective"
    BY <2>1, Zenon DEF ListAsks
  <2>3. CheckOf(o, c)
    BY <2>2, Zenon DEF CheckOf, ChainCheck
  <2>4. QED
    BY <2>2, <2>3 DEF At
<1>4. CASE path[1] \in ComponentFields
  <2>1. path = <<path[1], path[2]>>
    BY DEF Valid
  <2>2. PICK i \in 1..CountOuter(o, ComponentFields) :
          \E j \in 1..Count(o, ComponentFields, <<i>>) : path[2] = <<i, j>>
    BY <1>4 DEF Valid, Numbered
  <2>3. PICK j \in 1..Count(o, ComponentFields, <<i>>) : path[2] = <<i, j>>
    BY <2>2
  <2>4. ASSUME NEW c,
               \/ LocatedCheck(o, c, ComponentProject, ComponentSLO, <<i, j>>, "SLO", Empty)
               \/ c = ObjectiveCheck(o, <<ComponentObjective, <<i, j>>>>,
                                     Field(o, <<ComponentSLO, <<i, j>>>>),
                                     Field(o, <<ComponentProject, <<i, j>>>>))
        PROVE  CheckOf(o, c)
    <3>1. ComponentCheck(o, c)
      BY <2>3, <2>4, Zenon DEF ComponentCheck
    <3>2. QED
      BY <3>1, Zenon DEF CheckOf, ChainCheck
  <2>5. CASE path[1] \in {ComponentProject, ComponentSLO}
    <3>1. path = <<ComponentProject, <<i, j>>>> \/ path = <<ComponentSLO, <<i, j>>>>
      BY <2>1, <2>3, <2>5
    <3>2. LocatedAsks(o, path, ComponentProject, ComponentSLO, <<i, j>>, "SLO", Empty)
      BY <3>1, LocatedAt
    <3>3. PICK c : /\ LocatedCheck(o, c, ComponentProject, ComponentSLO, <<i, j>>, "SLO", Empty)
                   /\ c.path = path /\ c.kind # "Objective"
      BY <3>2, Zenon DEF LocatedAsks
    <3>4. QED
      BY <2>4, <3>3 DEF At
  <2>6. CASE path[1] = ComponentObjective
    <3> DEFINE slo == Field(o, <<ComponentSLO, <<i, j>>>>)
               c == ObjectiveCheck(o, <<ComponentObjective, <<i, j>>>>, slo,
                                   Field(o, <<ComponentProject, <<i, j>>>>))
    <3>1. c.path = <<ComponentObjective, <<i, j>>>> /\ c.slo = slo
      BY ObjectiveFields
    <3>2. slo # Empty
      BY <2>3, <2>6 DEF Valid
    <3>3. CheckOf(o, c)
      BY <2>4
    <3> HIDE DEF c, slo
    <3>4. c.path = path
      BY <2>1, <2>3, <2>6, <3>1
    <3>5. QED
      BY <3>1, <3>2, <3>3, <3>4 DEF At
  <2>7. QED
    BY <1>4, <2>5, <2>6 DEF ComponentFields
<1>5. QED
  BY <1>1, <1>2, <1>3, <1>4

\* Every reference of an alert silence is.
LEMMA SilenceAt ==
  ASSUME NEW o, o.kind = "AlertSilence", Valid(o), NEW path \in DOMAIN o.fields,
         path[1] \in {"spec.slo", "spec.alertPolicy.name", "spec.alertPolicy.project"}
  PROVE  \E c : At(o, c, path)
<1>1. CASE path[1] = "spec.slo"
  <2> DEFINE c == Check(o, <<"spec.slo", <<>>>>, "SLO", OwnProject(o))
  <2>1. path = <<"spec.slo", <<>>>>
    BY <1>1, PlainNumbered, PlainFields
  <2>2. c.path = path /\ c.kind = "SLO"
    BY <2>1, CheckFields
  <2>3. CheckOf(o, c)
    BY Zenon DEF CheckOf, ChainCheck
  <2> HIDE DEF c
  <2>4. QED
    BY <2>2, <2>3 DEF At
<1>2. CASE path[1] \in {"spec.alertPolicy.name", "spec.alertPolicy.project"}
  <2>1. path = <<"spec.alertPolicy.project", <<>>>> \/ path = <<"spec.alertPolicy.name", <<>>>>
    BY <1>2, PlainNumbered, PlainFields
  <2>2. LocatedAsks(o, path, "spec.alertPolicy.project", "spec.alertPolicy.name", <<>>,
                    "AlertPolicy", OwnProject(o))
    BY <2>1, LocatedAt
  <2>3. PICK c : /\ LocatedCheck(o, c, "spec.alertPolicy.project", "spec.alertPolicy.name", <<>>,
                                 "AlertPolicy", OwnProject(o))
                 /\ c.path = path /\ c.kind # "Objective"
    BY <2>2, Zenon DEF LocatedAsks
  <2>4. CheckOf(o, c)
    BY <2>3, Zenon DEF CheckOf, ChainCheck
  <2>5. QED
    BY <2>3, <2>4 DEF At
<1>3. QED
  BY <1>1, <1>2

\* Every reference of an annotation is.
LEMMA AnnotationAt ==
  ASSUME NEW o, o.kind = "Annotation", Valid(o), NEW path \in DOMAIN o.fields,
         Field(o, path) # Empty, path[1] \in {"spec.slo", "spec.objectiveName"}
  PROVE  \E c : At(o, c, path)
<1>1. path = <<path[1], <<>>>>
  BY PlainNumbered, PlainFields
<1>2. CASE path[1] = "spec.slo"
  <2> DEFINE c == Check(o, <<"spec.slo", <<>>>>, "SLO", OwnProject(o))
  <2>1. c.path = path /\ c.kind = "SLO"
    BY <1>1, <1>2, CheckFields
  <2>2. CheckOf(o, c)
    BY Zenon DEF CheckOf, ChainCheck
  <2> HIDE DEF c
  <2>3. QED
    BY <2>1, <2>2 DEF At
<1>3. CASE path[1] = "spec.objectiveName"
  <2> DEFINE slo == Field(o, <<"spec.slo", <<>>>>)
             c == ObjectiveCheck(o, <<"spec.objectiveName", <<>>>>, slo, OwnProject(o))
  <2>1. c.path = <<"spec.objectiveName", <<>>>> /\ c.slo = slo
    BY ObjectiveFields
  <2>2. slo # Empty
    BY <1>1, <1>3 DEF Valid
  <2>3. CheckOf(o, c)
    BY Zenon DEF CheckOf, ChainCheck
  <2> HIDE DEF c, slo
  <2>4. QED
    BY <1>1, <1>3, <2>1, <2>2, <2>3 DEF At
<1>4. QED
  BY <1>2, <1>3

\* Every reference of a role binding is.
LEMMA BindingAt ==
  ASSUME NEW o, o.kind = "RoleBinding", Valid(o), NEW path \in DOMAIN o.fields,
         path[1] \in {"spec.user", "spec.groupRef", "spec.roleRef", "spec.projectRef"}
  PROVE  \E c : At(o, c, path)
<1> DEFINE role == IF Field(o, <<"spec.projectRef", <<>>>>) # Empty
                   THEN "ProjectRole" ELSE "OrganizationRole"
           made == {Check(o, <<"spec.roleRef", <<>>>>, role, Empty),
                    Check(o, <<"spec.projectRef", <<>>>>, "Project", Empty),
                    Check(o, <<"spec.groupRef", <<>>>>, "UserGroup",
                          Field(o, <<"spec.projectRef", <<>>>>)),
                    Check(o, <<"spec.user", <<>>>>, "User", Empty)}
<1>1. path = <<path[1], <<>>>>
  BY PlainNumbered, PlainFields
<1>2. \A c \in made : CheckOf(o, c)
  BY Zenon DEF CheckOf, ChainCheck
<1>3. \A c \in made : c.kind # "Objective"
  BY DEF Check
<1>4. \E c \in made : c.path = path
  BY <1>1 DEF Check
<1> HIDE DEF made
<1>5. QED
  BY <1>2, <1>3, <1>4 DEF At

\* The kinds whose checks all come from lists.
LEMMA ListsAt ==
  ASSUME NEW o, Valid(o), NEW path \in DOMAIN o.fields,
         \/ o.kind = "AlertPolicy" /\ path[1] \in {"spec.alertMethods[*].metadata.name",
                                                  "spec.alertMethods[*].metadata.project"}
         \/ o.kind \in {"BudgetAdjustment", "Report"} /\
              path[1] \in {"spec.filters.slos[*].name", "spec.filters.slos[*].project"}
         \/ o.kind = "Report" /\
              path[1] \in {"spec.filters.services[*].name", "spec.filters.services[*].project",
                           "spec.filters.projects[*]"}
         \/ o.kind = "UserGroup" /\ path[1] = "spec.members[*].id"
  PROVE  \E c : At(o, c, path)
<1>1. CASE o.kind = "AlertPolicy" /\ path[1] \in {"spec.alertMethods[*].metadata.name",
                                                  "spec.alertMethods[*].metadata.project"}
  <2>1. ListAsks(o, path, "spec.alertMethods[*].metadata.project",
                 "spec.alertMethods[*].metadata.name", "AlertMethod", OwnProject(o))
    BY <1>1, ListAt, ElementSets
  <2>2. PICK c : /\ ListCheck(o, c, "spec.alertMethods[*].metadata.project",
                              "spec.alertMethods[*].metadata.name", "AlertMethod", OwnProject(o))
                 /\ c.path = path /\ c.kind # "Objective"
    BY <2>1, Zenon DEF ListAsks
  <2>3. CheckOf(o, c)
    BY <1>1, <2>2, Zenon DEF CheckOf, ChainCheck
  <2>4. QED
    BY <2>2, <2>3 DEF At
<1>2. CASE /\ o.kind \in {"BudgetAdjustment", "Report"}
           /\ path[1] \in {"spec.filters.slos[*].name", "spec.filters.slos[*].project"}
  <2>1. ListAsks(o, path, "spec.filters.slos[*].project", "spec.filters.slos[*].name", "SLO",
                 Empty)
    BY <1>2, ListAt, ElementSets
  <2>2. PICK c : /\ ListCheck(o, c, "spec.filters.slos[*].project", "spec.filters.slos[*].name",
                              "SLO", Empty)
                 /\ c.path = path /\ c.kind # "Objective"
    BY <2>1, Zenon DEF ListAsks
  <2>3. CheckOf(o, c)
    <3>1. CASE o.kind = "BudgetAdjustment"
      BY <2>2, <3>1, Zenon DEF CheckOf, ChainCheck
    <3>2. CASE o.kind = "Report"
      BY <2>2, <3>2, Zenon DEF CheckOf, ChainCheck
    <3>3. QED
      BY <1>2, <3>1, <3>2
  <2>4. QED
    BY <2>2, <2>3 DEF At
<1>3. CASE /\ o.kind = "Report"
           /\ path[1] \in {"spec.filters.services[*].name", "spec.filters.services[*].project"}
  <2>1. ListAsks(o, path, "spec.filters.services[*].project", "spec.filters.services[*].name",
                 "Service", Empty)
    BY <1>3, ListAt, ElementSets
  <2>2. PICK c : /\ ListCheck(o, c, "spec.filters.services[*].project",
                              "spec.filters.services[*].name", "Service", Empty)
                 /\ c.path = path /\ c.kind # "Objective"
    BY <2>1, Zenon DEF ListAsks
  <2>3. CheckOf(o, c)
    BY <1>3, <2>2, Zenon DEF CheckOf, ChainCheck
  <2>4. QED
    BY <2>2, <2>3 DEF At
<1>4. CASE o.kind = "Report" /\ path[1] = "spec.filters.projects[*]"
  <2>1. PICK c : /\ EachCheck(o, c, "spec.filters.projects[*]", "Project", Empty)
                 /\ c.path = path /\ c.kind # "Objective"
    BY <1>4, EachAt, ElementSets
  <2>2. CheckOf(o, c)
    BY <1>4, <2>1, Zenon DEF CheckOf
  <2>3. QED
    BY <2>1, <2>2 DEF At
<1>5. CASE o.kind = "UserGroup" /\ path[1] = "spec.members[*].id"
  <2>1. PICK c : /\ EachCheck(o, c, "spec.members[*].id", "User", Empty)
                 /\ c.path = path /\ c.kind # "Objective"
    BY <1>5, EachAt, ElementSets
  <2>2. CheckOf(o, c)
    BY <1>5, <2>1, Zenon DEF CheckOf, ChainCheck
  <2>3. QED
    BY <2>1, <2>2 DEF At
<1>6. QED
  BY <1>1, <1>2, <1>3, <1>4, <1>5

\* The fields of the rows of each kind.
LEMMA RowFields ==
  ASSUME NEW o, NEW path, IsReference(o, path)
  PROVE  \/ path[1] = Project /\ o.kind \in ProjectScopedKinds
         \/ o.kind = "SLO" /\
              path[1] \in {"spec.service", "spec.indicator.metricSource.project", SourceField,
                           "spec.anomalyConfig.noData.alertMethods[*].name",
                           "spec.anomalyConfig.noData.alertMethods[*].project",
                           "spec.alertPolicies"} \union ComponentFields
         \/ o.kind = "AlertSilence" /\
              path[1] \in {"spec.slo", "spec.alertPolicy.name", "spec.alertPolicy.project"}
         \/ o.kind = "Annotation" /\ path[1] \in {"spec.slo", "spec.objectiveName"}
         \/ o.kind = "RoleBinding" /\
              path[1] \in {"spec.user", "spec.groupRef", "spec.roleRef", "spec.projectRef"}
         \/ o.kind = "AlertPolicy" /\ path[1] \in {"spec.alertMethods[*].metadata.name",
                                                  "spec.alertMethods[*].metadata.project"}
         \/ o.kind \in {"BudgetAdjustment", "Report"} /\
              path[1] \in {"spec.filters.slos[*].name", "spec.filters.slos[*].project"}
         \/ o.kind = "Report" /\
              path[1] \in {"spec.filters.services[*].name", "spec.filters.services[*].project",
                           "spec.filters.projects[*]"}
         \/ o.kind = "UserGroup" /\ path[1] = "spec.members[*].id"
<1>1. PICK r \in References(o.kind) : r.at = path[1]
  BY DEF IsReference
<1>2. CASE r = Ref(Project, "Project", Empty, Empty) /\ o.kind \in ProjectScopedKinds
  BY <1>1, <1>2, RefFields
<1>3. CASE r \in SpecReferences(o.kind)
  <2>1. CASE o.kind = "SLO"
    BY <1>1, <1>3, <2>1 DEF SpecReferences, Ref, ComponentFields
  <2>2. CASE o.kind \in {"AlertSilence", "Annotation", "AlertPolicy", "UserGroup"}
    BY <1>1, <1>3, <2>2 DEF SpecReferences, Ref
  <2>3. CASE o.kind \in {"BudgetAdjustment", "Report", "RoleBinding"}
    BY <1>1, <1>3, <2>3 DEF SpecReferences, Ref
  <2>4. CASE o.kind \notin {"SLO", "AlertSilence", "Annotation", "AlertPolicy", "UserGroup",
                            "BudgetAdjustment", "Report", "RoleBinding"}
    BY <1>3, <2>4 DEF SpecReferences
  <2>5. QED
    BY <2>1, <2>2, <2>3, <2>4
<1>4. QED
  BY <1>1, <1>2, <1>3 DEF References

\* So is the own project of whatever has one.
LEMMA OwnProjectAt ==
  ASSUME NEW o, o.kind \in ProjectScopedKinds, Valid(o), NEW path \in DOMAIN o.fields,
         path[1] = Project
  PROVE  \E c : At(o, c, path)
<1> DEFINE c == Check(o, ProjectPath, "Project", Empty)
<1>1. path = ProjectPath
  BY PlainNumbered, PlainFields DEF ProjectPath, Project
<1>2. c.path = path /\ c.kind = "Project"
  BY <1>1, CheckFields
<1>3. CheckOf(o, c)
  BY Zenon DEF CheckOf
<1> HIDE DEF c
<1>4. QED
  BY <1>2, <1>3 DEF At

\* Every name that the table takes for a reference is checked, in every valid object.
LEMMA ReferencesChecked ==
  ASSUME NEW o, Valid(o), NEW path \in DOMAIN o.fields, IsReference(o, path),
         Field(o, path) # Empty
  PROVE  \E c : At(o, c, path)
<1>1. ~(o.kind = "SLO" /\ path[1] = "spec.alertPolicies")
  <2>1. ASSUME path[1] = "spec.alertPolicies"
        PROVE  FALSE
    <3>1. path = <<"spec.alertPolicies", <<>>>>
      BY <2>1, PlainNumbered, PlainFields
    <3>2. QED
      BY <3>1 DEF Valid
  <2>2. QED
    BY <2>1
<1>2. CASE path[1] = Project /\ o.kind \in ProjectScopedKinds
  BY <1>2, OwnProjectAt
<1>3. CASE o.kind = "SLO" /\
             path[1] \in {"spec.service", "spec.indicator.metricSource.project", SourceField,
                          "spec.anomalyConfig.noData.alertMethods[*].name",
                          "spec.anomalyConfig.noData.alertMethods[*].project"}
                         \union ComponentFields
  BY <1>3, SLOAt, Zenon
<1>4. CASE \/ o.kind = "AlertPolicy" /\ path[1] \in {"spec.alertMethods[*].metadata.name",
                                                    "spec.alertMethods[*].metadata.project"}
           \/ o.kind \in {"BudgetAdjustment", "Report"} /\
                path[1] \in {"spec.filters.slos[*].name", "spec.filters.slos[*].project"}
           \/ o.kind = "Report" /\
                path[1] \in {"spec.filters.services[*].name", "spec.filters.services[*].project",
                             "spec.filters.projects[*]"}
           \/ o.kind = "UserGroup" /\ path[1] = "spec.members[*].id"
  BY <1>4, ListsAt, Zenon
<1>5. CASE o.kind = "AlertSilence" /\
             path[1] \in {"spec.slo", "spec.alertPolicy.name", "spec.alertPolicy.project"}
  BY <1>5, SilenceAt, Zenon
<1>6. CASE o.kind = "Annotation" /\ path[1] \in {"spec.slo", "spec.objectiveName"}
  BY <1>6, AnnotationAt, Zenon
<1>7. CASE o.kind = "RoleBinding" /\
             path[1] \in {"spec.user", "spec.groupRef", "spec.roleRef", "spec.projectRef"}
  BY <1>7, BindingAt, Zenon
<1>8. QED
  BY <1>1, <1>2, <1>3, <1>4, <1>5, <1>6, <1>7, RowFields

\* In terms of the checks that are made.
LEMMA ChecksAtPath ==
  ASSUME NEW o, IsFiniteSet(DOMAIN o.fields), NEW path, NEW c
  PROVE  c \in ChecksAt(o, path) <=> CheckOf(o, c) /\ c.path = path /\ Asked(c)
BY CheckTable DEF ChecksAt, Checks

\* A reference that is not empty has a check that is made.
LEMMA ReferenceAsked ==
  ASSUME NEW o, IsFiniteSet(DOMAIN o.fields), Valid(o), NEW path \in DOMAIN o.fields,
         IsReference(o, path), Field(o, path) # Empty
  PROVE  ChecksAt(o, path) # {}
<1>1. PICK c : At(o, c, path)
  BY ReferencesChecked
<1>2. CheckOf(o, c) /\ c.path = path /\ (c.kind = "Objective" => c.slo # Empty)
  BY <1>1 DEF At
<1>3. c.name = Field(o, path)
  BY <1>2, CheckNames
<1>4. c \in ChecksAt(o, path)
  BY <1>2, <1>3, ChecksAtPath DEF Asked
<1>5. QED
  BY <1>4

\* Whatever the platform does during the check and while an answer of before it is cached.
LEMMA PlatformOfThings == Spec => [](object \in Objects /\ past \subseteq SUBSET Things)
<1>1. TypeOK => object \in Objects /\ past \subseteq SUBSET Things
  BY DEF TypeOK
<1>2. QED
  BY <1>1, TypeCorrect, PTL

\* Every reference of a valid object is settled when its check ends: no field that the
\* editor knows as a reference is left out by checkReferencedObjects, for any object.  What
\* a cached answer found was there at some moment since an answer may be cached.
THEOREM ReferencesAlwaysSettled == Spec => []EveryReferenceSettled
<1>1. object \in Objects /\ SettledWhenDone => EveryReferenceSettled
  <2> SUFFICES ASSUME object \in Objects, SettledWhenDone, Done,
                      NEW path \in DOMAIN object.fields,
                      \/ object.fields[path] # Empty /\ IsReference(object, path)
                      \/ ChecksAt(object, path) # {}
               PROVE  \E c \in ChecksAt(object, path) : Settled(c)
    BY DEF EveryReferenceSettled, Settled
  <2>1. IsFiniteSet(DOMAIN object.fields) /\ Valid(object)
    BY ChecksAssumption, ObjectsAssumption
  <2>2. ChecksAt(object, path) # {}
    <3>1. Field(object, path) = object.fields[path]
      BY DEF Field, HasLine
    <3>2. QED
      BY <2>1, <3>1, ReferenceAsked
  <2>3. PICK c \in ChecksAt(object, path) : TRUE
    BY <2>2
  <2>4. Settled(c)
    BY <2>3 DEF SettledWhenDone, ChecksAt
  <2>5. QED
    BY <2>4
<1>2. QED
  BY <1>1, PlatformOfThings, ChecksAlwaysSettled, PTL

\* What ReferencesCompletionProvider offers for a field is accepted by the check of that
\* field when both answer from the platform of the same moment, cached or not, for any
\* object: both compute the same project (but for a role binding whose projectRef is being
\* written).
THEOREM OffersAlwaysPass == Spec => []OfferedNamesPass
<1>1. object \in Objects => OfferedNamesPass
  <2> SUFFICES ASSUME object \in Objects, NEW w \in past, NEW path \in DOMAIN object.fields,
                      NEW name \in Offered(w, object, path),
                      ~(path[1] = "spec.roleRef" /\ ProjectRefOpen(object)),
                      NEW c \in ChecksAt(Picked(object, path, name), path)
               PROVE  Holds(w, c)
    BY DEF OfferedNamesPass
  <2>1. IsFiniteSet(DOMAIN Picked(object, path, name).fields)
    BY ChecksAssumption, PickedFields
  <2>2. CheckOf(Picked(object, path, name), c) /\ c.path = path
    BY <2>1, ChecksAtPath
  <2>3. QED
    BY <2>2, OfferHolds
<1>2. QED
  BY <1>1, PlatformOfThings, PTL

\* What hover documents at a field is what its check finds in the platform of the same
\* moment, cached or not, never a namesake in another project, for any object.
THEOREM HoverAlwaysAgrees == Spec => []HoverAgrees
<1>1. object \in Objects /\ past \subseteq SUBSET Things => HoverAgrees
  <2> SUFFICES ASSUME object \in Objects, past \subseteq SUBSET Things,
                      NEW w \in past, NEW path \in DOMAIN object.fields,
                      NEW c \in ChecksAt(object, path), c.kind # "Objective"
               PROVE  Hovered(w, object, path) \subseteq
                        Found(w, c.kind, c.name, c.project)
    BY DEF HoverAgrees
  <2>1. IsFiniteSet(DOMAIN object.fields)
    BY ChecksAssumption
  <2>2. CheckOf(object, c) /\ c.path = path
    BY <2>1, ChecksAtPath
  <2>3. \A t \in w : t.kind # Empty
    BY ObjectsAssumption
  <2>4. Hovered(w, object, c.path) \subseteq Found(w, c.kind, c.name, c.project)
    BY <2>2, <2>3, HoverFinds
  <2>5. QED
    BY <2>2, <2>4
<1>2. QED
  BY <1>1, PlatformOfThings, PTL
=============================================================================
