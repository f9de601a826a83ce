------------------------- MODULE ReferenceCompletion -------------------------
(***************************************************************************)
(* The table of references that completion and hover use (objectref), the  *)
(* names completion offers and the object hover shows at a line, and how   *)
(* they fit the checks that diagnostics make of the same fields.           *)
(***************************************************************************)
EXTENDS ReferenceChecks

\* An entry: the field, the kind its value names ("" if the table leaves it open) and the
\* fields with the project and the SLO it lies in.
Ref(at, kind, projectAt, sloAt) ==
  [at |-> at, kind |-> kind, projectAt |-> projectAt, sloAt |-> sloAt]

Project == "metadata.project"

\* The entries of the table that apply to a kind, the project of scoped objects aside.
SpecReferences(kind) ==
  CASE kind = "AlertPolicy" ->
         {Ref("spec.alertMethods[*].metadata.name", "AlertMethod", "spec.alertMethods[*].metadata.project", Empty),
          Ref("spec.alertMethods[*].metadata.project", "Project", Empty, Empty)}
    [] kind = "AlertSilence" ->
         {Ref("spec.slo", "SLO", Project, Empty),
          Ref("spec.alertPolicy.name", "AlertPolicy", "spec.alertPolicy.project", Empty),
          Ref("spec.alertPolicy.project", "Project", Empty, Empty)}
    [] kind = "Annotation" ->
         {Ref("spec.slo", "SLO", Project, Empty),
          Ref("spec.objectiveName", Empty, Project, "spec.slo")}
    [] kind = "BudgetAdjustment" ->
         {Ref("spec.filters.slos[*].name", "SLO", "spec.filters.slos[*].project", Empty),
          Ref("spec.filters.slos[*].project", "SLO", Empty, Empty)}
    [] kind = "Report" ->
         {Ref("spec.filters.projects[*]", "Project", Empty, Empty),
          Ref("spec.filters.services[*].name", "Service", "spec.filters.services[*].project", Empty),
          Ref("spec.filters.services[*].project", "Project", Empty, Empty),
          Ref("spec.filters.slos[*].name", "SLO", "spec.filters.slos[*].project", Empty),
          Ref("spec.filters.slos[*].project", "Project", Empty, Empty)}
    [] kind = "RoleBinding" ->
         {Ref("spec.user", Empty, Empty, Empty), Ref("spec.groupRef", "UserGroup", Empty, Empty),
          Ref("spec.roleRef", Empty, Empty, Empty), Ref("spec.projectRef", "Project", Empty, Empty)}
    [] kind = "UserGroup" -> {Ref("spec.members[*].id", Empty, Empty, Empty)}
    [] kind = "SLO" ->
         {Ref("spec.service", "Service", Project, Empty),
          Ref(SourceField, Empty, "spec.indicator.metricSource.project", Empty),
          Ref("spec.indicator.metricSource.project", "Project", Empty, Empty),
          Ref("spec.alertPolicies", "AlertPolicy", Project, Empty),
          Ref(ComponentProject, "Project", Empty, Empty),
          Ref(ComponentSLO, "SLO", ComponentProject, Empty),
          Ref(ComponentObjective, "SLO", ComponentProject, ComponentSLO),
          Ref("spec.anomalyConfig.noData.alertMethods[*].name", "AlertMethod",
              "spec.anomalyConfig.noData.alertMethods[*].project", Empty),
          Ref("spec.anomalyConfig.noData.alertMethods[*].project", "Project", Empty, Empty)}
    [] OTHER -> {}

References(kind) ==
  SpecReferences(kind)
  \union (IF kind \in ProjectScopedKinds THEN {Ref(Project, "Project", Empty, Empty)} ELSE {})

IsReference(o, path) == \E r \in References(o.kind) : r.at = path[1]

\* objectref.Get: the entry of the line's generalized path.  Its project and SLO are in the
\* same elements of the same lists: they get the indexes of the line.
Get(o, path) == CHOOSE r \in References(o.kind) : r.at = path[1]

-----------------------------------------------------------------------------
(* The objects that have no validation errors: only their references are    *)
(* checked.                                                                 *)

\* The fields that the elements of each list of names have.
ElementFields ==
  {{"spec.alertPolicies[*]"}, {"spec.filters.projects[*]"}, {"spec.members[*].id"},
   {"spec.anomalyConfig.noData.alertMethods[*].name",
    "spec.anomalyConfig.noData.alertMethods[*].project"},
   {"spec.alertMethods[*].metadata.name", "spec.alertMethods[*].metadata.project"},
   {"spec.filters.services[*].name", "spec.filters.services[*].project"},
   {"spec.filters.slos[*].name", "spec.filters.slos[*].project"}}

\* The elements of a list are counted from 1 and each has a field; a field outside the lists
\* has no index.
Numbered(o) ==
  \A path \in DOMAIN o.fields :
    /\ \A fields \in ElementFields :
         path[1] \in fields => \E i \in 1..Count(o, fields, <<>>) : path[2] = <<i>>
    /\ path[1] \in ComponentFields =>
         \E i \in 1..CountOuter(o, ComponentFields) :
           \E j \in 1..Count(o, ComponentFields, <<i>>) : path[2] = <<i, j>>
    /\ path[1] \notin ComponentFields \union UNION ElementFields => path[2] = <<>>

\* An objective is one of an SLO, which is required beside it; a source is an Agent or a
\* Direct; a list is no name.
Valid(o) ==
  /\ DOMAIN o.fields \subseteq STRING \X Seq(Nat)
  /\ Numbered(o)
  /\ Field(o, <<"spec.objectiveName", <<>>>>) # Empty => Field(o, <<"spec.slo", <<>>>>) # Empty
  /\ \A path \in DOMAIN o.fields :
       path[1] = ComponentObjective => Field(o, <<ComponentSLO, path[2]>>) # Empty
  /\ SourceKind(o) \in {"Agent", "Direct"}
  /\ Field(o, <<"spec.alertPolicies", <<>>>>) = Empty

\* Whatever the platform has is of some kind.
ASSUME ObjectsAssumption ==
  /\ \A o \in Objects : Valid(o)
  /\ \A t \in Things : t.kind # Empty

-----------------------------------------------------------------------------
(* What completion offers at the line of a path.  Each list is made from    *)
(* one answer; w is the platform it was read from, which is an earlier one  *)
(* if the answer comes from the cache.                                      *)

\* Mutant: the object's own project, whatever the reference says.
ProjectNameMutant(o, ref, index) == IF ref.projectAt = Empty THEN Empty ELSE Field(o, ProjectPath)

\* The project of a reference; the fallback depends on the kind that is referred to.
ProjectName(o, ref, index) ==
  LET given == IF ref.projectAt = Empty THEN Empty ELSE Field(o, <<ref.projectAt, index>>) IN
  IF ref.projectAt # Empty /\ given = Empty /\ ref.kind \in ProjectScopedKinds
  THEN Field(o, ProjectPath)
  ELSE given

ObjectNames(w, o, ref, index) ==
  LET project == ProjectName(o, ref, index) IN
  IF project = Empty /\ ref.kind \in ProjectScopedKinds THEN {} ELSE AllNames(w, ref.kind, project)

\* Mutant: the name of the SLO is looked up in every project.
ObjectiveNamesMutant(w, o, ref, index) ==
  LET slo == Field(o, <<ref.sloAt, index>>)
  IN UNION {t.objectives : t \in Found(w, "SLO", slo, Empty)}

ObjectiveNames(w, o, ref, index) ==
  LET slo == Field(o, <<ref.sloAt, index>>)
      project == ProjectName(o, ref, index)
  IN IF slo = Empty \/ project = Empty THEN {}
     ELSE UNION {t.objectives : t \in Found(w, "SLO", slo, project)}

\* A kind that parses (err is nil) ends the completion; none, or an unknown one, is Agent.
SourceNames(w, o, ref, index) ==
  IF Field(o, SourceKindPath) # Empty THEN {}
  ELSE ObjectNames(w, o, [ref EXCEPT !.kind = "Agent"], index)

\* Looks for the line of projectRef, not for its value.
RoleNames(w, o) ==
  AllNames(w, IF HasLine(o, <<"spec.projectRef", <<>>>>) THEN "ProjectRole" ELSE "OrganizationRole", Empty)

\* ReferencesCompletionProvider.Complete
Offered(w, o, path) ==
  LET ref == Get(o, path) IN
  IF ~IsReference(o, path) THEN {}
  ELSE IF ref.sloAt # Empty THEN ObjectiveNames(w, o, ref, path[2])
  ELSE
  CASE o.kind = "SLO" /\ path[1] = SourceField -> SourceNames(w, o, ref, path[2])
    [] o.kind = "RoleBinding" /\ path[1] = "spec.user" -> AllNames(w, "User", Empty)
    [] o.kind = "UserGroup" /\ path[1] = "spec.members[*].id" -> AllNames(w, "User", Empty)
    [] o.kind = "RoleBinding" /\ path[1] = "spec.roleRef" -> RoleNames(w, o)
    [] OTHER -> ObjectNames(w, o, ref, path[2])

-----------------------------------------------------------------------------
(* What hover documents at the value of a path, from an answer of w.        *)

HoveredObjects(w, o, ref, path) ==
  LET project == ProjectName(o, ref, path[2]) IN
  IF project = Empty /\ ref.kind \in ProjectScopedKinds THEN {}
  ELSE Found(w, ref.kind, Field(o, path), project)

\* Provider.generatePropertyValueDoc: the things one of which is shown.  Only a mapping line
\* has a value to hover over: an element of a plain list has none.
Hovered(w, o, path) ==
  LET ref == Get(o, path) IN
  IF ~IsReference(o, path) \/ Field(o, path) = Empty \/ path[1] = "spec.filters.projects[*]"
  THEN {}
  ELSE
  CASE o.kind = "SLO" /\ path[1] = SourceField ->
         IF Field(o, SourceKindPath) # Empty THEN {}
         ELSE HoveredObjects(w, o, [ref EXCEPT !.kind = "Agent"], path)
    [] o.kind = "RoleBinding" /\ path[1] = "spec.user" -> Found(w, "User", Field(o, path), Empty)
    [] o.kind = "UserGroup" /\ path[1] = "spec.members[*].id" -> Found(w, "User", Field(o, path), Empty)
    [] OTHER -> HoveredObjects(w, o, ref, path)

-----------------------------------------------------------------------------
(* Properties.                                                              *)

\* The object after the user has picked a name for the field.
Picked(o, path, name) == [kind |-> o.kind, fields |-> [o.fields EXCEPT ![path] = name]]

\* The check has made no lookup yet.
Begins == todo = Stages(object)

ChecksAt(o, path) == {c \in Checks(o) : c.path = path}

\* Every field that the editor knows as a reference, and every field that is checked, is
\* settled when the check ends: reported, there at some moment of the check or of the
\* StalenessBound before it, its request failed, or hidden behind a report of what it lies
\* in.  So what was missing all that time does not go unreported.
EveryReferenceSettled ==
  Done => \A path \in DOMAIN object.fields :
    (object.fields[path] # Empty /\ IsReference(object, path)) \/ ChecksAt(object, path) # {} =>
      \E c \in ChecksAt(object, path) :
        \/ c \in reported \union failed
        \/ \E w \in past : Holds(w, c)
        \/ \E d \in reported : Hides(d, c)

\* The line `projectRef:` is there, its value is not: completion takes the roles of projects
\* for meant, the check those of the organization.
ProjectRefOpen(o) ==
  HasLine(o, <<"spec.projectRef", <<>>>>) /\ Field(o, <<"spec.projectRef", <<>>>>) = Empty

\* A name that completion offers is one that diagnostics accepts in that field of the object
\* if its answer is of the same moment, the present or one the cache still remembers: both
\* look in the same project (but for the role of a binding whose projectRef is not written
\* yet).
OfferedNamesPass ==
  Begins => \A w \in past, path \in DOMAIN object.fields : \A name \in Offered(w, object, path) :
    \/ path[1] = "spec.roleRef" /\ ProjectRefOpen(object)
    \/ \A c \in ChecksAt(Picked(object, path, name), path) : Holds(w, c)

\* What hover documents at a field is what the check of that field finds of the same moment,
\* the present or one the cache still remembers, never a namesake in another project
\* (objectives aside: hover takes their name for an SLO's).
HoverAgrees ==
  Begins => \A w \in past, path \in DOMAIN object.fields : \A c \in ChecksAt(object, path) :
    c.kind # "Objective" =>
      Hovered(w, object, path) \subseteq Found(w, c.kind, c.name, c.project)

\* "Auto completion ... Nobl9 platform resource names": if a name that the platform has
\* would pass the check of a field, completion that asks it now offers it there.
OffersEveryName ==
  \A path \in DOMAIN object.fields : \A t \in platform :
    LET checks == ChecksAt(Picked(object, path, t.name), path) IN
    IsReference(object, path) /\ checks # {}
      /\ (\A c \in checks : t.kind = c.kind /\ Holds(platform, c))
    => t.name \in Offered(platform, object, path)
=============================================================================
